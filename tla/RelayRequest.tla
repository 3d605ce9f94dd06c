------------------------------ MODULE RelayRequest ------------------------------
(***************************************************************************)
(* The request that relays one committed mutation of a document to the     *)
(* rooms in which its locale is being edited, and the two validators of    *)
(* it: Go's, before it is sent, and TypeScript's, when it is received.     *)
(*                                                                         *)
(* A text is an integer: positive when it says something, a revision among *)
(* others, 0 when it is empty and negative when it is white space.  None   *)
(* is the absence of an optional text.  An operation is its oneof case,    *)
(* NoCase when the receiver knows no such case.                            *)
(***************************************************************************)
EXTENDS Integers, Sequences

Space == -1   \* a blank
NextLine == -2   \* U+0085, which strings.TrimSpace trims and String.trim keeps
ByteOrderMark == -3   \* U+FEFF, the other way round
None == -9

GoBlank == {0, Space, NextLine}

TsBlank == {0, Space, ByteOrderMark}

Domains == {"POST"}
NoCase == "none"
LifecycleCases == {"createTranslation", "deleteTranslation"}

(* Mutant: a blank accepted revision passes.                               *)
TextFieldsWithoutAccepted == {"mutationId", "reference", "locale", "actor", "expectedDocument"}

\* The texts a request must not leave blank.
TextFields == {"mutationId", "reference", "locale", "actor", "expectedDocument", "acceptedDocument"}

(* Mutant: an operation without a case is skipped.                         *)
OperationsKnownAny(r) == r.operations # <<>>

OperationsKnown(r) ==
    r.operations # <<>> /\ \A i \in DOMAIN r.operations : r.operations[i] # NoCase

\* A translation is created or deleted by a mutation that does nothing else.
LifecycleExclusive(r) ==
    (\E i \in DOMAIN r.operations : r.operations[i] \in LifecycleCases) => Len(r.operations) = 1

IsTargetMutation(r) == r.expectedTarget # None \/ r.acceptedTarget # None

(* Mutant: every mutation advances the document.                           *)
DocumentRevisionFitsSource(r) == r.acceptedDocument # r.expectedDocument

\* A mutation of a target keeps the revision of the document, any other advances it.
DocumentRevisionFits(r) == IsTargetMutation(r) <=> r.acceptedDocument = r.expectedDocument

\* A target appears by creation or a first write and disappears by deletion.
TargetRevisionsFit(r) ==
    /\ r.operations = <<"createTranslation">> => r.expectedTarget = None /\ r.acceptedTarget # None
    /\ r.operations = <<"deleteTranslation">> => r.expectedTarget # None /\ r.acceptedTarget = None
    /\ r.expectedTarget # None /\ r.acceptedTarget = None => r.operations = <<"deleteTranslation">>

ValidateRelayInteractiveAIDocumentMutationRequest(r) ==
    /\ \A f \in TextFields : r[f] \notin GoBlank
    /\ r.origin = "MCP" /\ r.domain \in Domains
    /\ OperationsKnown(r) /\ LifecycleExclusive(r)
    /\ r.expectedTarget \notin GoBlank /\ r.acceptedTarget \notin GoBlank
    /\ DocumentRevisionFits(r) /\ TargetRevisionsFit(r)

assertRelayInteractiveAIDocumentMutationRequest(r) ==
    /\ \A f \in TextFields : r[f] \notin TsBlank
    /\ r.origin = "MCP" /\ r.domain \in Domains
    /\ OperationsKnown(r) /\ LifecycleExclusive(r)
    /\ r.expectedTarget \notin TsBlank /\ r.acceptedTarget \notin TsBlank
    /\ DocumentRevisionFits(r) /\ TargetRevisionsFit(r)
================================================================================
