--------------------------- MODULE MCPgmqTransport ---------------------------
(* Instances of PgmqTransport for TLC.                                      *)
EXTENDS PgmqTransport

CONSTANTS p1, p2, c1, k1, k2

MCGoParties == [a \in {p1, k1, k2} |-> "go"]

Good == [id |-> "text", type |-> "text", schema |-> "current",
         created |-> "rfc3339", payload |-> "canonical", headers |-> "strings"]
OldSchema == [Good EXCEPT !.schema = "other"]
TypedHeaders == [Good EXCEPT !.headers = "typed"]

MCAllSendable == Sendable("go") \cup Sendable("ts")
MCPairs == [a \in {p1, p2, k1, k2} |-> IF a \in {p2, k2} THEN "ts" ELSE "go"]
MCNone == {}
MCBodies == {Good, OldSchema}
MCForeign == {OldSchema}
MCForeignHeaders == {OldSchema, TypedHeaders}
MCDelays == {-3, 2}
MCLeases == {1, 2, 4}
=============================================================================
