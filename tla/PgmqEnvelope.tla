---------------------------- MODULE PgmqEnvelope ----------------------------
(***************************************************************************)
(* The shared envelope contract of the durable queue, as the two language  *)
(* runtimes decide it: go/event/pgmq.go and packages/event/src/pgmq.ts.    *)
(*                                                                         *)
(* A row of a queue carries a JSON message and a JSON headers document.    *)
(* Only the classes of values the two validators tell apart are kept:      *)
(*   id, type  "text", or "missing" (absent or the empty string)           *)
(*   schema    "current" (version 1) or "other"                            *)
(*   created   "rfc3339", "expandedYear" (what toISOString prints of a year *)
(*             outside 0..9999: a sign and six digits) or "dateOnly", which *)
(*             JavaScript parses and RFC 3339 does not allow, "invalid"     *)
(*             (absent or unparseable)                                     *)
(*   payload   "canonical" base64, "loose" base64 (line breaks or non-zero *)
(*             trailing bits), "missing" (the member is absent), "invalid" *)
(*   headers   "strings" (every value a string), "null", "typed" (some     *)
(*             value is a number, a boolean, an array or an object)        *)
(***************************************************************************)

Languages == {"go", "ts"}

Body == [id      : {"text", "missing"},
         type    : {"text", "missing"},
         schema  : {"current", "other"},
         created : {"rfc3339", "expandedYear", "dateOnly", "invalid"},
         payload : {"canonical", "loose", "missing", "invalid"},
         headers : {"strings", "null", "typed"}]

(* What both validators require first: the two identities and the version. *)
Identified(b) ==
    /\ b.id = "text"
    /\ b.type = "text"
    /\ b.schema = "current"

(* Mutant: created_at is parsed with the layout of a date.                  *)
GoEnvelopeDateOnly(b) ==
    /\ Identified(b)
    /\ b.created = "dateOnly"
    /\ b.payload \in {"canonical", "loose", "missing"}

(* Envelope.Validate: time.Parse(RFC3339Nano) and base64.StdEncoding, which *)
(* skips line breaks, ignores trailing bits and sees an absent member as "". *)
GoEnvelopeValid(b) ==
    /\ Identified(b)
    /\ b.created = "rfc3339"
    /\ b.payload \in {"canonical", "loose", "missing"}

(* assertPgmqEnvelope: Date.parse, and base64 that survives a round trip.   *)
TsEnvelopeValid(b) ==
    /\ Identified(b)
    /\ b.created \in {"rfc3339", "expandedYear", "dateOnly"}
    /\ b.payload = "canonical"

EnvelopeValid(lang, b) ==
    IF lang = "go" THEN GoEnvelopeValid(b) ELSE TsEnvelopeValid(b)

(* Mutant: the headers are not decoded.                                     *)
GoContractErrorEnvelopeOnly(b) == ~GoEnvelopeValid(b)

(* decodeMessageContract: the envelope, then headers into map[string]string *)
GoContractError(b) == ~GoEnvelopeValid(b) \/ b.headers = "typed"

(* PgmqClient.read: row.headers ?? {} is passed on without a check.         *)
TsContractError(b) == ~TsEnvelopeValid(b)

ContractError(lang, b) ==
    IF lang = "go" THEN GoContractError(b) ELSE TsContractError(b)

(* What Enqueue can send: a valid envelope, and headers that the parameter  *)
(* type holds to strings (a nil Go map is sent as null, TypeScript sends {}). *)
Sendable(lang) ==
    {b \in Body :
        /\ EnvelopeValid(lang, b)
        /\ lang = "go" => b.payload # "missing"
        /\ b.headers \in (IF lang = "go" THEN {"strings", "null"} ELSE {"strings"})}

(* The dates the constructors set: NewEnvelope prints the clock, while      *)
(* createPgmqEnvelope prints the Date of its caller, of any year, by        *)
(* toISOString.                                                             *)
SetDates(lang) ==
    IF lang = "go" THEN {"rfc3339"} ELSE {"rfc3339", "expandedYear"}

(* NewEnvelope and createPgmqEnvelope: the identities are the caller's, the *)
(* rest is set by the constructor, which then validates its own result.     *)
Constructed(lang) ==
    {b \in Sendable(lang) : b.created \in SetDates(lang) /\ b.payload = "canonical"}

(* Outside the shared contract for certain: neither runtime takes the       *)
(* envelope, or some header value is not a string.                          *)
OutOfContract(b) ==
    \/ ~GoEnvelopeValid(b) /\ ~TsEnvelopeValid(b)
    \/ b.headers = "typed"
=============================================================================
