----------------------------- MODULE ModelCalls -----------------------------
(***************************************************************************)
(* What the answer of a model's vendor is taken for: anthropic/src/errors, *)
(* groq/src/{errors,structured}, and the three call sites that share them, *)
(* extraction, FAQ selection and the triage of corrections.                *)
(*                                                                         *)
(* An answer carries an HTTP status (NoAnswer for a dead socket), the code *)
(* a 400 gives for the failure of the model, how the body reads, and the   *)
(* object in it.  Prompts, token counts and the wording of reasons are     *)
(* left out; a schema's verdict on a value comes with the value.           *)
(***************************************************************************)
EXTENDS Integers, FiniteSets

CONSTANT Null   \* what a model writes for "not in this utterance"

Vendors == {"anthropic", "groq"}

NoAnswer == 0
MODEL_FAILURE_CODES == {"tool_use_failed", "json_validate_failed"}

Outage(reply) == reply.status = NoAnswer \/ reply.status = 429 \/ reply.status >= 500

ModelFailure(vendor, reply) ==
  vendor = "groq" /\ reply.status = 400 /\ reply.code \in MODEL_FAILURE_CODES

\* Outages, and on Groq a generation its own API refused, degrade; any other refusal
\* is a defect of ours and is thrown; a reply that holds no object to read is not one in
\* which the caller said nothing.
Read(vendor, reply) ==
  IF Outage(reply) \/ ModelFailure(vendor, reply) THEN "unavailable"
  ELSE IF reply.status # 200 THEN "throws"
  ELSE IF reply.body \in {"no call", "unparseable"} THEN "unavailable" ELSE "parsed"

-----------------------------------------------------------------------------
(* Extraction *)

Clamp(confidence) ==
  CASE confidence < 0 -> 0 [] confidence > 100 -> 100 [] OTHER -> confidence

LowConfidence == 85

\* The schema has the last word on what the model calls a value.
Absent(object) == object.value = Null \/ ~object.fits

\* Mutant of ExtractionOutcome: a reply without an object is one in which nothing was said.
ExtractionOutcomeLenient(vendor, reply) ==
  IF reply.status # 200 THEN Read(vendor, reply)
  ELSE IF reply.body # "object" \/ Absent(reply.object) THEN "absent"
  ELSE "filled"

ExtractionOutcome(vendor, reply) ==
  IF Read(vendor, reply) # "parsed" THEN Read(vendor, reply)
  ELSE IF reply.body = "not an object" \/ Absent(reply.object) THEN "absent"
  ELSE "filled"

Sure(object) == object.number /\ Clamp(object.confidence) >= LowConfidence

-----------------------------------------------------------------------------
(* FAQ answers; a similarity is in percent *)

RETRIEVAL_LIMIT == 5
SIMILARITY_FLOOR == 15

\* The tenant's closest entries, and of them those close enough to be worth showing.
Retrieve(index, tenant, score) ==
  LET own == {e \in index : e.tenant = tenant}
  IN {e \in own : /\ Cardinality({f \in own : score[f.id] > score[e.id]}) < RETRIEVAL_LIMIT
                  /\ score[e.id] >= SIMILARITY_FLOOR}

\* Mutant of Selected: an id is looked up wherever it leads.
SelectedAnywhere(reply, candidates, index) ==
  IF reply.body = "not an object" THEN {} ELSE {e \in index : e.id = reply.object.value}

\* An id that was never sent is no selection.
Selected(reply, candidates, index) ==
  IF reply.body = "not an object" THEN {} ELSE {e \in candidates : e.id = reply.object.value}

-----------------------------------------------------------------------------
(* The triage of a correction *)

\* A label outside the enum, or one with no argument behind it, is declined.
TriageVerdict(vendor, reply, labels) ==
  IF Read(vendor, reply) # "parsed" THEN Read(vendor, reply)
  ELSE IF reply.body = "not an object" THEN "declined"
  ELSE IF reply.object.value \in labels /\ reply.object.argued THEN reply.object.value
  ELSE "declined"

=============================================================================
