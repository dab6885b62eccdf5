------------------------------- MODULE CrmWire -------------------------------
(***************************************************************************)
(* crm/src: what an adapter makes of an answer on the wire.  Housecall Pro *)
(* is REST and speaks in statuses; Jobber is GraphQL and puts its failures *)
(* in the body of a 200.  The saga and the poller see only the verdict.    *)
(***************************************************************************)
EXTENDS Naturals

CRM_PROVIDERS == {"housecall_pro", "jobber"}

\* An answer: NoStatus is a transport that threw; `errors` are the codes of a GraphQL
\* body, `userErrors` whether a mutation was turned down, `data` and `id` whether the
\* body holds what was asked for.
NoStatus == 0
Reply(status, errors, userErrors, data, id) ==
  [status |-> status, errors |-> errors, userErrors |-> userErrors, data |-> data, id |-> id]

Socket == Reply(NoStatus, {}, FALSE, FALSE, FALSE)
Status(code) == Reply(code, {}, FALSE, FALSE, FALSE)
Ok == Reply(200, {}, FALSE, TRUE, TRUE)
NoId == Reply(200, {}, FALSE, TRUE, FALSE)
Throttled == Reply(200, {"THROTTLED"}, FALSE, FALSE, FALSE)
Rejected == Reply(200, {"OTHER"}, FALSE, FALSE, FALSE)
UserError == Reply(200, {}, TRUE, TRUE, FALSE)
NoData == Reply(200, {}, FALSE, FALSE, FALSE)

\* The vendor says that it did not do what was asked, or says nothing: an error status, or,
\* of GraphQL, a failure inside a 200.
Declines(provider, reply) ==
  \/ reply.status = NoStatus \/ reply.status >= 400
  \/ provider = "jobber" /\ (reply.errors # {} \/ reply.userErrors \/ ~reply.data)

IsRetryableStatus(code) == code \in {408, 425, 429, 500, 502, 503, 504} \/ code >= 500

\* The CrmError of a transport or of a status, for either vendor.
StatusVerdict(reply) ==
  IF reply.status = NoStatus THEN "retry"
  ELSE IF reply.status < 400 THEN "answer"
  ELSE IF IsRetryableStatus(reply.status) THEN "retry" ELSE "fail"

\* execute(): GraphQL reports failure inside a 200, and only throttling is worth a retry.
ExecuteVerdict(reply) ==
  IF StatusVerdict(reply) # "answer" THEN StatusVerdict(reply)
  ELSE IF reply.errors # {} THEN IF "THROTTLED" \in reply.errors THEN "retry" ELSE "fail"
  ELSE IF reply.data THEN "answer" ELSE "fail"

\* request() and query(): a look-up, or a write whose answer is not looked into.
RequestVerdict(provider, reply) ==
  IF provider = "jobber" THEN ExecuteVerdict(reply) ELSE StatusVerdict(reply)

\* A write must come back with the id of what it made (requireId, mutate, nodeId).
WriteVerdict(provider, reply) ==
  IF RequestVerdict(provider, reply) = "answer" /\ (~reply.id \/ reply.userErrors) THEN "fail"
  ELSE RequestVerdict(provider, reply)

\* Mutant of RevokeVerdict: a mutation that was turned down is taken for done.
RevokeVerdictBlind(provider, reply) == RequestVerdict(provider, reply)

\* A revocation needs no id, but a mutation that was turned down is an error.
RevokeVerdict(provider, reply) ==
  IF RequestVerdict(provider, reply) = "answer" /\ reply.userErrors THEN "fail"
  ELSE RequestVerdict(provider, reply)

\* Mutant of ReadVerdict: any refusal to show a job is taken for its absence.
ReadVerdictTolerant(provider, reply) ==
  IF reply.status >= 400 \/ (RequestVerdict(provider, reply) = "answer" /\ ~reply.id)
  THEN "gone" ELSE RequestVerdict(provider, reply)

\* readJob(): a deleted job is a 404 of the one and a null inside a 200 of the other;
\* everything else that is not an answer is thrown.
ReadVerdict(provider, reply) ==
  IF \/ provider = "housecall_pro" /\ reply.status = 404
     \/ provider = "jobber" /\ ExecuteVerdict(reply) = "answer" /\ ~reply.id
  THEN "gone" ELSE RequestVerdict(provider, reply)

=============================================================================
