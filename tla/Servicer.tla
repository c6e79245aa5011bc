------------------------------ MODULE Servicer ------------------------------
(***************************************************************************)
(* The OTA API servicer (grpc/api_v2/servicer.py): requests are sent on to *)
(* the child ECUs, then to the local ota_core over one queue for requests  *)
(* and one for responses that all requests share.  An update waits for its *)
(* response in a thread of the executor, an abort in the event loop.       *)
(***************************************************************************)
EXTENDS Integers, Sequences, FiniteSets

CONSTANTS
    Me, Children,   \* this ECU and the ones directly below it, its sub ECUs
    Below,          \* [Children -> set of the ECUs below each]
    Requests        \* the requests, which are their own session ids

VARIABLES
    kind,         \* what each request is: "update" (or client update) or "abort"
    asked,        \* the ECUs it names
    pc,           \* where its handler is
    response,     \* [Ecus -> result], "none" without one
    acked,        \* update_acked_ecus
    op_queue, resp_queue,
    core_busy,    \* ota_core is in an update
    core_accepts, \* the requests ota_core accepted
    tracked,      \* the requests on_ecus_accept_update_request was called for, with the ECUs
    disturbed     \* a wait timed out, or two were on at a time

service_vars == <<kind, asked, pc, response, acked, op_queue, resp_queue,
                  core_busy, core_accepts, tracked, disturbed>>

Further == UNION {Below[c] : c \in Children}
Ecus == Children \cup {Me} \cup Further
Results == {"NO_FAILURE", "RECOVERABLE", "UNRECOVERABLE"}
Kinds == {"update", "abort"}

\* An abort goes to all ECUs
ServiceInit ==
    /\ kind \in [Requests -> Kinds]
    /\ asked \in [Requests -> SUBSET Ecus]
    /\ \A r \in Requests : asked[r] # {} /\ (kind[r] = "abort" => asked[r] = Ecus)
    /\ pc = [r \in Requests |-> "new"]
    /\ response = [r \in Requests |-> [e \in Ecus |-> "none"]]
    /\ acked = [r \in Requests |-> {}]
    /\ op_queue = <<>> /\ resp_queue = <<>>
    /\ core_busy = FALSE /\ core_accepts = {}
    /\ tracked = [r \in Requests |-> {}] /\ disturbed = FALSE

Waiting == {r \in Requests : pc[r] = "wait"}

\* The event loop is free unless an abort waits in it
LoopFree == \A r \in Waiting : kind[r] # "abort"

Answer(r, e, res) == response' = [response EXCEPT ![r][e] = res]
Goto(r, l) == pc' = [pc EXCEPT ![r] = l]

Begin(r) ==
    /\ LoopFree /\ pc[r] = "new"
    /\ Goto(r, "children")
    /\ UNCHANGED <<kind, asked, response, acked, op_queue, resp_queue, core_busy,
                   core_accepts, tracked, disturbed>>

\* ecu_info.yaml is not loaded: an update is refused for every ECU
RejectAll(r) ==
    /\ LoopFree /\ pc[r] = "new" /\ kind[r] = "update"
    /\ response' = [response EXCEPT ![r] =
                      [e \in Ecus |-> IF e \in asked[r] THEN "UNRECOVERABLE" ELSE "none"]]
    /\ Goto(r, "done")
    /\ UNCHANGED <<kind, asked, acked, op_queue, resp_queue, core_busy, core_accepts,
                   tracked, disturbed>>

\* The answers of the sub ECUs the request names, merged.  A sub ECU answers
\* for itself and for the ECUs below it that the request names, some of which
\* it may know nothing of; one that does not answer in time is given
\* RECOVERABLE, and the ECUs below it nothing, as those below a sub ECU that
\* the request does not name.
ChildAnswers(r) == {f \in [Ecus -> Results \cup {"none"}] :
                       /\ f[Me] = "none"
                       /\ \A c \in Children : f[c] # "none" <=> c \in asked[r]
                       /\ \A e \in Further : f[e] # "none" =>
                             /\ e \in asked[r]
                             /\ \E c \in Children \cap asked[r] : e \in Below[c]}

MergeChildren(r, f) ==
    /\ response' = [response EXCEPT ![r] = f]
    /\ acked' = [acked EXCEPT ![r] =
                    IF kind[r] = "update" THEN {e \in Ecus : f[e] = "NO_FAILURE"} ELSE {}]

\* All sub ECUs have answered or are given up; ota_core comes next if asked
ChildrenAnswer(r) ==
    /\ LoopFree /\ pc[r] = "children"
    /\ \E f \in ChildAnswers(r) : MergeChildren(r, f)
    /\ IF Me \in asked[r]
       THEN /\ Goto(r, "wait")
            /\ op_queue' = Append(op_queue, r)
            /\ disturbed' = (disturbed \/ Waiting # {})
       ELSE Goto(r, "finish") /\ UNCHANGED <<op_queue, disturbed>>
    /\ UNCHANGED <<kind, asked, resp_queue, core_busy, core_accepts, tracked>>

(***************************************************************************)
(* ota_core takes requests in order and answers each with its session id   *)
(***************************************************************************)

CoreAnswers ==
    /\ op_queue # <<>>
    /\ LET r == Head(op_queue)
       IN  \E ok \in IF kind[r] = "update" THEN {~core_busy} ELSE BOOLEAN :
             /\ resp_queue' = Append(resp_queue, [session |-> r, ok |-> ok])
             /\ core_accepts' = IF ok THEN core_accepts \cup {r} ELSE core_accepts
             /\ core_busy' = IF kind[r] = "update" THEN core_busy \/ ok ELSE core_busy
    /\ op_queue' = Tail(op_queue)
    /\ UNCHANGED <<kind, asked, pc, response, acked, tracked, disturbed>>

(***************************************************************************)
(* The rest of the handler                                                 *)
(***************************************************************************)
ResultOfAnySession(r, m) == IF m.ok THEN "NO_FAILURE" ELSE "RECOVERABLE"

Result(r, m) ==
    IF m.session = r /\ m.ok THEN "NO_FAILURE" ELSE "RECOVERABLE"

GetsResponse(r) ==
    /\ pc[r] = "wait" /\ resp_queue # <<>>
    /\ Answer(r, Me, Result(r, Head(resp_queue)))
    /\ resp_queue' = Tail(resp_queue)
    /\ Goto(r, "finish")
    /\ UNCHANGED <<kind, asked, acked, op_queue, core_busy, core_accepts, tracked, disturbed>>

\* WAIT_FOR_LOCAL_ECU_ACK_TIMEOUT, WAIT_FOR_ABORT_ACK_TIMEOUT
TimesOut(r) ==
    /\ pc[r] = "wait" /\ resp_queue = <<>>
    /\ Answer(r, Me, IF kind[r] = "update" THEN "UNRECOVERABLE" ELSE "RECOVERABLE")
    /\ disturbed' = TRUE
    /\ Goto(r, "finish")
    /\ UNCHANGED <<kind, asked, acked, op_queue, resp_queue, core_busy, core_accepts, tracked>>

\* The ECUs the storage is told of: it enters its active mode for them
AckedEcus(r) ==
    IF kind[r] = "update"
    THEN acked[r] \cup {e \in {Me} : response[r][e] = "NO_FAILURE"}
    ELSE {}

Finish(r) ==
    /\ LoopFree /\ pc[r] = "finish"
    /\ acked' = [acked EXCEPT ![r] = AckedEcus(r)]
    /\ Goto(r, "done")
    /\ UNCHANGED <<kind, asked, response, op_queue, resp_queue, core_busy, core_accepts,
                   tracked, disturbed>>

\* The task that _handle_update_request created
TrackEcus(r) ==
    /\ LoopFree /\ pc[r] = "done" /\ acked[r] # {}
    /\ tracked' = [tracked EXCEPT ![r] = acked[r]]
    /\ acked' = [acked EXCEPT ![r] = {}]
    /\ UNCHANGED <<kind, asked, pc, response, op_queue, resp_queue, core_busy, core_accepts,
                   disturbed>>

ServiceOver ==
    /\ \A r \in Requests : pc[r] = "done" /\ acked[r] = {}
    /\ op_queue = <<>> /\ UNCHANGED service_vars

Handle(r) ==
    \/ Begin(r) \/ RejectAll(r) \/ ChildrenAnswer(r)
    \/ GetsResponse(r) \/ TimesOut(r) \/ Finish(r) \/ TrackEcus(r)

ServiceNext == (\E r \in Requests : Handle(r)) \/ CoreAnswers \/ ServiceOver

(***************************************************************************)
(* Properties                                                              *)
(***************************************************************************)
ServiceTypeOK ==
    /\ response \in [Requests -> [Ecus -> Results \cup {"none"}]]
    /\ core_accepts \subseteq Requests
    /\ Len(op_queue) + Len(resp_queue) <= Cardinality(Requests)

\* A handler that takes the response to another request does not take it for
\* its own: NO_FAILURE for the local ECU means ota_core accepted this request
NoFailureIsAccepted ==
    \A r \in Requests : response[r][Me] = "NO_FAILURE" => r \in core_accepts

\* Only a wait that timed out, or another request waiting at the same time,
\* hides from the caller that ota_core accepted
AcceptedIsTold ==
    \A r \in Requests \ Waiting :
        r \in core_accepts => response[r][Me] = "NO_FAILURE" \/ disturbed

\* Every request is answered, also when an abort blocks the event loop and
\* ota_core is slow, and the ECUs that accepted an update are tracked
AllAnswered ==
    \A r \in Requests :
        /\ pc[r] = "done"
        /\ kind[r] = "update" =>
              tracked[r] = {e \in Ecus : response[r][e] = "NO_FAILURE"}
=============================================================================
