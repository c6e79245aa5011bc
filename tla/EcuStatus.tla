------------------------------ MODULE EcuStatus ------------------------------
(***************************************************************************)
(* The API server's view of the ECUs below the main ECU, and what the main *)
(* ECU decides from it: the storage of status reports and the overall      *)
(* status report (grpc/api_v2/ecu_status.py), the tasks that poll the ECUs *)
(* (ecu_tracker.py), and the wait of an update and of a client update for  *)
(* the child ECUs (_finalize_update_and_reboot, _wait_sub_ecus).           *)
(*                                                                         *)
(* Time passes in ticks.  The timestamps of the code, which are whole      *)
(* seconds, are kept as differences: `age` is the time since the storage   *)
(* was last updated, `gap` the time from the last contact with an ECU to   *)
(* that update.                                                            *)
(***************************************************************************)
EXTENDS Integers, FiniteSets

CONSTANTS
    Me, Children,           \* the ECUs
    ACTIVE_POLLING_INTERVAL, IDLE_POLLING_INTERVAL, DISCONNECTED_ECU_TIMEOUT_FACTOR,
    PAUSED,                 \* PAUSED_OVERALL_ECUS_STATUS_CHANGE_ON_UPDATE_REQ_ACKED
    ECU_UNREACHABLE_TIMEOUT,
    MaxRequests,            \* update and client update requests, counted for each ECU
    MaxOutages              \* times an ECU stops responding

VARIABLES
    ecu,         \* the OTA status each ECU has
    responds,    \* the child ECUs that answer status calls
    missed,      \* ECUs that were out of reach since they accepted an update
    unheard,     \* ECUs whose acceptance came too late for the last look at the flag
    accepted,    \* ECUs that accepted the request the servicer is handling
    main,        \* the update of the main ECU: "none", "update", "wait", "leave",
                 \* "client", "client_wait", "reboot"
    call,        \* the answer to the status call each polling task has in flight
    report,      \* all_ecus_status_v2
    gap,         \* see above; NoContact without contact
    age,         \* time since storage_last_updated_timestamp
    fresh,       \* last_storage_update differs from storage_last_updated_timestamp
    made_now,    \* last_storage_update is the current second
    since_req,   \* time since last_update_request_received_timestamp
    in_update,   \* in_update_ecus_id
    any_child_ecu_in_update, any_requires_network, all_success,
    requests, outages

truth_vars == <<ecu, responds, missed, unheard, accepted, main, requests, outages>>
storage_vars == <<report, gap, age, fresh>>
overall_vars == <<made_now, since_req, in_update, any_child_ecu_in_update, any_requires_network, all_success>>
ecu_vars == <<truth_vars, call, storage_vars, overall_vars>>

Ecus == Children \cup {Me}                \* available_ecu_ids

\* "DOWNLOADING" is UPDATING up to the phase DOWNLOADING_OTA_FILES.  "IN_UPDATE"
\* is UPDATING in a later phase, CLIENT_UPDATING or ABORTING: the overall
\* report does not tell them apart.
OTAStatus == {"SUCCESS", "FAILURE", "DOWNLOADING", "IN_UPDATE"}
InUpdate(st) == st \in {"DOWNLOADING", "IN_UPDATE"}
RequiresNetwork(st) == st = "DOWNLOADING"
NoReport == "none"
NoContact == -1
Far == ECU_UNREACHABLE_TIMEOUT + 1        \* where ages stop growing
Least(a, b) == IF a < b THEN a ELSE b

EcuInit ==
    /\ ecu = [e \in Ecus |-> "SUCCESS"]
    /\ responds = Children /\ missed = {} /\ unheard = {} /\ accepted = {} /\ main = "none"
    /\ requests = MaxRequests /\ outages = MaxOutages
    /\ call = [c \in Children |-> NoReport]
    /\ report = [e \in Ecus |-> NoReport]
    /\ gap = [e \in Ecus |-> NoContact] /\ age = Far /\ fresh = FALSE
    /\ made_now = FALSE /\ since_req = PAUSED + 1
    /\ in_update = {}
    /\ any_child_ecu_in_update = FALSE /\ any_requires_network = FALSE /\ all_success = FALSE

(***************************************************************************)
(* The ECUs themselves.  An ECU that accepts an update or a client update  *)
(* starts it at once, the children whatever the main ECU does; the         *)
(* servicer reports the ones that accepted to the storage later, in a task *)
(* of its own.                                                             *)
(***************************************************************************)
Accepts(e, st) ==
    /\ requests > 0 /\ requests' = requests - 1 /\ ~InUpdate(ecu[e])
    /\ accepted' = accepted \cup {e} /\ missed' = (missed \ {e}) \cup ({e} \ (responds \cup {Me}))
    /\ unheard' = IF main = "leave" THEN unheard \cup {e} ELSE unheard
    /\ ecu' = [ecu EXCEPT ![e] = st]
    /\ UNCHANGED <<responds, outages, call, storage_vars, overall_vars>>

AcceptUpdate(e) ==
    \/ e \in Children /\ UNCHANGED main
       /\ \E st \in {"DOWNLOADING", "IN_UPDATE"} : Accepts(e, st)
    \/ e = Me /\ main = "none" /\ main' = "update" /\ Accepts(e, "DOWNLOADING")
    \/ e = Me /\ main = "none" /\ main' = "client" /\ Accepts(e, "IN_UPDATE")

Downloaded(e) ==
    /\ ecu[e] = "DOWNLOADING"
    /\ ecu' = [ecu EXCEPT ![e] = "IN_UPDATE"]
    /\ UNCHANGED <<responds, missed, unheard, accepted, main, requests, outages, call,
                   storage_vars, overall_vars>>

\* An update may also never end
ChildEnds(c) ==
    /\ InUpdate(ecu[c])
    /\ \E st \in {"SUCCESS", "FAILURE"} : ecu' = [ecu EXCEPT ![c] = st]
    /\ UNCHANGED <<responds, missed, unheard, accepted, main, requests, outages, call,
                   storage_vars, overall_vars>>

\* A child is out of reach, or back
GoesSilent(c) ==
    /\ c \in responds /\ outages > 0 /\ outages' = outages - 1
    /\ responds' = responds \ {c} /\ missed' = missed \cup {c}
    /\ call' = [call EXCEPT ![c] = NoReport]
    /\ UNCHANGED <<ecu, unheard, accepted, main, requests, storage_vars, overall_vars>>

ComesBack(c) ==
    /\ c \notin responds /\ responds' = responds \cup {c}
    /\ UNCHANGED <<ecu, missed, unheard, accepted, main, requests, outages, call,
                   storage_vars, overall_vars>>

(***************************************************************************)
(* The main ECU, with a local otaproxy: its update is applied, waits for   *)
(* the child ECUs, reboots.  A client update waits at most                 *)
(* CLIENT_UPDATE_TIMEOUT.                                                  *)
(***************************************************************************)
LocalUpdateApplied ==
    /\ \/ main = "update" /\ ~RequiresNetwork(ecu[Me]) /\ main' = "wait"
       \/ main = "client" /\ main' = "client_wait"
    /\ UNCHANGED <<ecu, responds, missed, unheard, accepted, requests, outages, call,
                   storage_vars, overall_vars>>

\* A client update that fails is reported as SUCCESS
LocalUpdateFails ==
    /\ main \in {"update", "client", "client_wait"} /\ main' = "none"
    /\ ecu' = [ecu EXCEPT ![Me] = IF main = "update" THEN "FAILURE" ELSE "SUCCESS"]
    /\ UNCHANGED <<responds, missed, unheard, accepted, requests, outages, call,
                   storage_vars, overall_vars>>

NoWait == TRUE
WaitIsOver == ~any_child_ecu_in_update

\* The flag is seen clear; the metrics are published and WAIT_BEFORE_REBOOT
\* passes without another look at it; the boot controller reboots
FinalizeUpdateAndReboot ==
    /\ \/ main = "wait" /\ WaitIsOver /\ main' = "leave" /\ unheard' = accepted
       \/ main = "leave" /\ main' = "reboot" /\ UNCHANGED unheard
    /\ UNCHANGED <<ecu, responds, missed, accepted, requests, outages, call,
                   storage_vars, overall_vars>>

\* A client update goes on whether or not the flag cleared: the API server and
\* ota_core end, and a dynamic client takes over
WaitSubEcus ==
    /\ main = "client_wait"
    /\ main' = "reboot"
    /\ UNCHANGED <<ecu, responds, missed, unheard, accepted, requests, outages, call,
                   storage_vars, overall_vars>>

(***************************************************************************)
(* The polling tasks of ECUTracker                                         *)
(***************************************************************************)
Running == main # "reboot"

\* A polling task waits between two polls
PollIsDue(e) == gap[e] = NoContact \/ gap[e] + age >= ACTIVE_POLLING_INTERVAL

\* The child answers with the status it has; the answer is on its way
StatusCall(c) ==
    /\ Running /\ PollIsDue(c) /\ call[c] = NoReport /\ c \in responds
    /\ call' = [call EXCEPT ![c] = ecu[c]]
    /\ UNCHANGED <<truth_vars, storage_vars, overall_vars>>

\* An update in the second in which the overall report was made leaves the
\* timestamp what it was
StoreReport(e, st) ==
    /\ report' = [report EXCEPT ![e] = st]
    /\ gap' = [x \in Ecus |-> IF x = e THEN 0
                              ELSE IF gap[x] = NoContact THEN NoContact
                              ELSE Least(gap[x] + age, Far)]
    /\ age' = 0
    /\ fresh' = (fresh \/ ~made_now)

UpdateFromChildEcu(c) ==
    /\ Running /\ call[c] # NoReport
    /\ StoreReport(c, call[c])
    /\ call' = [call EXCEPT ![c] = NoReport]
    /\ UNCHANGED <<truth_vars, overall_vars>>

\* The local status is read from the shared memory
UpdateFromLocalEcu ==
    /\ Running /\ PollIsDue(Me)
    /\ StoreReport(Me, ecu[Me])
    /\ UNCHANGED <<truth_vars, call, overall_vars>>

(***************************************************************************)
(* The overall status report                                               *)
(***************************************************************************)
IsEcuLost(e) == gap[e] # NoContact /\ gap[e] + age > ECU_UNREACHABLE_TIMEOUT

Known(S, P(_)) == {e \in Ecus : report[e] # NoReport /\ P(report[e]) /\ e \notin S}

GenerateOverallStatusReport ==
    LET l == {e \in Ecus : IsEcuLost(e)}
        u == Known(l, InUpdate)
    IN  /\ in_update' = u
        /\ any_child_ecu_in_update' = (u \ {Me} # {})
        /\ any_requires_network' = (Known(l, RequiresNetwork) # {})
        /\ all_success' = (Known(l, LAMBDA st : st = "SUCCESS") = Ecus)

\* No overall report is made for a while after a request was accepted
MayReportAtOnce == fresh
MayReport == fresh /\ since_req > PAUSED

UpdateProperties ==
    /\ Running /\ MayReport
    /\ GenerateOverallStatusReport
    /\ fresh' = FALSE /\ made_now' = (age = 0)
    /\ UNCHANGED <<truth_vars, call, report, gap, age, since_req>>

OnEcusAcceptUpdateRequest ==
    /\ Running /\ accepted # {}
    /\ since_req' = 0
    /\ in_update' = in_update \cup accepted
    /\ all_success' = FALSE /\ any_requires_network' = TRUE
    /\ any_child_ecu_in_update' = ((in_update \cup accepted) \ {Me} # {})
    /\ accepted' = {}
    /\ UNCHANGED <<ecu, responds, missed, unheard, main, requests, outages, call, storage_vars, made_now>>

(***************************************************************************)
(* Time.  The polling tasks come round every interval, so no ECU that      *)
(* responds goes longer without contact; and tasks that are ready run.     *)
(***************************************************************************)
GetPollingInterval == IF in_update # {} THEN ACTIVE_POLLING_INTERVAL ELSE IDLE_POLLING_INTERVAL

Tick ==
    /\ Running /\ ~MayReport
    /\ \A e \in responds \cup {Me} :
          gap[e] # NoContact /\ gap[e] + age < GetPollingInterval
    /\ age' = Least(age + 1, Far)
    /\ since_req' = Least(since_req + 1, PAUSED + 1)
    /\ made_now' = FALSE
    /\ UNCHANGED <<truth_vars, call, report, gap, fresh, in_update,
                   any_child_ecu_in_update, any_requires_network, all_success>>

EcuOver == main = "reboot" /\ UNCHANGED ecu_vars

Poll == UpdateFromLocalEcu \/ \E c \in Children : StatusCall(c) \/ UpdateFromChildEcu(c)
Outside ==
    \/ \E e \in Ecus : AcceptUpdate(e) \/ Downloaded(e)
    \/ \E c \in Children : ChildEnds(c) \/ GoesSilent(c) \/ ComesBack(c)

Leave == FinalizeUpdateAndReboot \/ WaitSubEcus
Watch == Poll \/ UpdateProperties \/ Tick

EcuNext ==
    \/ (Running /\ Outside) \/ LocalUpdateApplied \/ LocalUpdateFails \/ Leave
    \/ Watch \/ OnEcusAcceptUpdateRequest \/ EcuOver

\* The ECUs export() puts in the answer of the status API
Export ==
    {e \in Ecus : gap[e] # NoContact
                  /\ gap[e] <= DISCONNECTED_ECU_TIMEOUT_FACTOR * GetPollingInterval}

(***************************************************************************)
(* Properties                                                              *)
(***************************************************************************)
EcuTypeOK ==
    /\ ecu \in [Ecus -> OTAStatus] /\ responds \subseteq Children
    /\ report \in [Ecus -> OTAStatus \cup {NoReport}]
    /\ gap \in [Ecus -> NoContact..Far] /\ age \in 0..Far /\ since_req \in 0 .. PAUSED + 1

\* _finalize_update_and_reboot: the main ECU reboots, taking the otaproxy
\* down, while a child ECU is in its update, only if the child was out of
\* reach since it accepted it, or if the acceptance had not reached the flag
\* when the flag was last looked at
RebootWaits ==
    (main = "leave" /\ main' = "reboot") =>
        \A c \in Children : InUpdate(ecu[c]) => c \in missed \cup unheard

\* An ECU that downloads an update finds the network flag set, which keeps the
\* otaproxy up: from the servicer's task on until the ECU itself reports a
\* later phase.  The download of a client update has no such claim: the flag
\* is set for it only until the pause is over.
ProxyWhileDownloading ==
    Running => \A e \in Ecus : (RequiresNetwork(ecu[e]) /\ e \notin accepted \cup missed)
                                 => any_requires_network

\* Once the ECUs stay as they are, the flags and the status API say so, lost
\* ECUs left out.  An update of the storage in the second of the last report
\* does not keep the report from being made anew.
Agrees ==
    LET up == responds \cup {Me}
    IN  main = "reboot"
        \/ /\ any_child_ecu_in_update = (\E c \in responds : InUpdate(ecu[c]))
           /\ any_requires_network = (\E e \in up : RequiresNetwork(ecu[e]))
           /\ all_success = (\A e \in Ecus : e \in up /\ ecu[e] = "SUCCESS")
           /\ up \subseteq Export

\* The wait of the main ECU for its child ECUs, to which the code sets no
\* limit, ends unless a child ECU that answers is in an update that does not
\* end: one that is silent is lost in the end
WaitEnds ==
    /\ main # "leave"
    /\ main = "wait" => \E c \in responds : InUpdate(ecu[c])
=============================================================================
