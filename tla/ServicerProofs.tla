--------------------------- MODULE ServicerProofs ---------------------------
(***************************************************************************)
(* Proofs about the OTA API servicer (Servicer), for any sets of requests  *)
(* and of ECUs.                                                            *)
(***************************************************************************)
EXTENDS Servicer, TLAPS

ServiceSpec == ServiceInit /\ [][ServiceNext]_service_vars

Messages == [session : Requests, ok : BOOLEAN]

QueuesTyped ==
    /\ response \in [Requests -> [Ecus -> Results \cup {"none"}]]
    /\ op_queue \in Seq(Requests)
    /\ resp_queue \in Seq(Messages)

\* Whoever reads it, and however late: a positive response in the queue is of
\* a request that ota_core accepted
QueueIsTrue ==
    \A i \in 1 .. Len(resp_queue) :
        resp_queue[i].ok = TRUE => resp_queue[i].session \in core_accepts

\* The inductive invariant
ServiceIInv == QueuesTyped /\ QueueIsTrue /\ NoFailureIsAccepted

\* What a message must be for its reader to answer NO_FAILURE.
LEMMA ResultIsTrue ==
    ASSUME NEW r \in Requests, NEW m \in Messages, Result(r, m) = "NO_FAILURE"
    PROVE  m.session = r /\ m.ok = TRUE
  BY DEF Result, Messages

\* ota_core's answer is appended when the request is accepted or refused.
LEMMA CoreAnswersKept == ASSUME ServiceIInv, CoreAnswers PROVE ServiceIInv'
<1> USE DEF ServiceIInv, QueuesTyped
<1> DEFINE r == Head(op_queue)
<1>1. op_queue # <<>> /\ r \in Requests /\ op_queue' \in Seq(Requests)
  BY DEF CoreAnswers
<1>2. PICK ok \in BOOLEAN :
         /\ resp_queue' = Append(resp_queue, [session |-> r, ok |-> ok])
         /\ core_accepts' = IF ok THEN core_accepts \cup {r} ELSE core_accepts
  <2>1. (~core_busy) \in BOOLEAN
    BY Zenon
  <2>2. QED
    BY <2>1 DEF CoreAnswers
<1>3. UNCHANGED response
  BY DEF CoreAnswers
<1>4. core_accepts \subseteq core_accepts' /\ (ok = TRUE => r \in core_accepts')
  BY <1>2
<1>5. [session |-> r, ok |-> ok] \in Messages
  BY <1>1 DEF Messages
<1>6. resp_queue' \in Seq(Messages)
  BY <1>2, <1>5
<1>7. QueueIsTrue'
  <2> SUFFICES ASSUME NEW i \in 1 .. Len(resp_queue'), resp_queue'[i].ok = TRUE
               PROVE  resp_queue'[i].session \in core_accepts'
    BY DEF QueueIsTrue
  <2>1. CASE i \in 1 .. Len(resp_queue)
    BY <1>2, <1>4, <1>5, <2>1 DEF QueueIsTrue
  <2>2. CASE i = Len(resp_queue) + 1
    <3>1. resp_queue'[i] = [session |-> r, ok |-> ok]
      BY <1>2, <1>5, <2>2
    <3>2. QED
      BY <1>4, <3>1
  <2>3. QED
    BY <1>2, <1>5, <2>1, <2>2
<1>8. NoFailureIsAccepted'
  BY <1>3, <1>4 DEF NoFailureIsAccepted
<1>9. QED
  BY <1>1, <1>3, <1>6, <1>7, <1>8

\* A handler that takes a response takes the oldest one, whoever asked for it.
LEMMA GetsResponseKept ==
    ASSUME ServiceIInv, NEW r \in Requests, GetsResponse(r) PROVE ServiceIInv'
<1> USE DEF ServiceIInv, QueuesTyped
<1> DEFINE m == Head(resp_queue)
<1>1. /\ resp_queue # <<>> /\ resp_queue' = Tail(resp_queue)
      /\ response' = [response EXCEPT ![r][Me] = Result(r, m)]
      /\ UNCHANGED <<op_queue, core_accepts>>
  BY DEF GetsResponse, Answer
<1>2. m \in Messages /\ m = resp_queue[1] /\ 1 \in 1 .. Len(resp_queue)
  BY <1>1
<1>3. Result(r, m) \in Results
  BY DEF Result, Results
<1>4. QueuesTyped'
  <2>1. response' = [response EXCEPT ![r] = [response[r] EXCEPT ![Me] = Result(r, m)]]
    BY <1>1
  <2>2. [response[r] EXCEPT ![Me] = Result(r, m)] \in [Ecus -> Results \cup {"none"}]
    BY <1>3
  <2>3. resp_queue' \in Seq(Messages)
    BY <1>1
  <2>4. QED
    BY <1>1, <2>1, <2>2, <2>3
<1>5. QueueIsTrue'
  <2> SUFFICES ASSUME NEW i \in 1 .. Len(resp_queue'), resp_queue'[i].ok = TRUE
               PROVE  resp_queue'[i].session \in core_accepts
    BY <1>1 DEF QueueIsTrue
  <2>1. i + 1 \in 1 .. Len(resp_queue) /\ resp_queue'[i] = resp_queue[i + 1]
    BY <1>1
  <2>2. QED
    BY <2>1 DEF QueueIsTrue
<1>6. NoFailureIsAccepted'
  <2> SUFFICES ASSUME NEW q \in Requests, response'[q][Me] = "NO_FAILURE"
               PROVE  q \in core_accepts
    BY <1>1 DEF NoFailureIsAccepted
  <2>1. CASE q = r
    <3>1. response'[r][Me] = Result(r, m)
      BY <1>1 DEF Ecus
    <3>2. m.session = r /\ m.ok = TRUE
      BY <1>2, <2>1, <3>1, ResultIsTrue
    <3>3. QED
      BY <1>2, <2>1, <3>2 DEF QueueIsTrue
  <2>2. CASE q # r
    BY <1>1, <2>2 DEF NoFailureIsAccepted
  <2>3. QED
    BY <2>1, <2>2
<1>7. QED
  BY <1>4, <1>5, <1>6

\* Every other step of a handler answers nothing positive for the local ECU.
LEMMA HandleKept ==
    ASSUME ServiceIInv, NEW r \in Requests, Handle(r) PROVE ServiceIInv'
<1> USE DEF ServiceIInv, QueuesTyped, QueueIsTrue, NoFailureIsAccepted, Ecus
<1>1. CASE Begin(r)
  BY <1>1 DEF Begin
<1>2. CASE RejectAll(r)
  BY <1>2 DEF RejectAll, Results
<1>3. CASE ChildrenAnswer(r)
  <2>1. PICK f \in ChildAnswers(r) : response' = [response EXCEPT ![r] = f]
    BY <1>3 DEF ChildrenAnswer, MergeChildren
  <2>2. f \in [Ecus -> Results \cup {"none"}] /\ f[Me] = "none"
    BY Zenon DEF ChildAnswers
  <2>3. response' \in [Requests -> [Ecus -> Results \cup {"none"}]]
    BY <2>1, <2>2
  <2>4. UNCHANGED <<resp_queue, core_accepts>> /\ op_queue' \in Seq(Requests)
    <3>1. UNCHANGED <<resp_queue, core_accepts>>
      BY <1>3, Zenon DEF ChildrenAnswer
    <3>2. op_queue' = Append(op_queue, r) \/ op_queue' = op_queue
      <4>1. CASE Me \in asked[r]
        BY <1>3, <4>1, Zenon DEF ChildrenAnswer
      <4>2. CASE Me \notin asked[r]
        BY <1>3, <4>2 DEF ChildrenAnswer
      <4>3. QED
        BY <4>1, <4>2
    <3>3. op_queue' \in Seq(Requests)
      <4>1. op_queue \in Seq(Requests)
        OBVIOUS
      <4> HIDE DEF ServiceIInv, QueuesTyped, QueueIsTrue, NoFailureIsAccepted, Ecus
      <4>2. Append(op_queue, r) \in Seq(Requests)
        BY <4>1
      <4>3. QED
        BY <3>2, <4>1, <4>2
    <3>4. QED
      BY <3>1, <3>3
  <2>5. QED
    BY <2>1, <2>2, <2>3, <2>4
<1>4. CASE GetsResponse(r)
  BY <1>4, GetsResponseKept
<1>5. CASE TimesOut(r)
  BY <1>5 DEF TimesOut, Answer, Results
<1>6. CASE Finish(r)
  BY <1>6 DEF Finish
<1>7. CASE TrackEcus(r)
  BY <1>7 DEF TrackEcus
<1>8. QED
  BY <1>1, <1>2, <1>3, <1>4, <1>5, <1>6, <1>7 DEF Handle

\* The invariant holds in every reachable state.
THEOREM ServiceInductive == ServiceSpec => []ServiceIInv
<1>1. ServiceInit => ServiceIInv
  BY DEF ServiceInit, ServiceIInv, QueuesTyped, QueueIsTrue, NoFailureIsAccepted, Ecus
<1>2. ASSUME ServiceIInv, [ServiceNext]_service_vars PROVE ServiceIInv'
  <2>1. CASE UNCHANGED service_vars
    BY <1>2, <2>1 DEF ServiceIInv, QueuesTyped, QueueIsTrue, NoFailureIsAccepted, service_vars
  <2>2. CASE \E r \in Requests : Handle(r)
    BY <1>2, <2>2, HandleKept
  <2>3. CASE CoreAnswers
    BY <1>2, <2>3, CoreAnswersKept
  <2>4. QED
    BY <1>2, <2>1, <2>2, <2>3 DEF ServiceNext, ServiceOver
<1>3. QED
  BY <1>1, <1>2, PTL DEF ServiceSpec

\* _dispatch_local_request: however many requests share the two queues, and
\* whichever response each takes, the local ECU's NO_FAILURE is ota_core's.
THEOREM NoFailureHolds == ServiceSpec => []NoFailureIsAccepted
<1>1. ServiceIInv => NoFailureIsAccepted
  BY DEF ServiceIInv
<1>2. QED
  BY <1>1, ServiceInductive, PTL
=============================================================================
