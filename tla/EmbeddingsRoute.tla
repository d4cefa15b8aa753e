--------------------------- MODULE EmbeddingsRoute ---------------------------
(***************************************************************************)
(* The embeddings endpoint with the batcher switched on: a request is       *)
(* admitted (Admission), hands every input to the batcher and answers when  *)
(* all of them have a result or one has failed.                             *)
(*                                                                         *)
(* The batcher (batch_manager.py): requests put their inputs on a queue, a   *)
(* worker gathers a batch until it is full or its timeout passes, makes one  *)
(* call for it and gives each future its part of the response.              *)
(***************************************************************************)
EXTENDS Admission, Sequences

-----------------------------------------------------------------------------
(* The batcher.                                                             *)

CONSTANTS
  Items,      \* single inputs, each with a future of its own
  ModelOf,    \* the model each of them asks for
  BatchSize,
  None

ASSUME BatcherConstants == BatchSize \in Nat \ {0} /\ None \notin Items

VARIABLES
  queue,   \* the asyncio.Queue
  batch,   \* what the worker has gathered
  worker,  \* "gathering" or "calling"
  future   \* per item: unasked, pending, failed or the result it was given

batcher == <<queue, batch, worker, future>>

Pending == [is |-> "pending", item |-> None, model |-> None]
Failed == [is |-> "failed", item |-> None, model |-> None]
Unasked == [is |-> "unasked", item |-> None, model |-> None]

BatcherInit ==
  /\ queue = <<>> /\ batch = <<>> /\ worker = "gathering"
  /\ future = [i \in Items |-> Unasked]

\* add_request for every input of a request; the tasks put them one after the
\* other.
AddRequests(items) ==
  /\ queue' = queue \o items
  /\ future' = [i \in Items |-> IF \E n \in DOMAIN items : items[n] = i THEN Pending
                                ELSE future[i]]
  /\ UNCHANGED <<batch, worker>>

Gather ==
  /\ worker = "gathering" /\ queue # <<>> /\ Len(batch) < BatchSize
  /\ batch' = Append(batch, Head(queue)) /\ queue' = Tail(queue)
  /\ UNCHANGED <<worker, future>>

\* The batch is full or its timeout has passed; an empty one is begun again.
GatherEnds ==
  /\ worker = "gathering" /\ batch # <<>>
  /\ worker' = "calling"
  /\ UNCHANGED <<queue, batch, future>>

\* Mutant: the first future of the batch is passed over.
PartShifted(n, i) ==
  IF i > n THEN Failed
  ELSE [is |-> "done", item |-> batch[IF i < Len(batch) THEN i + 1 ELSE i],
        model |-> ModelOf[batch[1]]]

\* What the i-th future of the batch gets from a response with n parts; the
\* model, as every parameter, is the one of the first request.
Part(n, i) ==
  IF i > n THEN Failed
  ELSE [is |-> "done", item |-> batch[i], model |-> ModelOf[batch[1]]]

\* Mutant: the worker is lost when the call raises.
AfterCallRaised(n) == IF n = 0 THEN "calling" ELSE "gathering"

\* The worker catches what the call raises and goes on.
AfterCall(n) == "gathering"

\* The call ends with n parts: with fewer than the inputs if it raises (none) or
\* the provider leaves some out, and the futures without a part get the error.
CallEnds(n) ==
  /\ worker = "calling" /\ n \in 0..Len(batch)
  /\ future' = [i \in Items |->
                  IF \E k \in DOMAIN batch : batch[k] = i
                    THEN Part(n, CHOOSE k \in DOMAIN batch : batch[k] = i)
                    ELSE future[i]]
  /\ worker' = AfterCall(n) /\ batch' = <<>>
  /\ UNCHANGED queue

BatcherNext == Gather \/ GatherEnds \/ \E n \in 0..BatchSize : CallEnds(n)

\* The worker's loop, its timeout and the timeout of the call go on.
BatcherFairness ==
  WF_batcher(Gather) /\ WF_batcher(GatherEnds)
    /\ WF_batcher(\E n \in 0..BatchSize : CallEnds(n))

-----------------------------------------------------------------------------
(* The endpoint.                                                            *)

CONSTANTS
  Requests,  \* numbers; those of a client arrive in their order
  ClientOf,
  InputsOf   \* the items of each request, in order; none for another endpoint

\* An item is one input of one request.
ASSUME RouteConstants ==
  /\ ClientOf \in [Requests -> Clients] /\ InputsOf \in [Requests -> Seq(Items)]
  /\ \A q, r \in Requests : \A m \in DOMAIN InputsOf[q], n \in DOMAIN InputsOf[r] :
       InputsOf[q][m] = InputsOf[r][n] => q = r /\ m = n

VARIABLE reply  \* per request: new, refused, waiting, ok or error

vars == <<now, stamps, granted, seen, paused, heavy, heavyAt,
          queue, batch, worker, future, reply>>

Init == AdmissionInit /\ BatcherInit /\ reply = [r \in Requests |-> "new"]

Request(r, answer, failing) ==
  /\ reply[r] = "new"
  /\ \A q \in Requests : q < r /\ ClientOf[q] = ClientOf[r] => reply[q] # "new"
  /\ Check(ClientOf[r], answer, failing)
  /\ IF answer = "granted"
       THEN AddRequests(InputsOf[r]) /\ reply' = [reply EXCEPT ![r] = "waiting"]
       ELSE reply' = [reply EXCEPT ![r] = "refused"] /\ UNCHANGED batcher

Of(r) == {InputsOf[r][n] : n \in DOMAIN InputsOf[r]}

\* asyncio.gather: the first error is the answer, the other inputs go on.
Reply(r) ==
  /\ reply[r] = "waiting"
  /\ \/ /\ \E i \in Of(r) : future[i] = Failed
        /\ reply' = [reply EXCEPT ![r] = "error"]
     \/ /\ \A i \in Of(r) : future[i].is = "done"
        /\ reply' = [reply EXCEPT ![r] = "ok"]
  /\ UNCHANGED <<admission, batcher>>

Next ==
  \/ \E r \in Requests, failing \in BOOLEAN,
        answer \in {"granted", "rate", "burst", "window"} : Request(r, answer, failing)
  \/ \E r \in Requests : Reply(r)
  \/ BatcherNext /\ UNCHANGED <<admission, reply>>
  \/ (Tick \/ \E c \in Clients : Uses(c) \/ Renewed(c)) /\ UNCHANGED <<batcher, reply>>

Spec == Init /\ [][Next]_vars

FairSpec == Spec /\ BatcherFairness /\ \A r \in Requests : WF_vars(Reply(r))

-----------------------------------------------------------------------------
(* Properties.                                                              *)

Futures == [is : {"unasked", "pending", "failed", "done"}, item : Items \cup {None},
            model : {ModelOf[i] : i \in Items} \cup {None}]

\* Types, and each pending future waits in one place: the queue or the batch.
BatcherTypeOK ==
  /\ queue \in Seq(Items) /\ batch \in Seq(Items) /\ Len(batch) <= BatchSize
  /\ worker \in {"gathering", "calling"} /\ future \in [Items -> Futures]
  /\ LET places == queue \o batch
     IN /\ \A i, j \in DOMAIN places : i # j => places[i] # places[j]
        /\ \A i \in Items : future[i] = Pending <=> \E n \in DOMAIN places : places[n] = i

\* A future that gets a result gets that of its own input, whatever batch it was
\* gathered into and however much of the response is missing.
OwnResult == \A i \in Items : future[i].is = "done" => future[i].item = i

\* Types, and an answered request has left nothing behind but after an error.
TypeOK ==
  /\ AdmissionTypeOK /\ BatcherTypeOK
  /\ reply \in [Requests -> {"new", "refused", "waiting", "ok", "error"}]
  /\ \A r \in Requests, i \in Items :
       i \in Of(r) /\ future[i].is # "unasked" => reply[r] \in {"waiting", "ok", "error"}

\* Requests are admitted within their limits, and answered with what belongs to
\* their own inputs.
RouteSound == AdmissionSound /\ TypeOK /\ OwnResult

\* A request that was admitted is answered, also when the call its inputs were
\* batched with fails or answers for only some of them.
Answered == \A r \in Requests : reply[r] = "waiting" ~> reply[r] \in {"ok", "error"}

=============================================================================
