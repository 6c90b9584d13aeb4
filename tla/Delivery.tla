------------------------------ MODULE Delivery ------------------------------
(***************************************************************************)
(* A run on its way from a CI job into the database.                       *)
(*                                                                         *)
(* A job posts its envelope and posts it again when no answer comes or the *)
(* answer is a server error; the handler of the first attempt may still be *)
(* running then, for it does not notice that nobody listens.  The server   *)
(* is killed or stopped meanwhile, opens the database when it is started   *)
(* again (Upgrade), refuses bodies by their shape (IngestShape) and keeps  *)
(* its request log in memory (RequestLog).  Who may post is Ingest's part: *)
(* the jobs here are authorized.                                           *)
(***************************************************************************)
EXTENDS Upgrade, RequestLog, IngestShape

CONSTANTS
    Jobs,       \* CI jobs, each with one envelope to deliver
    JobRow,     \* JobRow[j]: the row of the endpoint history its envelope touches
    Bodies,     \* documents, as sequences of lexemes
    Requests,   \* request goroutines
    MaxTries    \* bound: how often a job posts its envelope

ASSUME DeliveryAssumption ==
    /\ JobRow \in [Jobs -> Rows]
    /\ MaxTries \in Nat \ {0}
    /\ IsFiniteSet(Requests)

ASSUME BodiesAssumption == Bodies \subseteq Seq(Lexemes)

VARIABLES
    body,      \* body[j]: what checkIngestShape says of the envelope, and what its shape is
    job,       \* job[j]: where the CI job is, and how often it has posted
    req,       \* req[r]: the locals of a request goroutine
    stored,    \* stored[j]: how many rows of table runs hold the envelope of j
    unheard,   \* history: attempts of j whose answer, if there was one, was lost
    logs,      \* the request log
    latest,    \* history: the latest requests that were logged, newest first
    stopping   \* the server got SIGTERM and is draining

clients  == <<body, job, unheard>>
handlers == <<req, logs, latest, stopping>>
allVars  == <<vars, clients, handlers, stored>>

-----------------------------------------------------------------------------

Codes == {202, 400, 413, 500}

\* The log keeps the status of a request, of all that AccessEntry has.
ASSUME EntriesAssumption == Codes \subseteq Entries

Unread == "unread"
NoReq == [at |-> "free"]

\* What the scan says of each body and what it should say.
Outcomes == {[verdict |-> checkIngestShape(d), shape |-> Shape(d)] : d \in Bodies}

DeliveryInit ==
    /\ Init
    /\ body \in [Jobs -> Outcomes]
    /\ job = [j \in Jobs |-> [at |-> "ready", tries |-> 0]]
    /\ req = [r \in Requests |-> NoReq]
    /\ stored = [j \in Jobs |-> 0] /\ unheard = [j \in Jobs |-> 0]
    /\ logs = newRingLog /\ latest = <<>>
    /\ stopping = FALSE

-----------------------------------------------------------------------------
(* The CI job: it is not part of this repository.                          *)

Send(j, r) ==
    /\ job[j].at = "ready" /\ job[j].tries < MaxTries
    /\ Serving /\ ~stopping
    /\ req[r] = NoReq
    /\ job' = [job EXCEPT ![j] = [at |-> "waiting", tries |-> @.tries + 1]]
    /\ req' = [req EXCEPT ![r] = [at |-> "read", job |-> j, heard |-> TRUE]]
    /\ UNCHANGED <<vars, body, unheard, stored, logs, latest, stopping>>

\* It stops waiting, or its connection broke: a handler that runs on is not heard.
GiveUp(j) ==
    /\ job[j].at = "waiting"
    /\ job' = [job EXCEPT ![j].at = "ready"]
    /\ unheard' = [unheard EXCEPT ![j] = @ + 1]
    /\ req' = [r \in Requests |-> IF req[r] # NoReq /\ req[r].job = j
                                    THEN [req[r] EXCEPT !.heard = FALSE] ELSE req[r]]
    /\ UNCHANGED <<vars, body, stored, logs, latest, stopping>>

\* An answer: a server error is worth another attempt, a refusal is not.
Heard(j, code) ==
    job' = [job EXCEPT ![j].at = CASE code = 202 -> "done" [] code = 500 -> "ready"
                                   [] OTHER -> "refused"]

-----------------------------------------------------------------------------
(* handleIngest.                                                           *)

AnswerWith(r, code, shape) ==
    req' = [req EXCEPT ![r] = [at |-> "answered", job |-> @.job, heard |-> @.heard,
                               code |-> code, shape |-> shape]]

\* io.ReadAll behind MaxBytesReader: too many bytes, or the connection breaks.
ReadFails(r, code) ==
    /\ req[r].at = "read" /\ code \in {400, 413}
    /\ AnswerWith(r, code, Unread)
    /\ UNCHANGED <<vars, clients, stored, logs, latest, stopping>>

\* checkIngestShape, before anything is decoded.
ReadBody(r) ==
    LET b == body[req[r].job]
    IN  /\ req[r].at = "read"
        /\ CASE b.verdict = "tooLarge" -> AnswerWith(r, 413, b.shape)
             [] b.verdict = "malformed" -> AnswerWith(r, 400, b.shape)
             [] OTHER -> req' = [req EXCEPT ![r] = [at |-> "insert", job |-> @.job,
                                                     heard |-> @.heard, shape |-> b.shape]]
        /\ UNCHANGED <<vars, clients, stored, logs, latest, stopping>>

\* Not an envelope, another schema version, or a repository out of scope (Ingest).
Invalid(r) ==
    /\ req[r].at = "insert"
    /\ AnswerWith(r, 400, req[r].shape)
    /\ UNCHANGED <<vars, clients, stored, logs, latest, stopping>>

\* The transaction of InsertEnvelope commits.
Commit(r) ==
    LET j == req[r].job
    IN  /\ req[r].at = "insert"
        /\ Record(JobRow[j])
        /\ stored' = [stored EXCEPT ![j] = @ + 1]
        /\ AnswerWith(r, 202, req[r].shape)
        /\ UNCHANGED <<clients, logs, latest, stopping>>

Rollback_RunKept(r) ==       \* a slip: the run is inserted outside the transaction
    /\ req[r].at = "insert"
    /\ stored' = [stored EXCEPT ![req[r].job] = @ + 1]
    /\ AnswerWith(r, 500, req[r].shape)
    /\ UNCHANGED <<vars, clients, logs, latest, stopping>>

Rollback_Accepted(r) ==      \* a slip: the error is logged and the job is told 202
    /\ req[r].at = "insert"
    /\ AnswerWith(r, 202, req[r].shape)
    /\ UNCHANGED <<vars, clients, stored, logs, latest, stopping>>

\* A statement fails, on a table that is being rebuilt or for any other reason.
Rollback(r) ==
    /\ req[r].at = "insert"
    /\ AnswerWith(r, 500, req[r].shape)
    /\ UNCHANGED <<vars, clients, stored, logs, latest, stopping>>

-----------------------------------------------------------------------------
(* The middleware around it.                                               *)

Finish(r, code) ==
    /\ req' = [req EXCEPT ![r] = NoReq]
    /\ IF req[r].heard THEN Heard(req[r].job, code) ELSE job' = job

\* accessLog records the request when its handler has returned; then the answer
\* is sent.
accessLog(r) ==
    /\ req[r].at = "answered"
    /\ logs' = add(logs, req[r].code)
    /\ latest' = SubSeq(<<req[r].code>> \o latest, 1,
                        IF Len(latest) < Capacity THEN Len(latest) + 1 ELSE Capacity)
    /\ Finish(r, req[r].code)
    /\ UNCHANGED <<vars, body, unheard, stored, stopping>>

\* The handler panics before it commits: recoverPanic, outside accessLog, answers.
recoverPanic(r) ==
    /\ req[r].at \in {"read", "insert"}
    /\ Finish(r, 500)
    /\ UNCHANGED <<vars, body, unheard, stored, logs, latest, stopping>>

-----------------------------------------------------------------------------
(* The server process.                                                     *)

\* Its memory is gone.
Forget ==
    /\ req' = [r \in Requests |-> NoReq]
    /\ logs' = newRingLog /\ latest' = <<>>
    /\ stopping' = FALSE

\* SIGTERM: the listener is closed and the requests under way may finish.
Shutdown ==
    /\ Serving /\ ~stopping
    /\ stopping' = TRUE
    /\ UNCHANGED <<vars, clients, stored, req, logs, latest>>

\* All have finished, or five seconds are over.
Drained ==
    /\ Serving /\ stopping
    /\ CloseStore(Server) /\ Forget
    /\ UNCHANGED <<clients, stored>>

Killed ==
    /\ Crash(Server) /\ Forget
    /\ UNCHANGED <<clients, stored>>

\* A process opens the store, or a backup is taken or killed.
Others ==
    /\ \/ \E p \in Processes : Start(p) \/ migrate(p)
       \/ \E p \in Backups : CloseStore(p) \/ Crash(p)
    /\ UNCHANGED <<clients, handlers, stored>>

-----------------------------------------------------------------------------

request(r) ==
    \/ \E code \in Codes : ReadFails(r, code)
    \/ ReadBody(r) \/ Invalid(r) \/ Commit(r) \/ Rollback(r)
    \/ accessLog(r) \/ recoverPanic(r)

DeliveryNext ==
    \/ \E j \in Jobs : GiveUp(j) \/ \E r \in Requests : Send(j, r)
    \/ \E r \in Requests : request(r)
    \/ Shutdown \/ Drained \/ Killed
    \/ Others

\* Upgrade's fairness, and main returns when the server has drained.
DeliveryFairness ==
    /\ WF_allVars(Start(Server) /\ UNCHANGED <<clients, handlers, stored>>)
    /\ \A p \in Processes :
          WF_allVars(migrate(p) /\ UNCHANGED <<clients, handlers, stored>>)

DeliverySpec == DeliveryInit /\ [][DeliveryNext]_allVars /\ DeliveryFairness

-----------------------------------------------------------------------------
(* Properties.                                                             *)

\* A job that was told 202 has its run in the database, whatever became of the
\* server since: the answer is sent after the commit (server.go:278-288).
AckMeansStored == \A j \in Jobs : job[j].at = "done" => stored[j] > 0

\* An envelope is stored once for the answer the job has heard or is waiting for,
\* and once more at most for every attempt it gave up on: a post that was refused
\* or failed leaves no run behind (store.go:273), and nothing else makes a second one.
DuplicatesExplained ==
    \A j \in Jobs :
        stored[j] <= unheard[j] + IF job[j].at \in {"waiting", "done"} THEN 1 ELSE 0

\* checkIngestShape refuses just the bodies that nest too deep or have too many
\* elements before their first value ends, at the limits too, and lets through
\* just the complete ones (ingest_limits.go:43).
ShapeExact ==
    \A r \in Requests :
        /\ req[r].at = "insert" => req[r].shape = "ok"
        /\ req[r].at = "answered" =>
              /\ req[r].shape = "tooLarge" => req[r].code = 413
              /\ req[r].shape = "malformed" => req[r].code = 400
              /\ req[r].code = 413 => req[r].shape \in {Unread, "tooLarge"}

\* The log page shows the latest requests, newest first, as many as it asks for and
\* the buffer has room for, before it wraps and after (logbuf.go:41).
LogIsRecent ==
    \A limit \in 0..(Capacity + 1) :
        recent(logs, limit) =
            IF limit \in 1..Len(latest) THEN SubSeq(latest, 1, limit) ELSE latest

-----------------------------------------------------------------------------
(* What the jobs are promised.                                             *)

\* Attempts of j whose handler has not come to its answer.
Underway(j) == {r \in Requests : req[r].at \in {"read", "insert"} /\ req[r].job = j}
attempts == [j \in Jobs |-> Cardinality(Underway(j))]
Assured  == {j \in Jobs : job[j].at = "done"}

Promise == INSTANCE AtLeastOnce WITH
    copies <- stored, pending <- attempts, told <- Assured

\* Whatever becomes of the job and of the server meanwhile, an attempt stores the
\* envelope once at most, a job is told so after a commit only, and a job that was told
\* does not post again (handleIngest, server.go:230).
AtLeastOnceDelivery == Promise!Spec
=============================================================================
