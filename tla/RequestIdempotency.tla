-------------------------- MODULE RequestIdempotency --------------------------
(***************************************************************************)
(* The way of a mutating request through the API: reserve_idempotency      *)
(* (bff/security.py) takes the record of its key, the handler runs, and    *)
(* the middleware log_requests (bff/main.py) completes or releases the     *)
(* record by the status of the response.  The records are those of         *)
(* PostgresIdempotencyStore, shared by all API processes.                  *)
(*                                                                         *)
(* A request is two parties: the middleware, which waits for a response for*)
(* so long and no longer, and the application's task (the dependencies and *)
(* the handler), which BaseHTTPMiddleware runs beside it and which goes on *)
(* when the middleware has given up.                                       *)
(*                                                                         *)
(* A key stands for the triple (actor, action, Idempotency-Key).  What a   *)
(* handler does is left open here: Handle allows any effect and any answer.*)
(* The hash of the body only chooses between two texts of one refusal.     *)
(***************************************************************************)
EXTENDS FiniteSets

CONSTANTS
    Requests,   \* the requests that ever arrive, retries included
    Keys,       \* record keys
    None

ASSUME KeysAssumption == None \notin Keys

VARIABLES
    records,    \* idempotency_records: the status of the row of each key
    request,    \* where the two parties of a request stand, its key, and the
                \* response that is on its way to the middleware
    acted,      \* history: which requests took effect in the life of a record
    spoilt      \* history: keys released after their request took effect

rvars == <<records, request, acted, spoilt>>

Points == {"idle", "waiting", "late", "done"}             \* of the middleware
Tasks == {"none", "reserving", "handling", "ended"}       \* of the application
Answers == {"ok", "rejected", "failed"}                   \* below 400, 4xx, 5xx
RecordStatuses == {"absent", "reserved", "completed", "expired"}

ASSUME AnswersAssumption == None \notin Answers

(* What the records and the requests look like.                            *)
RTypeOK ==
    /\ records \in [Keys -> RecordStatuses]
    /\ request \in [Requests -> [pc: Points, task: Tasks, key: Keys \cup {None},
                                 answer: Answers \cup {None}]]
    /\ acted \in [Keys -> SUBSET Requests]
    /\ spoilt \in SUBSET Keys
    /\ \A r \in Requests :
          /\ request[r].task # "none" => request[r].key \in Keys
          /\ request[r].pc = "idle" <=> request[r].task = "none"

RInit ==
    /\ records = [k \in Keys |-> "absent"]
    /\ request = [r \in Requests |->
                    [pc |-> "idle", task |-> "none", key |-> None, answer |-> None]]
    /\ acted = [k \in Keys |-> {}]
    /\ spoilt = {}

Attended(r) == request[r].pc \in {"waiting", "late"}
Underway(r) == Attended(r) \/ request[r].task \in {"reserving", "handling"}

(* The key is the request's: its handler is at work, or the middleware has *)
(* request.state.idempotency_record_key and has still to use it.           *)
Holds(r) ==
    request[r].task = "handling" \/ (request[r].task = "ended" /\ Attended(r))

(* The middleware has a response: the handler's, or its own 504.           *)
Responds(r) ==
    request[r].pc = "late" \/ (request[r].pc = "waiting" /\ request[r].task = "ended")

(* The task ends with a response, which nobody takes once the middleware   *)
(* has given up.                                                           *)
Ended(r, answer) ==
    request' = [request EXCEPT ![r] = [@ EXCEPT !.task = "ended",
                    !.answer = IF request[r].pc = "waiting" THEN answer ELSE None]]

(* The task ends and the middleware, if it waits, has no record to touch.  *)
Passed(r) ==
    request' = [request EXCEPT ![r] = [@ EXCEPT !.task = "ended",
                    !.pc = IF request[r].pc = "waiting" THEN "done" ELSE request[r].pc]]

Arrive(r, k) ==
    /\ request[r].pc = "idle"
    /\ request' = [request EXCEPT ![r] = [pc |-> "waiting", task |-> "reserving",
                                         key |-> k, answer |-> None]]
    /\ UNCHANGED <<records, acted, spoilt>>

-----------------------------------------------------------------------------
(* reserve: DELETE the expired row, INSERT .. ON CONFLICT DO NOTHING.      *)

Free(k) == records[k] \in {"absent", "expired"}

Reserve(r) ==
    LET k == request[r].key
    IN  /\ request[r].task = "reserving" /\ Free(k)
        /\ records' = [records EXCEPT ![k] = "reserved"]
        /\ request' = [request EXCEPT ![r].task = "handling"]
        /\ UNCHANGED <<acted, spoilt>>

(* 409, before record_key is set: the middleware touches no record.        *)
Conflict(r) ==
    /\ request[r].task = "reserving" /\ ~Free(request[r].key)
    /\ Passed(r)
    /\ UNCHANGED <<records, acted, spoilt>>

(* The database fails inside reserve (503), whose transaction may have     *)
(* committed; record_key is not set either way.                            *)
ReserveLost(r) ==
    LET k == request[r].key
    IN  /\ request[r].task = "reserving"
        /\ records' \in {records, [records EXCEPT ![k] = IF Free(k) THEN "reserved" ELSE @]}
        /\ Passed(r)
        /\ UNCHANGED <<acted, spoilt>>

-----------------------------------------------------------------------------
(* One step of the handler: it may take effect and it may end.             *)
Handle(r) ==
    LET k == request[r].key
    IN  /\ request[r].task = "handling"
        /\ acted' \in {acted, [acted EXCEPT ![k] = @ \cup {r}]}
        /\ request' = request \/ \E a \in Answers : Ended(r, a)
        /\ UNCHANGED <<records, spoilt>>

(* An exception without an answer of its own passes the middleware.        *)
Escape(r) ==
    /\ request[r].task = "handling"
    /\ Passed(r)
    /\ UNCHANGED <<records, acted, spoilt>>

(* wait_for gives up on the response: 504.  The record is the middleware's *)
(* to complete if the key is set by now; the task goes on in any case.     *)
TimeOut(r) ==
    /\ request[r].pc = "waiting"
    /\ request' = [request EXCEPT ![r] = [@ EXCEPT !.answer = None,
                      !.pc = IF request[r].task = "reserving" THEN "done" ELSE "late"]]
    /\ UNCHANGED <<records, acted, spoilt>>

-----------------------------------------------------------------------------
(* The middleware after the response.                                      *)

Complete(k) == records' = [records EXCEPT ![k] = IF @ = "reserved" THEN "completed" ELSE @]
Release(k) == records' = [records EXCEPT ![k] = IF @ = "reserved" THEN "absent" ELSE @]

Leaves(r) ==
    /\ Responds(r)
    /\ request' = [request EXCEPT ![r] = [@ EXCEPT !.pc = "done", !.answer = None]]
    /\ UNCHANGED acted

(* A refusal after an effect gives the key of the effect back.             *)
Spoils(r) == request[r].answer = "rejected" /\ r \in acted[request[r].key]

(* Mutant: a failed request gives its key back as well.                    *)
LeaveReleasingFailures(r) ==
    LET k == request[r].key
    IN  /\ Leaves(r)
        /\ IF request[r].answer = "ok" THEN Complete(k) ELSE Release(k)
        /\ spoilt' = IF Spoils(r) THEN spoilt \cup {k} ELSE spoilt

Leave(r) ==
    LET k == request[r].key
    IN  /\ Leaves(r)
        /\ IF request[r].answer = "rejected" THEN Release(k) ELSE Complete(k)
        /\ spoilt' = IF Spoils(r) THEN spoilt \cup {k} ELSE spoilt

(* complete or release fails in the database: the client sees a 500.       *)
LeaveFails(r) == Leaves(r) /\ UNCHANGED <<records, spoilt>>

(* An API process ends with the requests it has.                           *)
Drop(S) ==
    /\ S # {} /\ \A r \in S : Underway(r)
    /\ request' = [r \in Requests |->
          IF r \in S THEN [pc |-> "done", task |-> "ended", key |-> request[r].key, answer |-> None]
          ELSE request[r]]
    /\ UNCHANGED <<records, acted, spoilt>>

(* Mutant: a time to live shorter than a request.                          *)
ExpireEarly(k) ==
    /\ records[k] \in {"reserved", "completed"}
    /\ records' = [records EXCEPT ![k] = "expired"]
    /\ acted' = [acted EXCEPT ![k] = {}]
    /\ spoilt' = spoilt \ {k}
    /\ UNCHANGED request

(* expires_at passes.  A day is longer than any request, and than what its *)
(* handler goes on to do after a 504.                                      *)
Expire(k) ==
    /\ records[k] \in {"reserved", "completed"}
    /\ \A r \in Requests : Holds(r) => request[r].key # k
    /\ records' = [records EXCEPT ![k] = "expired"]
    /\ acted' = [acted EXCEPT ![k] = {}]
    /\ spoilt' = spoilt \ {k}
    /\ UNCHANGED request

RNext ==
    \/ \E r \in Requests :
          \/ \E k \in Keys : Arrive(r, k)
          \/ Reserve(r) \/ Conflict(r) \/ ReserveLost(r)
          \/ Handle(r) \/ Escape(r) \/ TimeOut(r)
          \/ Leave(r) \/ LeaveFails(r)
    \/ \E S \in SUBSET Requests : Drop(S)
    \/ \E k \in Keys : Expire(k)

RSpec == RInit /\ [][RNext]_rvars

-----------------------------------------------------------------------------
(* Properties                                                              *)

(* Of all requests with one key, at most one is past its reservation, and  *)
(* its record stays reserved until the middleware has used it and taken    *)
(* until the handler has ended, a handler that goes on after its 504       *)
(* included, whatever another request's release, a lost commit or the clock*)
(* does in between.                                                        *)
HolderIsAlone ==
    /\ \A r \in Requests : Holds(r) =>
          /\ ~Free(request[r].key)
          /\ Attended(r) => records[request[r].key] = "reserved"
    /\ \A q, r \in Requests :
          Holds(q) /\ Holds(r) /\ request[q].key = request[r].key => q = r

(* ADR-012, "at-most-once mutation keys": in the life of a record only one *)
(* request takes effect, after timeouts, crashes and lost answers, and when*)
(* a handler takes effect after its request was answered with a 504.  The  *)
(* exception is a request that took effect and was answered with a 4xx     *)
(* (a later call to the identity provider was refused): its key is free.   *)
EffectOnce ==
    \A k \in Keys \ spoilt : \A q, r \in acted[k] : q = r
=============================================================================
