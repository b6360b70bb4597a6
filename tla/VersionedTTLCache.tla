-------------------------- MODULE VersionedTTLCache -------------------------
(***************************************************************************)
(* The single-flight cache of the analytics queries (VersionedTTLCache of  *)
(* src/src/bff/postgres/base.py): requests of one event loop share the     *)
(* loader of their key and leave its result in a bounded table.  A request *)
(* may be cancelled while it waits (the request timeout of main.py); its   *)
(* loader is shielded and goes on.                                         *)
(***************************************************************************)
EXTENDS Naturals, Sequences, SequencesExt

CONSTANTS
    Keys,        \* cache keys, each of some dataset
    DatasetOf,   \* the dataset version a key starts with
    Requests,    \* requests, each made once
    Ttl,         \* how long an entry is good, in ticks
    MaxEntries,
    MaxTime,     \* bound on the ticks
    None

ASSUME SizesAssumption == Ttl \in Nat \ {0} /\ MaxEntries \in Nat \ {0} /\ MaxTime \in Nat
ASSUME NoneAssumption == None \notin Nat

VARIABLES
    now,
    entries,    \* the OrderedDict, least recently used first
    inflight,   \* the loader task of each key, or None
    tasks,      \* all loader tasks, in the order they were created
    request     \* what each request does, and what it was answered

vars == <<now, entries, inflight, tasks, request>>

Tasks == 1..Len(tasks)
Done(t) == tasks[t].state # "running"

(* The entries are what loaders of their own key came back with, never an  *)
(* error nor the result of a loader that still runs.                       *)
CTypeOK ==
    /\ now \in 0..MaxTime
    /\ Len(entries) <= MaxEntries
    /\ \A i \in DOMAIN entries :
          /\ entries[i].key \in Keys /\ entries[i].expires \in 0..MaxTime + Ttl
          /\ entries[i].task \in Tasks
          /\ tasks[entries[i].task].state = "ok" /\ tasks[entries[i].task].key = entries[i].key
          /\ \A h \in 1..i - 1 : entries[h].key # entries[i].key
    /\ \A k \in Keys : inflight[k] \in Tasks \cup {None}
    /\ \A t \in Tasks : tasks[t].state \in {"running", "ok", "error"}
                        /\ tasks[t].key \in Keys /\ tasks[t].at \in 0..MaxTime
    /\ \A r \in Requests :
          /\ request[r].state \in {"new", "waiting", "answered", "raised", "cancelled"}
          /\ request[r].task \in Tasks \cup {None}

Init ==
    /\ now = 0
    /\ entries = <<>>
    /\ inflight = [k \in Keys |-> None]
    /\ tasks = <<>>
    /\ request = [r \in Requests |-> [state |-> "new", task |-> None, age |-> 0]]

-----------------------------------------------------------------------------
(* The table                                                               *)

(* Of the first i entries of s those that have a key in K, in their order. *)
Filter(s, K) ==
    LET kept[i \in 0..Len(s)] ==
            IF i = 0 THEN <<>>
            ELSE IF s[i].key \in K THEN Append(kept[i - 1], s[i]) ELSE kept[i - 1]
    IN  kept

Kept(K) == Filter(entries, K)[Len(entries)]
Without(k) == Kept(Keys \ {k})
Entries(k) == {e \in ToSet(entries) : e.key = k}
(* Mutant: the expiry is looked at when the entry is stored only.          *)
AnyAge(k) == Entries(k)

Fresh(k) == {e \in Entries(k) : e.expires > now}

(* An entry goes to the end; the oldest one makes room.                    *)
Bounded(s) == IF Len(s) > MaxEntries THEN Tail(s) ELSE s

Stored(k, t) == Bounded(Append(Without(k), [key |-> k, expires |-> now + Ttl, task |-> t]))

-----------------------------------------------------------------------------
(* get_or_create, up to the wait and after it                              *)

Answer(r, t) ==
    request' = [request EXCEPT ![r] =
        IF tasks[t].state = "ok"
        THEN [state |-> "answered", task |-> t, age |-> now - tasks[t].at]
        ELSE [state |-> "raised", task |-> t, age |-> now - tasks[t].at]]

Hit(r, k) ==
    /\ request[r].state = "new"
    /\ \E e \in Fresh(k) :
          /\ entries' = Append(Without(k), e)
          /\ Answer(r, e.task)
    /\ UNCHANGED <<now, inflight, tasks>>

Miss(r, k) ==
    LET new == Len(tasks) + 1
    IN  /\ request[r].state = "new" /\ Fresh(k) = {}
        /\ entries' = Without(k)
        /\ \/ /\ inflight[k] # None
              /\ request' = [request EXCEPT ![r].state = "waiting", ![r].task = inflight[k]]
              /\ UNCHANGED <<inflight, tasks>>
           \/ /\ inflight[k] = None
              /\ tasks' = Append(tasks, [key |-> k, state |-> "running", at |-> now])
              /\ inflight' = [inflight EXCEPT ![k] = new]
              /\ request' = [request EXCEPT ![r].state = "waiting", ![r].task = new]
        /\ UNCHANGED now

LoaderEnds(t) ==
    /\ ~Done(t)
    /\ \E s \in {"ok", "error"} : tasks' = [tasks EXCEPT ![t].state = s, ![t].at = now]
    /\ UNCHANGED <<now, entries, inflight, request>>

(* Mutant: whoever leaves takes the task along.                            *)
RemovedAlways(t) ==
    LET k == tasks[t].key
    IN  IF inflight[k] = t THEN [inflight EXCEPT ![k] = None] ELSE inflight

(* Mutant: the task stays in flight.                                       *)
RemovedNever(t) == inflight

Removed(t) ==
    LET k == tasks[t].key
    IN  IF Done(t) /\ inflight[k] = t THEN [inflight EXCEPT ![k] = None] ELSE inflight

(* Every waiter of a successful loader stores its result.                  *)
Resume(r) ==
    LET t == request[r].task
    IN  /\ request[r].state = "waiting" /\ Done(t)
        /\ inflight' = Removed(t)
        /\ entries' = IF tasks[t].state = "ok" THEN Stored(tasks[t].key, t) ELSE entries
        /\ Answer(r, t)
        /\ UNCHANGED <<now, tasks>>

Cancel(r) ==
    /\ request[r].state = "waiting"
    /\ inflight' = Removed(request[r].task)
    /\ request' = [request EXCEPT ![r].state = "cancelled"]
    /\ UNCHANGED <<now, entries, tasks>>

-----------------------------------------------------------------------------
RetainDataset(d) ==
    /\ entries' = Kept({k \in Keys : DatasetOf[k] = d})
    /\ UNCHANGED <<now, inflight, tasks, request>>

(* A tick is long: what the event loop has to do is done before.           *)
Tick ==
    /\ now < MaxTime
    /\ \A r \in Requests : request[r].state = "waiting" => ~Done(request[r].task)
    /\ now' = now + 1
    /\ UNCHANGED <<entries, inflight, tasks, request>>

Next ==
    \/ \E r \in Requests, k \in Keys : Hit(r, k) \/ Miss(r, k)
    \/ \E t \in Tasks : LoaderEnds(t)
    \/ \E r \in Requests : Resume(r) \/ Cancel(r)
    \/ \E d \in {DatasetOf[k] : k \in Keys} : RetainDataset(d)
    \/ Tick

Spec == Init /\ [][Next]_vars

-----------------------------------------------------------------------------
(* Properties                                                              *)

(* Never two loaders of one key run at once, also when requests leave while*)
(* their loader runs and the entry expires or is evicted meanwhile         *)
(* (ADR-017: "one in-flight loader per key").                              *)
SingleFlight ==
    \A t, u \in Tasks : t # u /\ tasks[t].key = tasks[u].key => Done(t) \/ Done(u)

(* A request of this task was cancelled.                                   *)
Abandoned(t) == \E r \in Requests : request[r].state = "cancelled" /\ request[r].task = t

(* No request is answered with a value, or an error, that is older than an *)
(* entry may get (ADR-017: the cache is "TTL- and size-bounded"), except   *)
(* from a task that some request of it has abandoned: its result stays in  *)
(* flight, however long, for the next request of the key.                  *)
AnswersAreFresh ==
    \A r \in Requests : request[r].state \in {"answered", "raised"} =>
        request[r].age <= Ttl \/ Abandoned(request[r].task)

(* A loader that has ended stays in flight only until the requests that    *)
(* wait for it have taken its result, unless one of them was cancelled.    *)
NoResultIsLeftBehind ==
    \A k \in Keys : inflight[k] # None /\ Done(inflight[k]) =>
        \/ \E r \in Requests : request[r].state = "waiting" /\ request[r].task = inflight[k]
        \/ Abandoned(inflight[k])
=============================================================================
