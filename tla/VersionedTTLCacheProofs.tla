----------------------- MODULE VersionedTTLCacheProofs ------------------------
(***************************************************************************)
(* Theorems about VersionedTTLCache for any keys, requests and sizes: the  *)
(* loaders of a key run one at a time, no result stays in flight that      *)
(* nobody waits for or has abandoned, and no answer from the table is      *)
(* older than an entry may get.                                            *)
(***************************************************************************)
EXTENDS VersionedTTLCache, WellFoundedInduction, TLAPS

USE NoneAssumption

Loader == [key: Keys, state: {"running", "ok", "error"}, at: Nat]

Shaped(x) == x = [state |-> x.state, task |-> x.task, age |-> x.age]

TypesFit ==
    /\ now \in Nat
    /\ tasks \in Seq(Loader)
    /\ inflight \in [Keys -> Nat \cup {None}]
    /\ request = [r \in Requests |-> request[r]]
    /\ \A r \in Requests : Shaped(request[r])

(* The two directions of inflight: it names a loader of its own key, and no*)
(* loader runs that it does not name.                                      *)
InflightFits ==
    /\ \A k \in Keys : inflight[k] # None => inflight[k] \in Tasks /\ tasks[inflight[k]].key = k
    /\ \A t \in Tasks : ~Done(t) => inflight[tasks[t].key] = t

Joined(r, t) == request[r].state \in {"waiting", "cancelled"} /\ request[r].task = t

(* Whoever comes back from a loader takes it out of flight, so that what is*)
(* in flight has a request that has not come back.                         *)
JoinedFits ==
    /\ \A r \in Requests : request[r].state = "waiting" => request[r].task \in Tasks
    /\ \A k \in Keys : inflight[k] # None => \E r \in Requests : Joined(r, inflight[k])

CInv == TypesFit /\ InflightFits /\ JoinedFits

LEMMA InitCInv == Init => CInv
<1> SUFFICES ASSUME Init PROVE CInv
    OBVIOUS
<1>1. \A r \in Requests : request[r] = [state |-> "new", task |-> None, age |-> 0]
    BY DEF Init
<1>2. TypesFit
    BY <1>1 DEF Init, TypesFit, Shaped
<1>3. InflightFits /\ JoinedFits
    BY <1>1 DEF Init, InflightFits, JoinedFits, Tasks
<1> QED
    BY <1>2, <1>3 DEF CInv

(* A new loader leaves the others where they are.                          *)
LEMMA AppendFacts ==
    ASSUME NEW s \in Seq(Loader), NEW e \in Loader
    PROVE  /\ Append(s, e) \in Seq(Loader) /\ Len(s) \in Nat
           /\ Len(Append(s, e)) = Len(s) + 1
           /\ Append(s, e)[Len(s) + 1] = e
           /\ \A t \in 1..Len(s) : Append(s, e)[t] = s[t] /\ t \in 1..Len(s) + 1
           /\ 1..Len(s) + 1 = 1..Len(s) \cup {Len(s) + 1}
OBVIOUS

(* A request changes and the others stay.                                  *)
Puts(r, x) ==
    /\ request' = [q \in Requests |-> request'[q]] /\ request'[r] = x
    /\ \A q \in Requests \ {r} : request'[q] = request[q]
    /\ Shaped(x) /\ \A q \in Requests : Shaped(request'[q])

LEMMA PutFacts ==
    ASSUME TypesFit, NEW r \in Requests, NEW a, NEW b, NEW c,
           request' = [request EXCEPT ![r] = [state |-> a, task |-> b, age |-> c]]
    PROVE  Puts(r, [state |-> a, task |-> b, age |-> c])
<1> DEFINE x == [state |-> a, task |-> b, age |-> c]
<1>1. Shaped(x)
    BY DEF Shaped
<1> HIDE DEF x
<1>2. request' = [q \in Requests |-> IF q = r THEN x ELSE request[q]]
    BY DEF TypesFit, x
<1>3. request'[r] = x /\ \A q \in Requests \ {r} : request'[q] = request[q]
    BY <1>2
<1>4. \A q \in Requests : Shaped(request'[q])
    BY <1>1, <1>3 DEF TypesFit
<1>5. request' = [q \in Requests |-> request'[q]]
    BY <1>2
<1> QED
    BY <1>1, <1>3, <1>4, <1>5 DEF Puts, x

LEMMA FieldFacts ==
    ASSUME NEW x, Shaped(x), NEW a, NEW b
    PROVE  /\ [x EXCEPT !.state = a] = [state |-> a, task |-> x.task, age |-> x.age]
           /\ [[x EXCEPT !.state = a] EXCEPT !.task = b] = [state |-> a, task |-> b, age |-> x.age]
<1>1. \A u, v, w : [[state |-> u, task |-> v, age |-> w] EXCEPT !.state = a]
                       = [state |-> a, task |-> v, age |-> w]
    OBVIOUS
<1>2. \A u, v, w : [[state |-> u, task |-> v, age |-> w] EXCEPT !.task = b]
                       = [state |-> u, task |-> b, age |-> w]
    OBVIOUS
<1>3. PICK u, v, w : /\ u = x.state /\ v = x.task /\ w = x.age
                     /\ x = [state |-> u, task |-> v, age |-> w]
    BY DEF Shaped
<1>4. [x EXCEPT !.state = a] = [state |-> a, task |-> x.task, age |-> x.age]
    BY <1>1, <1>3
<1>5. [[state |-> a, task |-> x.task, age |-> x.age] EXCEPT !.task = b]
        = [state |-> a, task |-> b, age |-> x.age]
    BY <1>2
<1> QED
    BY <1>4, <1>5, Zenon

LEMMA WaitFacts ==
    ASSUME TypesFit, NEW r \in Requests, NEW t,
           request' = [request EXCEPT ![r].state = "waiting", ![r].task = t]
    PROVE  Puts(r, [state |-> "waiting", task |-> t, age |-> request[r].age])
<1>1. Shaped(request[r]) /\ r \in DOMAIN request
    BY DEF TypesFit
<1>2. request' = [request EXCEPT ![r] = [[request[r] EXCEPT !.state = "waiting"] EXCEPT !.task = t]]
    BY <1>1 DEF TypesFit
<1>3. [[request[r] EXCEPT !.state = "waiting"] EXCEPT !.task = t]
        = [state |-> "waiting", task |-> t, age |-> request[r].age]
    BY <1>1, FieldFacts
<1>4. request' = [request EXCEPT ![r] = [state |-> "waiting", task |-> t, age |-> request[r].age]]
    BY <1>2, <1>3
<1> QED
    BY <1>4, PutFacts

LEMMA AnswerFacts ==
    ASSUME TypesFit, NEW r \in Requests, NEW t, Answer(r, t)
    PROVE  /\ request'[r].state \in {"answered", "raised"} /\ Puts(r, request'[r])
           /\ request'[r].task = t /\ request'[r].age = now - tasks[t].at
<1>1. PICK old : old = now - tasks[t].at
    OBVIOUS
<1>2. PICK end \in {"answered", "raised"} :
          request' = [request EXCEPT ![r] = [state |-> end, task |-> t, age |-> old]]
    BY <1>1 DEF Answer
<1>3. Puts(r, [state |-> end, task |-> t, age |-> old])
    BY <1>2, PutFacts
<1> QED
    BY <1>1, <1>2, <1>3 DEF Puts

LEMMA TaskFacts ==
    ASSUME TypesFit, NEW t \in Tasks
    PROVE  tasks[t] \in Loader /\ tasks[t].key \in Keys /\ t \in Nat /\ t # None
<1>1. tasks[t] \in Loader /\ t \in Nat
    BY DEF TypesFit, Tasks
<1> QED
    BY <1>1 DEF Loader

(* A request that answers from the table, or waits no more for a loader    *)
(* that is not in flight.                                                  *)
LEMMA HitKeeps == ASSUME CInv, NEW r \in Requests, NEW k \in Keys, Hit(r, k) PROVE CInv'
<1>1. PICK e \in Fresh(k) : Answer(r, e.task)
    BY DEF Hit
<1>2. request[r].state = "new" /\ UNCHANGED <<now, inflight, tasks>>
    BY DEF Hit
<1>3. request'[r].state \in {"answered", "raised"} /\ Puts(r, request'[r])
    BY <1>1, AnswerFacts DEF CInv
<1>4. TypesFit'
    BY <1>2, <1>3 DEF CInv, TypesFit, Puts
<1>5. InflightFits'
    BY <1>2 DEF CInv, InflightFits, Tasks, Done
<1>6. JoinedFits'
    BY <1>2, <1>3 DEF CInv, JoinedFits, Joined, Tasks, Puts
<1> QED
    BY <1>4, <1>5, <1>6 DEF CInv

LEMMA MissKeeps == ASSUME CInv, NEW r \in Requests, NEW k \in Keys, Miss(r, k) PROVE CInv'
<1> DEFINE new == Len(tasks) + 1
           loader == [key |-> k, state |-> "running", at |-> now]
<1>1. request[r].state = "new" /\ UNCHANGED now
    BY DEF Miss
<1>2. CASE /\ inflight[k] # None /\ UNCHANGED <<inflight, tasks>>
           /\ request' = [request EXCEPT ![r].state = "waiting", ![r].task = inflight[k]]
  <2>1. Puts(r, [state |-> "waiting", task |-> inflight[k], age |-> request[r].age])
      BY <1>2, WaitFacts DEF CInv
  <2>2. TypesFit' /\ InflightFits'
      BY <1>1, <1>2, <2>1 DEF CInv, TypesFit, InflightFits, Tasks, Done, Puts
  <2>3. JoinedFits'
    <3>1. request'[r].state = "waiting" /\ request'[r].task = inflight[k] /\ inflight[k] \in Tasks
        BY <1>2, <2>1 DEF Puts, CInv, InflightFits
    <3>2. \A q \in Requests, t \in Tasks : Joined(q, t) => Joined(q, t)'
        BY <1>1, <2>1 DEF Puts, Joined
    <3> QED
        BY <1>2, <2>1, <3>1, <3>2 DEF CInv, InflightFits, JoinedFits, Tasks, Puts
  <2> QED
      BY <2>2, <2>3 DEF CInv
<1>3. CASE /\ inflight[k] = None /\ tasks' = Append(tasks, loader)
           /\ inflight' = [inflight EXCEPT ![k] = new]
           /\ request' = [request EXCEPT ![r].state = "waiting", ![r].task = new]
  <2>1. Puts(r, [state |-> "waiting", task |-> new, age |-> request[r].age])
      BY <1>3, WaitFacts DEF CInv
  <2>2. loader \in Loader /\ tasks \in Seq(Loader)
      BY DEF CInv, TypesFit, Loader
  <2>3. /\ tasks' \in Seq(Loader) /\ new \in Nat /\ Tasks' = Tasks \cup {new}
        /\ tasks'[new] = loader /\ new \notin Tasks
        /\ \A t \in Tasks : tasks'[t] = tasks[t]
      BY <1>3, <2>2, AppendFacts DEF Tasks
  <2>4. inflight' \in [Keys -> Nat \cup {None}] /\ inflight'[k] = new
        /\ \A l \in Keys \ {k} : inflight'[l] = inflight[l]
      BY <1>3, <2>3 DEF CInv, TypesFit
  <2> HIDE DEF new, loader
  <2>5. TypesFit'
      BY <1>1, <2>1, <2>3, <2>4 DEF CInv, TypesFit, Puts
  <2>6. InflightFits'
    <3>1. \A l \in Keys : inflight'[l] # None =>
                             inflight'[l] \in Tasks' /\ tasks'[inflight'[l]].key = l
        BY <2>3, <2>4 DEF CInv, InflightFits, loader
    <3>2. ASSUME NEW t \in Tasks', ~Done(t)' PROVE inflight'[tasks'[t].key] = t
      <4>1. CASE t = new
          BY <2>3, <2>4, <4>1 DEF loader
      <4>2. CASE t \in Tasks
        <5>1. ~Done(t) /\ tasks[t].key \in Keys
            BY <2>3, <3>2, <4>2, TaskFacts DEF Done, CInv
        <5>2. inflight[tasks[t].key] = t /\ t # None
            BY <4>2, <5>1, TaskFacts DEF CInv, InflightFits
        <5> QED
            BY <1>3, <2>3, <2>4, <4>2, <5>1, <5>2
      <4> QED
          BY <2>3, <4>1, <4>2
    <3> QED
        BY <3>1, <3>2 DEF InflightFits
  <2>7. JoinedFits'
      BY <1>1, <2>1, <2>3, <2>4 DEF CInv, JoinedFits, Joined, Puts
  <2> QED
      BY <2>5, <2>6, <2>7 DEF CInv
<1> QED
    BY <1>2, <1>3 DEF Miss

LEMMA LoaderEndsKeeps == ASSUME CInv, NEW t \in Tasks, LoaderEnds(t) PROVE CInv'
<1>1. PICK s \in {"ok", "error"} : tasks' = [tasks EXCEPT ![t].state = s, ![t].at = now]
    BY DEF LoaderEnds
<1>2. tasks \in Seq(Loader) /\ now \in Nat
    BY DEF CInv, TypesFit
<1>3. tasks[t] \in Loader
    BY <1>2 DEF Tasks
<1> DEFINE e == [tasks[t] EXCEPT !.state = s, !.at = now]
<1>4. e \in Loader /\ e.key = tasks[t].key /\ e.state # "running"
    BY <1>2, <1>3 DEF Loader
<1>5. /\ tasks' \in Seq(Loader) /\ Tasks' = Tasks
      /\ \A u \in Tasks : tasks'[u].key = tasks[u].key
      /\ \A u \in Tasks : Done(u) => Done(u)'
  <2>1. tasks' = [tasks EXCEPT ![t] = e]
      BY <1>1
  <2> HIDE DEF e
  <2>2. tasks' \in Seq(Loader) /\ Len(tasks') = Len(tasks)
      BY <1>2, <1>4, <2>1 DEF Tasks
  <2>3. \A u \in Tasks : tasks'[u] = IF u = t THEN e ELSE tasks[u]
      BY <1>2, <2>1 DEF Tasks
  <2> QED
      BY <1>4, <2>2, <2>3 DEF Tasks, Done
<1>6. UNCHANGED <<now, inflight, request>>
    BY DEF LoaderEnds
<1>7. TypesFit' /\ InflightFits'
    BY <1>5, <1>6 DEF CInv, TypesFit, InflightFits
<1>8. JoinedFits'
    BY <1>5, <1>6 DEF CInv, JoinedFits, Joined
<1> QED
    BY <1>7, <1>8 DEF CInv

(* A request comes back from its loader, or is cancelled; only a loader    *)
(* that has ended is taken out of flight.                                  *)
LEMMA LeaveKeeps ==
    ASSUME CInv, NEW r \in Requests, request[r].state = "waiting", UNCHANGED <<now, tasks>>,
           inflight' = Removed(request[r].task),
           Puts(r, request'[r]),
           \/ Done(request[r].task) /\ request'[r].state \in {"answered", "raised"}
           \/ request'[r].state = "cancelled" /\ request'[r].task = request[r].task
    PROVE  CInv'
<1> DEFINE t == request[r].task
           k == tasks[t].key
<1>1. t \in Tasks /\ k \in Keys /\ t # None
    BY TaskFacts DEF CInv, JoinedFits
<1>2. /\ inflight' \in [Keys -> Nat \cup {None}]
      /\ \A l \in Keys : inflight'[l] \in {inflight[l], None}
      /\ \A l \in Keys : inflight'[l] # inflight[l] => Done(t) /\ inflight[l] = t
      /\ Done(t) => \A l \in Keys : inflight'[l] # t
    BY <1>1 DEF Removed, CInv, TypesFit, InflightFits
<1> HIDE DEF t, k
<1>3. TypesFit'
    BY <1>2 DEF CInv, TypesFit, Puts
<1>4. InflightFits'
  <2>1. \A u \in Tasks : tasks[u].key \in Keys
      BY TaskFacts DEF CInv
  <2> QED
      BY <1>2, <2>1 DEF CInv, InflightFits, Tasks, Done
<1>5. JoinedFits'
    BY <1>2 DEF CInv, JoinedFits, Joined, Tasks, Puts, t
<1> QED
    BY <1>3, <1>4, <1>5 DEF CInv

LEMMA ResumeKeeps == ASSUME CInv, NEW r \in Requests, Resume(r) PROVE CInv'
<1>1. request'[r].state \in {"answered", "raised"} /\ Puts(r, request'[r])
    BY AnswerFacts DEF Resume, CInv
<1> QED
    BY <1>1, LeaveKeeps DEF Resume

LEMMA CancelFacts ==
    ASSUME TypesFit, NEW r \in Requests, request' = [request EXCEPT ![r].state = "cancelled"]
    PROVE  /\ Puts(r, request'[r])
           /\ request'[r].state = "cancelled" /\ request'[r].task = request[r].task
<1>1. Shaped(request[r]) /\ r \in DOMAIN request
    BY DEF TypesFit
<1>2. request' = [request EXCEPT ![r] = [request[r] EXCEPT !.state = "cancelled"]]
    BY <1>1
<1>3. request' = [request EXCEPT ![r] =
                      [state |-> "cancelled", task |-> request[r].task, age |-> request[r].age]]
    BY <1>1, <1>2, FieldFacts
<1>4. Puts(r, [state |-> "cancelled", task |-> request[r].task, age |-> request[r].age])
    BY <1>3, PutFacts
<1> QED
    BY <1>4 DEF Puts

LEMMA CancelKeeps == ASSUME CInv, NEW r \in Requests, Cancel(r) PROVE CInv'
BY CancelFacts, LeaveKeeps DEF Cancel, CInv

LEMMA NextCInv == CInv /\ [Next]_vars => CInv'
<1> SUFFICES ASSUME CInv, [Next]_vars PROVE CInv'
    OBVIOUS
<1>1. CASE Tick
    BY <1>1 DEF Tick, CInv, TypesFit, InflightFits, JoinedFits, Joined, Tasks, Done
<1>2. CASE \E d \in {DatasetOf[k] : k \in Keys} : RetainDataset(d)
    BY <1>2 DEF RetainDataset, CInv, TypesFit, InflightFits, JoinedFits, Joined, Tasks, Done
<1>3. CASE UNCHANGED vars
    BY <1>3 DEF vars, CInv, TypesFit, InflightFits, JoinedFits, Joined, Tasks, Done
<1>4. CASE \E r \in Requests, k \in Keys : Hit(r, k) \/ Miss(r, k)
    BY <1>4, HitKeeps, MissKeeps
<1>5. CASE \E t \in Tasks : LoaderEnds(t)
    BY <1>5, LoaderEndsKeeps
<1>6. CASE \E r \in Requests : Resume(r) \/ Cancel(r)
    BY <1>6, ResumeKeeps, CancelKeeps
<1> QED
    BY <1>1, <1>2, <1>3, <1>4, <1>5, <1>6 DEF Next

-----------------------------------------------------------------------------
(* The theorems                                                            *)

(* The invariant: inflight names exactly the loaders that run, and what it *)
(* names has a request that has not come back.                             *)
THEOREM CacheInvariance == Spec => []CInv
BY InitCInv, NextCInv, PTL DEF Spec

(* Never two loaders of one key at once, for any number of requests that   *)
(* come, are cancelled and come back, and entries that expire or are       *)
(* evicted (get_or_create, its finally clause).                            *)
THEOREM LoadersRunAlone == Spec => []SingleFlight
<1>1. CInv => SingleFlight
    BY DEF CInv, InflightFits, SingleFlight, Done
<1> QED
    BY <1>1, CacheInvariance, PTL

(* A loader that has ended stays in flight for requests that wait for it or*)
(* after one of them was cancelled, and for no other reason.               *)
THEOREM ResultsAreTaken == Spec => []NoResultIsLeftBehind
<1>1. CInv => NoResultIsLeftBehind
    BY DEF CInv, JoinedFits, Joined, NoResultIsLeftBehind, Abandoned
<1> QED
    BY <1>1, CacheInvariance, PTL

-----------------------------------------------------------------------------
(* What Filter computes                                                    *)

(* Induction over the natural numbers, for a set.                          *)
LEMMA SetInduction ==
    ASSUME NEW S, 0 \in S, \A n \in Nat : n \in S => n + 1 \in S
    PROVE  Nat \subseteq S
<1> DEFINE R == OpToRel(<, Nat)
           T == Nat \ S
<1>1. IsWellFoundedOn(R, Nat) /\ T \subseteq Nat
    BY NatLessThanWellFounded
<1>2. \A x, y \in Nat : x < y => <<x, y>> \in R
    BY DEF OpToRel
<1> HIDE DEF R
<1>3. T # {} => \E x \in T : \A y \in T : ~(<<y, x>> \in R)
    BY <1>1, WFMin, Zenon
<1>4. SUFFICES ASSUME T # {} PROVE FALSE
    OBVIOUS
<1>5. PICK x \in T : \A y \in T : ~(<<y, x>> \in R)
    BY <1>3, <1>4
<1>6. x \in Nat /\ x # 0 /\ x - 1 \in Nat /\ x - 1 < x /\ (x - 1) + 1 = x
    BY <1>5
<1>7. x - 1 \in T
    BY <1>5, <1>6
<1> QED
    BY <1>2, <1>5, <1>6, <1>7

FilterStep(s, K, g, i) ==
    IF i = 0 THEN <<>> ELSE IF s[i].key \in K THEN Append(g[i - 1], s[i]) ELSE g[i - 1]

(* The recursion of Filter has a solution, hence is what Filter is.        *)
LEMMA FilterRecursion ==
    ASSUME NEW s, Len(s) \in Nat, NEW K
    PROVE  \A i \in 0..Len(s) : Filter(s, K)[i] = FilterStep(s, K, Filter(s, K), i)
<1> DEFINE Solves(g, n) == g = [i \in 0..n |-> FilterStep(s, K, g, i)]
           S == {n \in Nat : \E g : Solves(g, n)}
<1>1. 0 \in S
  <2>1. Solves([i \in 0..0 |-> <<>>], 0)
      BY DEF FilterStep
  <2> QED
      BY <2>1
<1>2. ASSUME NEW n \in Nat, n \in S
      PROVE  n + 1 \in S
  <2>1. PICK g : Solves(g, n)
      BY <1>2
  <2> DEFINE e == FilterStep(s, K, g, n + 1)
             h == [i \in 0..n + 1 |-> IF i = n + 1 THEN e ELSE g[i]]
  <2>2. \A i \in 0..n : h[i] = g[i] /\ g[i] = FilterStep(s, K, g, i)
      BY <2>1
  <2>3. \A i \in 0..n + 1 : h[i] = FilterStep(s, K, h, i)
    <3>1. ASSUME NEW i \in 0..n PROVE h[i] = FilterStep(s, K, h, i)
      <4>1. i # 0 => i - 1 \in 0..n
          OBVIOUS
      <4>2. i # 0 => h[i - 1] = g[i - 1]
          BY <2>2, <4>1
      <4> HIDE DEF h
      <4> QED
          BY <2>2, <4>2 DEF FilterStep
    <3>2. h[n + 1] = e /\ h[n] = g[n] /\ (n + 1) - 1 = n /\ n + 1 # 0
        OBVIOUS
    <3> HIDE DEF h
    <3>3. h[n + 1] = FilterStep(s, K, h, n + 1)
        BY <3>2 DEF FilterStep
    <3> QED
        BY <3>1, <3>3
  <2>4. h = [i \in 0..n + 1 |-> h[i]]
      OBVIOUS
  <2> HIDE DEF h
  <2>5. Solves(h, n + 1)
      BY <2>3, <2>4
  <2> QED
      BY <2>5
<1> HIDE DEF S
<1>3. Len(s) \in S
    BY <1>1, <1>2, SetInduction
<1>4. \E g : Solves(g, Len(s))
    BY <1>3 DEF S
<1>5. Filter(s, K) = CHOOSE g : Solves(g, Len(s))
    BY DEF Filter, FilterStep
<1>6. Solves(Filter(s, K), Len(s))
    BY <1>4, <1>5
<1> QED
    BY <1>6

Distinct(s) == \A i, j \in 1..Len(s) : s[i].key = s[j].key => i = j

LEMMA AppendElements ==
    ASSUME NEW X, NEW s \in Seq(X), NEW e \in X
    PROVE  /\ Append(s, e) \in Seq(X) /\ Len(s) \in Nat
           /\ Len(Append(s, e)) = Len(s) + 1 /\ Append(s, e)[Len(s) + 1] = e
           /\ \A i \in 1..Len(s) : Append(s, e)[i] = s[i]
           /\ 1..Len(s) + 1 = 1..Len(s) \cup {Len(s) + 1}
OBVIOUS

(* What is left of the first n entries: entries of s that have a key in K, *)
(* fewer than n if some key is not.                                        *)
FilterFits(s, K, X, n, f) ==
    /\ f \in Seq(X) /\ Len(f) <= n /\ Distinct(f)
    /\ \A j \in 1..Len(f) : f[j].key \in K /\ \E h \in 1..n : f[j] = s[h]
    /\ (\E h \in 1..n : s[h].key \notin K) => Len(f) < n

LEMMA FilterStepFits ==
    ASSUME NEW X, NEW s \in Seq(X), Distinct(s), NEW K, NEW n \in Nat, n + 1 <= Len(s),
           NEW f, FilterFits(s, K, X, n, f)
    PROVE  FilterFits(s, K, X, n + 1, IF s[n + 1].key \in K THEN Append(f, s[n + 1]) ELSE f)
<1>1. /\ n + 1 \in 1..Len(s) /\ s[n + 1] \in X /\ 1..n + 1 = 1..n \cup {n + 1}
      /\ f \in Seq(X) /\ Len(f) \in Nat
    BY DEF FilterFits
<1>2. CASE s[n + 1].key \in K
  <2> DEFINE g == Append(f, s[n + 1])
  <2>1. /\ g \in Seq(X) /\ Len(g) = Len(f) + 1 /\ g[Len(f) + 1] = s[n + 1]
        /\ \A i \in 1..Len(f) : g[i] = f[i]
        /\ 1..Len(g) = 1..Len(f) \cup {Len(f) + 1}
      BY <1>1, AppendElements
  <2> HIDE DEF g
  <2>2. \A j \in 1..Len(f) : f[j].key # s[n + 1].key
    <3>1. ASSUME NEW j \in 1..Len(f), f[j].key = s[n + 1].key
          PROVE  FALSE
      <4>1. PICK h \in 1..n : f[j] = s[h]
          BY DEF FilterFits
      <4>2. h \in 1..Len(s) /\ h # n + 1
          BY <1>1
      <4> QED
          BY <1>1, <3>1, <4>1, <4>2 DEF Distinct
    <3> QED
        BY <3>1
  <2>3. Distinct(g)
    <3>1. \A i, j \in 1..Len(f) : f[i].key = f[j].key => i = j
        BY DEF FilterFits, Distinct
    <3> QED
        BY <2>1, <2>2, <3>1 DEF Distinct
  <2>4. \A j \in 1..Len(g) : g[j].key \in K /\ \E h \in 1..n + 1 : g[j] = s[h]
    <3>1. \A j \in 1..Len(f) : g[j].key \in K /\ \E h \in 1..n + 1 : g[j] = s[h]
        BY <1>1, <2>1 DEF FilterFits
    <3> QED
        BY <1>1, <1>2, <2>1, <3>1
  <2>5. (\E h \in 1..n + 1 : s[h].key \notin K) => Len(g) < n + 1
      BY <1>1, <1>2, <2>1 DEF FilterFits
  <2>6. Len(g) <= n + 1
      BY <1>1, <2>1 DEF FilterFits
  <2> QED
      BY <1>2, <2>1, <2>3, <2>4, <2>5, <2>6 DEF FilterFits, g
<1>3. CASE s[n + 1].key \notin K
  <2>1. Len(f) <= n /\ n < n + 1 /\ Len(f) < n + 1
      BY <1>1 DEF FilterFits
  <2> QED
      BY <1>1, <1>3, <2>1 DEF FilterFits
<1> QED
    BY <1>2, <1>3

(* By induction over the entries.                                          *)
LEMMA FilterFacts ==
    ASSUME NEW X, NEW s \in Seq(X), Distinct(s), NEW K
    PROVE  FilterFits(s, K, X, Len(s), Filter(s, K)[Len(s)])
<1> DEFINE S == {n \in Nat : n <= Len(s) => FilterFits(s, K, X, n, Filter(s, K)[n])}
<1>1. Len(s) \in Nat
    OBVIOUS
<1>2. 0 \in S
  <2>1. Filter(s, K)[0] = <<>>
      BY <1>1, FilterRecursion DEF FilterStep
  <2>2. FilterFits(s, K, X, 0, <<>>)
      BY DEF FilterFits, Distinct
  <2> QED
      BY <2>1, <2>2
<1>3. ASSUME NEW n \in Nat, n \in S
      PROVE  n + 1 \in S
  <2>1. SUFFICES ASSUME n + 1 <= Len(s)
                 PROVE  FilterFits(s, K, X, n + 1, Filter(s, K)[n + 1])
      OBVIOUS
  <2>2. FilterFits(s, K, X, n, Filter(s, K)[n])
      BY <1>1, <1>3, <2>1
  <2>3. n + 1 \in 0..Len(s) /\ n + 1 # 0 /\ (n + 1) - 1 = n
      BY <1>1, <2>1
  <2>4. Filter(s, K)[n + 1] =
            IF s[n + 1].key \in K THEN Append(Filter(s, K)[n], s[n + 1]) ELSE Filter(s, K)[n]
    <3>1. Filter(s, K)[n + 1] = FilterStep(s, K, Filter(s, K), n + 1)
        BY <1>1, <2>3, FilterRecursion
    <3> QED
        BY <2>3, <3>1 DEF FilterStep
  <2> QED
      BY <2>1, <2>2, <2>4, FilterStepFits
<1> HIDE DEF S
<1>4. Len(s) \in S
    BY <1>1, <1>2, <1>3, SetInduction
<1> QED
    BY <1>1, <1>4 DEF S

-----------------------------------------------------------------------------
(* The inductive invariant of the table and of the answers                 *)

Entry == [key: Keys, expires: 0..MaxTime + Ttl, task: Nat]

(* What a request stored, that took the result when it was new or after    *)
(* another had abandoned it.                                               *)
Good(e) ==
    /\ e.task \in Tasks /\ tasks[e.task].state = "ok" /\ tasks[e.task].key = e.key
    /\ e.expires <= tasks[e.task].at + Ttl \/ Abandoned(e.task)

Table(s) == s \in Seq(Entry) /\ Len(s) <= MaxEntries /\ Distinct(s)
TableFits == Table(entries) /\ \A e \in ToSet(entries) : Good(e)

TimesFit == now <= MaxTime /\ \A t \in Tasks : tasks[t].at <= now

(* A waiter takes the result in the tick in which it came: the event loop  *)
(* goes on only then.                                                      *)
RequestFits(r) ==
    /\ request[r].state \in {"new", "waiting", "answered", "raised", "cancelled"}
    /\ IF request[r].state = "new" THEN request[r].task = None ELSE request[r].task \in Tasks
    /\ request[r].state = "waiting" /\ Done(request[r].task) =>
           tasks[request[r].task].at = now \/ Abandoned(request[r].task)
    /\ request[r].state \in {"answered", "raised"} =>
           request[r].age <= Ttl \/ Abandoned(request[r].task)

FreshInv == TableFits /\ TimesFit /\ \A r \in Requests : RequestFits(r)

LEMMA InitFreshInv == Init => FreshInv
<1> SUFFICES ASSUME Init PROVE FreshInv
    OBVIOUS
<1>1. entries = <<>> /\ Tasks = {} /\ now = 0
    BY DEF Init, Tasks
<1>2. TableFits /\ TimesFit
    BY <1>1, SizesAssumption DEF TableFits, Table, Distinct, ToSet, TimesFit
<1>3. \A r \in Requests : request[r].state = "new" /\ request[r].task = None
    BY DEF Init
<1> QED
    BY <1>2, <1>3 DEF FreshInv, RequestFits

LEMMA KeptFacts ==
    ASSUME TableFits, NEW K
    PROVE  /\ Table(Kept(K)) /\ Len(Kept(K)) \in Nat /\ Len(entries) \in Nat
           /\ ToSet(Kept(K)) \subseteq ToSet(entries)
           /\ \A e \in ToSet(Kept(K)) : e.key \in K
           /\ (\E e \in ToSet(entries) : e.key \notin K) => Len(Kept(K)) < Len(entries)
<1>1. entries \in Seq(Entry) /\ Distinct(entries) /\ Len(entries) \in Nat
      /\ Len(entries) <= MaxEntries
    BY DEF TableFits, Table
<1>2. FilterFits(entries, K, Entry, Len(entries), Kept(K))
    BY <1>1, FilterFacts DEF Kept
<1> DEFINE f == Kept(K)
<1> HIDE DEF f
<1>3. /\ f \in Seq(Entry) /\ Len(f) \in Nat /\ Len(f) <= Len(entries) /\ Distinct(f)
      /\ \A j \in 1..Len(f) : f[j].key \in K /\ \E h \in 1..Len(entries) : f[j] = entries[h]
      /\ (\E h \in 1..Len(entries) : entries[h].key \notin K) => Len(f) < Len(entries)
    BY <1>2 DEF FilterFits, f
<1>4. Table(f)
    BY <1>1, <1>3, SizesAssumption DEF Table
<1>5. /\ ToSet(f) = {f[j] : j \in 1..Len(f)}
      /\ ToSet(entries) = {entries[h] : h \in 1..Len(entries)}
    BY <1>1, <1>3 DEF ToSet
<1> QED
    BY <1>1, <1>3, <1>4, <1>5 DEF f

(* An entry moved to the end or stored there takes the place of the one of *)
(* its key.                                                                *)
LEMMA AppendedFacts ==
    ASSUME TableFits, NEW k \in Keys, NEW e \in Entry, e.key = k
    PROVE  LET s == Append(Without(k), e)
           IN  /\ s \in Seq(Entry) /\ Len(s) \in Nat /\ Len(s) <= MaxEntries + 1 /\ Distinct(s)
               /\ ToSet(s) \subseteq ToSet(entries) \cup {e}
               /\ Entries(k) # {} => Len(s) <= MaxEntries
<1> DEFINE f == Without(k)
           s == Append(f, e)
<1>1. /\ f \in Seq(Entry) /\ Len(f) \in Nat /\ Len(f) <= MaxEntries /\ Distinct(f)
      /\ ToSet(f) \subseteq ToSet(entries)
      /\ \A x \in ToSet(f) : x.key \in Keys \ {k}
      /\ Entries(k) # {} => Len(f) < Len(entries)
      /\ Len(entries) \in Nat /\ Len(entries) <= MaxEntries
    BY KeptFacts DEF Without, Entries, Table, TableFits
<1> HIDE DEF f
<1>2. /\ s \in Seq(Entry) /\ Len(s) = Len(f) + 1 /\ s[Len(f) + 1] = e
      /\ \A i \in 1..Len(f) : s[i] = f[i]
      /\ 1..Len(s) = 1..Len(f) \cup {Len(f) + 1}
    BY <1>1, AppendElements
<1> HIDE DEF s
<1>3. /\ ToSet(f) = {f[j] : j \in 1..Len(f)}
      /\ ToSet(s) = {s[j] : j \in 1..Len(s)}
    BY <1>1, <1>2 DEF ToSet
<1>4. \A j \in 1..Len(f) : f[j].key # k
    BY <1>1, <1>3
<1>5. Distinct(s)
    BY <1>1, <1>2, <1>4 DEF Distinct
<1>6. ToSet(s) \subseteq ToSet(entries) \cup {e}
    BY <1>1, <1>2, <1>3
<1>7. Len(s) \in Nat /\ Len(s) <= MaxEntries + 1 /\ (Entries(k) # {} => Len(s) <= MaxEntries)
    BY <1>1, <1>2, SizesAssumption
<1> QED
    BY <1>2, <1>5, <1>6, <1>7 DEF s, f

LEMMA BoundedFacts ==
    ASSUME NEW s \in Seq(Entry), Len(s) <= MaxEntries + 1, Distinct(s)
    PROVE  Table(Bounded(s)) /\ ToSet(Bounded(s)) \subseteq ToSet(s)
<1>1. CASE Len(s) > MaxEntries
  <2> DEFINE u == Tail(s)
  <2>1. /\ u \in Seq(Entry) /\ Len(u) = Len(s) - 1 /\ Len(s) \in Nat /\ Len(u) <= MaxEntries
        /\ \A i \in 1..Len(u) : u[i] = s[i + 1] /\ i \in Nat /\ i + 1 \in 1..Len(s)
      BY <1>1, SizesAssumption
  <2> HIDE DEF u
  <2>2. Distinct(u)
      BY <2>1 DEF Distinct
  <2>3. /\ ToSet(u) = {u[j] : j \in 1..Len(u)}
        /\ ToSet(s) = {s[j] : j \in 1..Len(s)}
      BY <2>1 DEF ToSet
  <2>4. ToSet(u) \subseteq ToSet(s)
      BY <2>1, <2>3
  <2> QED
      BY <1>1, <2>1, <2>2, <2>4 DEF Bounded, Table, u
<1>2. CASE ~(Len(s) > MaxEntries)
  <2>1. Len(s) <= MaxEntries
      BY <1>2, SizesAssumption
  <2> QED
      BY <1>2, <2>1 DEF Bounded, Table
<1> QED
    BY <1>1, <1>2

-----------------------------------------------------------------------------
(* The steps                                                               *)

(* A request changes and no result does: what was right of the others, and *)
(* of entries, stays right.                                                *)
LEMMA OthersFit ==
    ASSUME FreshInv, NEW r \in Requests, Puts(r, request'[r]), UNCHANGED now,
           request[r].state # "cancelled",
           \A t \in Tasks : t \in Tasks' /\ tasks'[t] = tasks[t]
    PROVE  /\ \A t \in Tasks : Abandoned(t) => Abandoned(t)'
           /\ \A e : Good(e) => Good(e)'
           /\ \A q \in Requests \ {r} : RequestFits(q)'
<1>1. \A q \in Requests \ {r} : request'[q] = request[q]
    BY DEF Puts
<1>2. \A t \in Tasks : Abandoned(t) => Abandoned(t)'
    BY <1>1 DEF Abandoned
<1>3. \A t \in Tasks : Done(t) <=> Done(t)'
    BY DEF Done
<1>4. \A e : Good(e) => Good(e)'
    BY <1>2, <1>3 DEF Good
<1>5. ASSUME NEW q \in Requests \ {r}
      PROVE  RequestFits(q)'
  <2>1. RequestFits(q) /\ request'[q] = request[q]
      BY <1>1 DEF FreshInv
  <2>2. CASE request[q].state = "new"
      BY <2>1, <2>2 DEF RequestFits
  <2>3. CASE request[q].state # "new"
      BY <1>2, <1>3, <2>1, <2>3 DEF RequestFits
  <2> QED
      BY <2>2, <2>3
<1> QED
    BY <1>2, <1>4, <1>5

(* An answer from an entry is as old as the entry may get.                 *)
LEMMA HitIsFresh ==
    ASSUME CInv, FreshInv, NEW r \in Requests, NEW k \in Keys, Hit(r, k)
    PROVE  FreshInv'
<1>1. PICK e \in Fresh(k) : entries' = Append(Without(k), e) /\ Answer(r, e.task)
    BY DEF Hit
<1>2. request[r].state = "new" /\ UNCHANGED <<now, inflight, tasks>> /\ Tasks' = Tasks
    BY DEF Hit, Tasks
<1>3. /\ e \in ToSet(entries) /\ e.key = k /\ e.expires > now /\ Good(e)
      /\ e \in Entry /\ Entries(k) # {}
  <2>1. e \in ToSet(entries) /\ e.key = k /\ e.expires > now
      BY DEF Fresh, Entries
  <2>2. entries \in Seq(Entry) /\ Good(e)
      BY <2>1 DEF FreshInv, TableFits, Table
  <2>3. ToSet(entries) \subseteq Entry
      BY <2>2 DEF ToSet
  <2> QED
      BY <2>1, <2>2, <2>3 DEF Entries
<1>4. Table(entries') /\ ToSet(entries') \subseteq ToSet(entries)
    BY <1>1, <1>3, AppendedFacts DEF FreshInv, Table
<1>5. /\ request'[r].state \in {"answered", "raised"} /\ Puts(r, request'[r])
      /\ request'[r].task = e.task /\ request'[r].age = now - tasks[e.task].at
    BY <1>1, AnswerFacts DEF CInv
<1>6. /\ \A t \in Tasks : Abandoned(t) => Abandoned(t)'
      /\ \A x : Good(x) => Good(x)'
      /\ \A q \in Requests \ {r} : RequestFits(q)'
    BY <1>2, <1>5, OthersFit
<1>7. RequestFits(r)'
  <2>1. e.task \in Tasks /\ (e.expires <= tasks[e.task].at + Ttl \/ Abandoned(e.task))
      BY <1>3 DEF Good
  <2>2. now \in Nat /\ tasks[e.task].at \in Nat /\ e.expires \in Nat
      BY <1>3, <2>1, TaskFacts, SizesAssumption DEF CInv, TypesFit, Loader, Entry
  <2>3. now - tasks[e.task].at <= Ttl \/ Abandoned(e.task)
      BY <1>3, <2>1, <2>2, SizesAssumption
  <2> QED
      BY <1>2, <1>5, <1>6, <2>1, <2>3 DEF RequestFits
<1>8. TableFits' /\ TimesFit'
    BY <1>2, <1>4, <1>6 DEF FreshInv, TableFits, TimesFit
<1> QED
    BY <1>6, <1>7, <1>8 DEF FreshInv

(* Who joins a loader that has ended joins one whose waiters are about to  *)
(* take its result, or one that was abandoned.                             *)
LEMMA MissIsFresh ==
    ASSUME CInv, FreshInv, NEW r \in Requests, NEW k \in Keys, Miss(r, k)
    PROVE  FreshInv'
<1> DEFINE new == Len(tasks) + 1
           loader == [key |-> k, state |-> "running", at |-> now]
<1>1. /\ request[r].state = "new" /\ UNCHANGED now /\ entries' = Without(k)
      /\ now \in Nat
    BY DEF Miss, CInv, TypesFit
<1>2. Table(entries') /\ ToSet(entries') \subseteq ToSet(entries)
    BY <1>1, KeptFacts DEF Without, FreshInv
<1>3. CASE /\ inflight[k] # None /\ UNCHANGED <<inflight, tasks>>
           /\ request' = [request EXCEPT ![r].state = "waiting", ![r].task = inflight[k]]
  <2> DEFINE t == inflight[k]
  <2>1. Puts(r, [state |-> "waiting", task |-> t, age |-> request[r].age])
      BY <1>3, WaitFacts DEF CInv
  <2>2. request'[r].state = "waiting" /\ request'[r].task = t /\ Puts(r, request'[r])
      BY <2>1 DEF Puts
  <2>3. Tasks' = Tasks /\ t \in Tasks
      BY <1>3 DEF Tasks, CInv, InflightFits
  <2>4. /\ \A u \in Tasks : Abandoned(u) => Abandoned(u)'
        /\ \A x : Good(x) => Good(x)'
        /\ \A q \in Requests \ {r} : RequestFits(q)'
      BY <1>1, <1>3, <2>2, <2>3, OthersFit
  <2>5. Done(t) => tasks[t].at = now \/ Abandoned(t)
    <3>1. PICK q \in Requests : Joined(q, t)
        BY <1>3 DEF CInv, JoinedFits
    <3>2. RequestFits(q)
        BY DEF FreshInv
    <3> QED
        BY <3>1, <3>2 DEF Joined, Abandoned, RequestFits
  <2> HIDE DEF t
  <2>6. RequestFits(r)'
      BY <1>1, <1>3, <2>2, <2>3, <2>4, <2>5 DEF RequestFits, Done
  <2>7. TableFits' /\ TimesFit'
      BY <1>1, <1>2, <1>3, <2>3, <2>4 DEF FreshInv, TableFits, TimesFit
  <2> QED
      BY <2>4, <2>6, <2>7 DEF FreshInv
<1>4. CASE /\ inflight[k] = None /\ tasks' = Append(tasks, loader)
           /\ request' = [request EXCEPT ![r].state = "waiting", ![r].task = new]
  <2>1. Puts(r, [state |-> "waiting", task |-> new, age |-> request[r].age])
      BY <1>4, WaitFacts DEF CInv
  <2>2. request'[r].state = "waiting" /\ request'[r].task = new /\ Puts(r, request'[r])
      BY <2>1 DEF Puts
  <2>3. loader \in Loader /\ tasks \in Seq(Loader)
      BY DEF CInv, TypesFit, Loader
  <2>4. /\ Tasks' = Tasks \cup {new} /\ tasks'[new] = loader
        /\ \A t \in Tasks : tasks'[t] = tasks[t]
      BY <1>4, <2>3, AppendFacts DEF Tasks
  <2> HIDE DEF new
  <2>5. /\ \A x : Good(x) => Good(x)'
        /\ \A q \in Requests \ {r} : RequestFits(q)'
      BY <1>1, <2>2, <2>4, OthersFit
  <2>6. RequestFits(r)'
      BY <2>2, <2>4 DEF RequestFits, Done
  <2>7. TimesFit'
      BY <1>1, <2>4 DEF FreshInv, TimesFit
  <2>8. TableFits'
      BY <1>2, <2>5 DEF FreshInv, TableFits
  <2> QED
      BY <2>5, <2>6, <2>7, <2>8 DEF FreshInv
<1> QED
    BY <1>3, <1>4 DEF Miss

LEMMA LoaderEndsIsFresh ==
    ASSUME CInv, FreshInv, NEW t \in Tasks, LoaderEnds(t)
    PROVE  FreshInv'
<1>1. PICK s \in {"ok", "error"} : tasks' = [tasks EXCEPT ![t].state = s, ![t].at = now]
    BY DEF LoaderEnds
<1>2. tasks \in Seq(Loader) /\ now \in Nat /\ ~Done(t) /\ UNCHANGED <<now, entries, request>>
    BY DEF CInv, TypesFit, LoaderEnds
<1>3. /\ Tasks' = Tasks /\ tasks'[t].at = now
      /\ \A u \in Tasks \ {t} : tasks'[u] = tasks[u]
    BY <1>1, <1>2 DEF Tasks, Loader
<1>4. \A u : Abandoned(u) <=> Abandoned(u)'
    BY <1>2 DEF Abandoned
<1>5. \A e : Good(e) => Good(e)'
    BY <1>2, <1>3, <1>4 DEF Good, Done
<1>6. \A r \in Requests : RequestFits(r) => RequestFits(r)'
    BY <1>2, <1>3, <1>4 DEF RequestFits, Done
<1>7. TimesFit'
    BY <1>2, <1>3 DEF FreshInv, TimesFit
<1> QED
    BY <1>2, <1>5, <1>6, <1>7 DEF FreshInv, TableFits

(* The result a waiter stores is of this tick, or of an abandoned task.    *)
LEMMA ResumeIsFresh ==
    ASSUME CInv, FreshInv, NEW r \in Requests, Resume(r)
    PROVE  FreshInv'
<1> DEFINE t == request[r].task
<1>1. /\ request[r].state = "waiting" /\ Done(t) /\ UNCHANGED <<now, tasks>> /\ Answer(r, t)
      /\ entries' = IF tasks[t].state = "ok" THEN Stored(tasks[t].key, t) ELSE entries
    BY DEF Resume
<1>2. /\ t \in Tasks /\ tasks[t].key \in Keys /\ t \in Nat /\ tasks[t].at \in Nat
      /\ now \in Nat /\ Tasks' = Tasks
      /\ tasks[t].at = now \/ Abandoned(t)
      /\ tasks[t].at <= now /\ now <= MaxTime
    BY <1>1, TaskFacts DEF CInv, JoinedFits, TypesFit, Loader, FreshInv, RequestFits, TimesFit, Tasks
<1>3. /\ request'[r].state \in {"answered", "raised"} /\ Puts(r, request'[r])
      /\ request'[r].task = t /\ request'[r].age = now - tasks[t].at
    BY <1>1, AnswerFacts DEF CInv
<1> HIDE DEF t
<1>4. /\ \A u \in Tasks : Abandoned(u) => Abandoned(u)'
      /\ \A x : Good(x) => Good(x)'
      /\ \A q \in Requests \ {r} : RequestFits(q)'
    BY <1>1, <1>2, <1>3, OthersFit
<1>5. RequestFits(r)'
  <2>1. now - tasks[t].at <= Ttl \/ Abandoned(t)
      BY <1>2, SizesAssumption
  <2> QED
      BY <1>1, <1>2, <1>3, <1>4, <2>1 DEF RequestFits
<1>6. TableFits'
  <2>1. CASE tasks[t].state # "ok"
      BY <1>1, <1>4, <2>1 DEF FreshInv, TableFits
  <2>2. CASE tasks[t].state = "ok"
    <3> DEFINE e == [key |-> tasks[t].key, expires |-> now + Ttl, task |-> t]
               s == Append(Without(tasks[t].key), e)
    <3>1. e \in Entry /\ e.key = tasks[t].key /\ e.task = t /\ e.expires = now + Ttl
        BY <1>2, SizesAssumption DEF Entry
    <3>2. Good(e)
      <4>1. e.expires <= tasks[e.task].at + Ttl \/ Abandoned(e.task)
          BY <1>2, <3>1, SizesAssumption
      <4> QED
          BY <1>1, <1>2, <2>2, <3>1, <4>1 DEF Good
    <3>3. entries' = Bounded(s)
        BY <1>1, <2>2 DEF Stored
    <3> HIDE DEF e
    <3>4. /\ s \in Seq(Entry) /\ Len(s) <= MaxEntries + 1 /\ Distinct(s)
          /\ ToSet(s) \subseteq ToSet(entries) \cup {e}
        BY <1>2, <3>1, AppendedFacts DEF FreshInv
    <3> HIDE DEF s
    <3>5. Table(entries') /\ ToSet(entries') \subseteq ToSet(entries) \cup {e}
        BY <3>3, <3>4, BoundedFacts
    <3> QED
        BY <1>4, <3>2, <3>5 DEF FreshInv, TableFits
  <2> QED
      BY <2>1, <2>2
<1>7. TimesFit'
    BY <1>1, <1>2 DEF FreshInv, TimesFit
<1> QED
    BY <1>4, <1>5, <1>6, <1>7 DEF FreshInv

LEMMA CancelIsFresh ==
    ASSUME CInv, FreshInv, NEW r \in Requests, Cancel(r)
    PROVE  FreshInv'
<1>1. /\ request[r].state = "waiting" /\ UNCHANGED <<now, entries, tasks>> /\ Tasks' = Tasks
      /\ request' = [request EXCEPT ![r].state = "cancelled"]
      /\ request[r].task \in Tasks
    BY DEF Cancel, Tasks, CInv, JoinedFits
<1>2. /\ Puts(r, request'[r])
      /\ request'[r].state = "cancelled" /\ request'[r].task = request[r].task
    BY <1>1, CancelFacts DEF CInv
<1>3. /\ \A x : Good(x) => Good(x)'
      /\ \A q \in Requests \ {r} : RequestFits(q)'
    BY <1>1, <1>2, OthersFit
<1>4. RequestFits(r)'
    BY <1>1, <1>2 DEF RequestFits
<1> QED
    BY <1>1, <1>3, <1>4 DEF FreshInv, TableFits, TimesFit

(* Time goes on when every waiter has taken its result.                    *)
LEMMA TickIsFresh == CInv /\ FreshInv /\ Tick => FreshInv'
<1> SUFFICES ASSUME CInv, FreshInv, Tick PROVE FreshInv'
    OBVIOUS
<1>1. /\ now < MaxTime /\ now' = now + 1 /\ UNCHANGED <<entries, tasks, request>>
      /\ \A r \in Requests : request[r].state = "waiting" => ~Done(request[r].task)
      /\ now \in Nat /\ Tasks' = Tasks
      /\ \A t \in Tasks : tasks[t].at \in Nat
    BY TaskFacts DEF Tick, CInv, TypesFit, Tasks, Loader
<1>2. TimesFit'
    BY <1>1, SizesAssumption DEF FreshInv, TimesFit
<1>3. \A u : Abandoned(u) <=> Abandoned(u)'
    BY <1>1 DEF Abandoned
<1>4. \A e : Good(e) => Good(e)'
    BY <1>1, <1>3 DEF Good, Done
<1>5. \A r \in Requests : RequestFits(r) => RequestFits(r)'
    BY <1>1, <1>3 DEF RequestFits, Done
<1> QED
    BY <1>1, <1>2, <1>4, <1>5 DEF FreshInv, TableFits

LEMMA NextFreshInv == CInv /\ FreshInv /\ [Next]_vars => FreshInv'
<1> SUFFICES ASSUME CInv, FreshInv, [Next]_vars PROVE FreshInv'
    OBVIOUS
<1>1. ASSUME UNCHANGED <<now, tasks, request>>, Table(entries'), ToSet(entries') \subseteq ToSet(entries)
      PROVE  FreshInv'
    BY <1>1 DEF FreshInv, TableFits, TimesFit, RequestFits, Good, Abandoned, Tasks, Done
<1>2. CASE \E d \in {DatasetOf[k] : k \in Keys} : RetainDataset(d)
  <2>1. UNCHANGED <<now, tasks, request>> /\ \E K : entries' = Kept(K)
      BY <1>2 DEF RetainDataset
  <2> QED
      BY <1>1, <2>1, KeptFacts DEF FreshInv
<1>3. CASE UNCHANGED vars
    BY <1>1, <1>3 DEF vars, FreshInv, TableFits
<1> QED
    BY <1>2, <1>3, HitIsFresh, MissIsFresh, LoaderEndsIsFresh, ResumeIsFresh, CancelIsFresh,
       TickIsFresh DEF Next

LEMMA FreshInvariance == Spec => []FreshInv
BY CacheInvariance, InitFreshInv, NextFreshInv, PTL DEF Spec

(* The table is bounded and holds an entry per key, each the result of a   *)
(* loader of that key that has ended without an error; every variable has  *)
(* its type (get_or_create, _entries).                                     *)
THEOREM CacheTypes == Spec => []CTypeOK
<1>1. CInv /\ FreshInv => CTypeOK
  <2> SUFFICES ASSUME CInv, FreshInv PROVE CTypeOK
      OBVIOUS
  <2>1. now \in 0..MaxTime /\ \A t \in Tasks : tasks[t] \in Loader /\ tasks[t].at \in 0..MaxTime
    <3>1. now \in Nat /\ \A t \in Tasks : tasks[t] \in Loader
        BY TaskFacts DEF CInv, TypesFit
    <3> QED
        BY <3>1, SizesAssumption DEF FreshInv, TimesFit, Loader
  <2>2. /\ Len(entries) <= MaxEntries /\ DOMAIN entries = 1..Len(entries) /\ Len(entries) \in Nat
        /\ \A i \in DOMAIN entries : entries[i] \in Entry /\ entries[i] \in ToSet(entries)
        /\ Distinct(entries)
      BY DEF FreshInv, TableFits, Table, ToSet
  <2>3. ASSUME NEW i \in DOMAIN entries
        PROVE  /\ entries[i].key \in Keys /\ entries[i].expires \in 0..MaxTime + Ttl
               /\ entries[i].task \in Tasks
               /\ tasks[entries[i].task].state = "ok"
               /\ tasks[entries[i].task].key = entries[i].key
               /\ \A h \in 1..i - 1 : entries[h].key # entries[i].key
    <3>1. /\ entries[i] \in Entry /\ entries[i].task \in Tasks
          /\ tasks[entries[i].task].state = "ok" /\ tasks[entries[i].task].key = entries[i].key
        BY <2>2 DEF FreshInv, TableFits, Good
    <3>2. \A h \in 1..i - 1 : h \in 1..Len(entries) /\ h # i
        BY <2>2
    <3> QED
        BY <2>2, <3>1, <3>2 DEF Entry, Distinct
  <2>4. \A k \in Keys : inflight[k] \in Tasks \cup {None}
      BY DEF CInv, InflightFits
  <2>5. \A r \in Requests :
           /\ request[r].state \in {"new", "waiting", "answered", "raised", "cancelled"}
           /\ request[r].task \in Tasks \cup {None}
      BY DEF FreshInv, RequestFits
  <2> QED
      BY <2>1, <2>2, <2>3, <2>4, <2>5 DEF CTypeOK, Loader
<1> QED
    BY <1>1, CacheInvariance, FreshInvariance, PTL

(* A request is answered with what is no older than an entry may get,      *)
(* however many requests share, store, evict and touch entries meanwhile,  *)
(* except from a task that a request has abandoned (get_or_create).        *)
THEOREM AnswersStayFresh == Spec => []AnswersAreFresh
<1>1. FreshInv => AnswersAreFresh
    BY DEF FreshInv, RequestFits, AnswersAreFresh
<1> QED
    BY <1>1, FreshInvariance, PTL
=============================================================================
