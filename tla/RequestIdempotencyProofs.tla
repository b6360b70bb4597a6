----------------------- MODULE RequestIdempotencyProofs -----------------------
(***************************************************************************)
(* Theorems about the mutating requests, for any requests, keys, users, API*)
(* processes and mutations: a key is held by one request and takes effect  *)
(* once; the handlers of user administration are handlers of these         *)
(* requests, and as long as no two of them overlap, an administrator stays *)
(* and a complete change leaves one role.                                  *)
(***************************************************************************)
EXTENDS UserAdmin, TLAPS, FiniteSetTheorems

USE KeysAssumption, AnswersAssumption

(* What ties the history to the records: a request that took effect left   *)
(* its record behind, unless it spoilt the key, and whoever holds the key  *)
(* now is the only one who can have taken effect in the record's life.     *)
HistoryFits ==
    /\ \A k \in Keys \ spoilt : acted[k] # {} => records[k] \in {"reserved", "completed"}
    /\ \A r \in Requests :
          Holds(r) /\ request[r].key \notin spoilt => acted[request[r].key] \subseteq {r}

(* A response is on its way only from a task that has ended to a middleware*)
(* that still waits, so that a 504 never releases a key; a middleware that *)
(* is to complete a record after its 504 has the key of a reservation.     *)
ResponsesFit ==
    \A r \in Requests :
        /\ request[r].answer # None => request[r].pc = "waiting" /\ request[r].task = "ended"
        /\ request[r].pc = "late" => request[r].task \in {"handling", "ended"}

(* EffectOnce is not inductive: Handle adds to acted, and only HistoryFits *)
(* and HolderIsAlone say that nobody else is in there.                     *)
RInv == RTypeOK /\ ResponsesFit /\ HolderIsAlone /\ HistoryFits /\ EffectOnce

LEMMA InitRInv == RInit => RInv
BY DEF RInit, RInv, RTypeOK, ResponsesFit, HolderIsAlone, HistoryFits, EffectOnce, Holds,
       Attended, Points, Tasks, Answers, RecordStatuses

(* One request moves to a state of its type, with its key.                 *)
Moves(r) ==
    /\ request' \in [Requests -> [pc: Points, task: Tasks, key: Keys \cup {None},
                                  answer: Answers \cup {None}]]
    /\ \A q \in Requests :
          /\ request'[q].task # "none" => request'[q].key \in Keys
          /\ request'[q].pc = "idle" <=> request'[q].task = "none"
          /\ request'[q].key = request[q].key
          /\ request'[q].answer # None =>
                request'[q].pc = "waiting" /\ request'[q].task = "ended"
          /\ request'[q].pc = "late" => request'[q].task \in {"handling", "ended"}
    /\ \A q \in Requests \ {r} : request'[q] = request[q]

(* The other requests are as they were; the one that moves is as follows.  *)
LEMMA OneMoves ==
    ASSUME RTypeOK, ResponsesFit, NEW r \in Requests, NEW x,
           request' = [request EXCEPT ![r] = x], request[r].task # "none",
           x.pc \in Points \ {"idle"}, x.task \in Tasks \ {"none"}, x.key = request[r].key,
           x \in [pc: Points, task: Tasks, key: Keys \cup {None}, answer: Answers \cup {None}],
           x.answer # None => x.pc = "waiting" /\ x.task = "ended",
           x.pc = "late" => x.task \in {"handling", "ended"}
    PROVE  Moves(r) /\ request'[r] = x
<1>1. request[r].key \in Keys
    BY DEF RTypeOK
<1>2. request' \in [Requests -> [pc: Points, task: Tasks, key: Keys \cup {None},
                                answer: Answers \cup {None}]]
    BY DEF RTypeOK
<1>3. request'[r] = x /\ \A q \in Requests \ {r} : request'[q] = request[q]
    BY DEF RTypeOK
<1> QED
    BY <1>1, <1>2, <1>3 DEF RTypeOK, ResponsesFit, Moves

LEMMA EndedMoves ==
    ASSUME RTypeOK, ResponsesFit, NEW r \in Requests, request[r].task # "none",
           NEW a \in Answers, Ended(r, a)
    PROVE  /\ Moves(r)
           /\ request'[r].task = "ended" /\ request'[r].pc = request[r].pc
<1> DEFINE b == IF request[r].pc = "waiting" THEN a ELSE None
           x == [request[r] EXCEPT !.task = "ended", !.answer = b]
<1>1. /\ b \in Answers \cup {None} /\ "ended" \in Tasks \ {"none"}
      /\ request[r].pc \in Points \ {"idle"} /\ (b # None => request[r].pc = "waiting")
    BY DEF RTypeOK, Tasks
<1>2. request' = [request EXCEPT ![r] = x]
    BY DEF Ended, RTypeOK
<1>3. request[r] \in [pc: Points, task: Tasks, key: Keys \cup {None},
                     answer: Answers \cup {None}]
    BY DEF RTypeOK
<1> HIDE DEF b
<1>4. /\ x \in [pc: Points, task: Tasks, key: Keys \cup {None}, answer: Answers \cup {None}]
      /\ x.pc = request[r].pc /\ x.task = "ended" /\ x.key = request[r].key /\ x.answer = b
    BY <1>1, <1>3
<1> HIDE DEF x
<1> QED
    BY <1>1, <1>2, <1>4, OneMoves

LEMMA PassedMoves ==
    ASSUME RTypeOK, ResponsesFit, NEW r \in Requests,
           request[r].task \in {"reserving", "handling"}, Passed(r)
    PROVE  /\ Moves(r)
           /\ request'[r].task = "ended"
           /\ request'[r].pc = IF request[r].pc = "waiting" THEN "done" ELSE request[r].pc
<1> DEFINE p == IF request[r].pc = "waiting" THEN "done" ELSE request[r].pc
           x == [request[r] EXCEPT !.task = "ended", !.pc = p]
<1>0. request[r] \in [pc: Points, task: Tasks, key: Keys \cup {None},
                     answer: Answers \cup {None}]
    BY DEF RTypeOK
<1>1. request' = [request EXCEPT ![r] = x]
    BY DEF Passed, RTypeOK
<1>2. /\ request[r].pc # "idle" /\ request[r].task # "none"
      /\ request[r].answer = None
    BY DEF RTypeOK, ResponsesFit
<1>3. p \in Points \ {"idle"} /\ "ended" \in Tasks \ {"none"}
    BY <1>0, <1>2 DEF Points, Tasks
<1> HIDE DEF p
<1>4. /\ x \in [pc: Points, task: Tasks, key: Keys \cup {None}, answer: Answers \cup {None}]
      /\ x.pc = p /\ x.task = "ended" /\ x.key = request[r].key /\ x.answer = None
    BY <1>0, <1>2, <1>3
<1> HIDE DEF x
<1>5. Moves(r) /\ request'[r] = x
    BY <1>1, <1>2, <1>3, <1>4, OneMoves
<1> QED
    BY <1>4, <1>5 DEF p

LEMMA LeavesMoves ==
    ASSUME RTypeOK, ResponsesFit, NEW r \in Requests, Leaves(r)
    PROVE  /\ Moves(r) /\ Attended(r)
           /\ request'[r].pc = "done" /\ request'[r].task = request[r].task
<1> DEFINE x == [request[r] EXCEPT !.pc = "done", !.answer = None]
<1>0. request[r] \in [pc: Points, task: Tasks, key: Keys \cup {None},
                     answer: Answers \cup {None}]
    BY DEF RTypeOK
<1>1. request' = [request EXCEPT ![r] = x]
    BY DEF Leaves, RTypeOK
<1>2. Attended(r) /\ request[r].task \in Tasks \ {"none"}
    BY <1>0 DEF RTypeOK, ResponsesFit, Leaves, Responds, Attended
<1>3. /\ x \in [pc: Points, task: Tasks, key: Keys \cup {None}, answer: Answers \cup {None}]
      /\ x.pc = "done" /\ x.task = request[r].task /\ x.key = request[r].key /\ x.answer = None
    BY <1>0 DEF Points
<1> HIDE DEF x
<1>4. Moves(r) /\ request'[r] = x
    BY <1>1, <1>2, <1>3, OneMoves DEF Points
<1> QED
    BY <1>2, <1>3, <1>4

LEMMA TimeOutMoves ==
    ASSUME RTypeOK, ResponsesFit, NEW r \in Requests, TimeOut(r)
    PROVE  /\ Moves(r) /\ Attended(r) /\ request'[r].task = request[r].task
           /\ request'[r].pc = "done" => request[r].task = "reserving"
<1> DEFINE p == IF request[r].task = "reserving" THEN "done" ELSE "late"
           x == [request[r] EXCEPT !.answer = None, !.pc = p]
<1>1. /\ request[r].pc = "waiting" /\ request[r].task \in {"reserving", "handling", "ended"}
      /\ request[r] \in [pc: Points, task: Tasks, key: Keys \cup {None},
                         answer: Answers \cup {None}]
    BY DEF RTypeOK, TimeOut, Tasks
<1>2. /\ p \in Points /\ p # "idle" /\ p # "waiting" /\ request[r].task \in Tasks \ {"none"}
      /\ p = "late" => request[r].task \in {"handling", "ended"}
      /\ p = "done" => request[r].task = "reserving"
    BY <1>1 DEF Points, Tasks
<1>3. request' = [request EXCEPT ![r] = x]
    BY DEF TimeOut, RTypeOK
<1> HIDE DEF p
<1>4. /\ x \in [pc: Points, task: Tasks, key: Keys \cup {None}, answer: Answers \cup {None}]
      /\ x.pc = p /\ x.task = request[r].task /\ x.key = request[r].key /\ x.answer = None
    BY <1>1, <1>2
<1> HIDE DEF x
<1>5. Moves(r) /\ request'[r] = x
    BY <1>2, <1>3, <1>4, OneMoves
<1> QED
    BY <1>1, <1>2, <1>4, <1>5 DEF Attended

(* A request that holds its key no more than before, with the records and  *)
(* the history alone.                                                      *)
LEMMA FewerHolders ==
    ASSUME RInv, RTypeOK', ResponsesFit', UNCHANGED <<records, acted, spoilt>>,
           \A q \in Requests : Holds(q)' =>
               /\ Holds(q) /\ request'[q].key = request[q].key
               /\ Attended(q)' => Attended(q)
    PROVE  RInv'
<1>1. HolderIsAlone'
    BY DEF RInv, HolderIsAlone, Free
<1>2. HistoryFits'
    BY DEF RInv, HistoryFits
<1> QED
    BY <1>1, <1>2 DEF RInv, EffectOnce

(* One request moves and gains neither its key nor a middleware.           *)
LEMMA MoveKeeps ==
    ASSUME RInv, NEW r \in Requests, Moves(r), UNCHANGED <<records, acted, spoilt>>,
           Holds(r)' => Holds(r) /\ (Attended(r)' => Attended(r))
    PROVE  RInv'
<1>1. RTypeOK' /\ ResponsesFit'
    BY DEF RInv, RTypeOK, ResponsesFit, Moves
<1>2. \A q \in Requests : Holds(q)' =>
          /\ Holds(q) /\ request'[q].key = request[q].key
          /\ Attended(q)' => Attended(q)
    BY DEF Moves, Holds, Attended
<1> QED
    BY <1>1, <1>2, FewerHolders

LEMMA ArriveKeeps == ASSUME RInv, NEW r \in Requests, NEW k \in Keys, Arrive(r, k)
                     PROVE RInv'
<1>1. RTypeOK' /\ ResponsesFit'
    BY DEF RInv, RTypeOK, ResponsesFit, Arrive, Points, Tasks
<1>2. \A q \in Requests : Holds(q)' =>
          /\ Holds(q) /\ request'[q].key = request[q].key
          /\ Attended(q)' => Attended(q)
    BY DEF RInv, RTypeOK, Arrive, Holds, Attended
<1> QED
    BY <1>1, <1>2, FewerHolders DEF Arrive

LEMMA ReserveKeeps == ASSUME RInv, NEW r \in Requests, Reserve(r)
                      PROVE RInv'
<1> DEFINE k == request[r].key
<1>1. k \in Keys
    BY DEF RInv, RTypeOK, Reserve
<1>2. Moves(r) /\ request'[r].pc = request[r].pc /\ request'[r].task = "handling"
    BY DEF RInv, RTypeOK, ResponsesFit, Reserve, Moves, Tasks
<1>3. \A q \in Requests : Holds(q) => request[q].key \in Keys \ {k}
    BY DEF RInv, RTypeOK, HolderIsAlone, Reserve, Holds, Attended
<1>4. k \notin spoilt => acted[k] = {}
    BY <1>1 DEF RInv, HistoryFits, Reserve, Free
<1>5. records' \in [Keys -> RecordStatuses] /\ records'[k] = "reserved"
      /\ \A l \in Keys \ {k} : records'[l] = records[l]
    BY <1>1 DEF RInv, RTypeOK, Reserve, RecordStatuses
<1>6. RTypeOK' /\ ResponsesFit'
    BY <1>2, <1>5 DEF RInv, RTypeOK, ResponsesFit, Reserve, Moves
<1>7. \A q \in Requests \ {r} :
          /\ Holds(q)' <=> Holds(q)
          /\ Attended(q)' <=> Attended(q)
    BY <1>2 DEF Moves, Holds, Attended
<1>8. \A q \in Requests : request'[q].key = request[q].key
    BY <1>2 DEF Moves
<1>9. HolderIsAlone'
  <2>1. \A q \in Requests \ {r} : Holds(q)' => request'[q].key # request'[r].key
      BY <1>3, <1>7, <1>8
  <2>2. \A q \in Requests : Holds(q)' =>
            /\ records'[request'[q].key] \notin {"absent", "expired"}
            /\ Attended(q)' => records'[request'[q].key] = "reserved"
      BY <1>3, <1>5, <1>7, <1>8 DEF RInv, HolderIsAlone, Free
  <2>3. \A q, s \in Requests \ {r} :
            Holds(q)' /\ Holds(s)' /\ request'[q].key = request'[s].key => q = s
      BY <1>7, <1>8 DEF RInv, HolderIsAlone
  <2> QED
      BY <2>1, <2>2, <2>3 DEF HolderIsAlone, Free
<1>10. HistoryFits'
    BY <1>1, <1>3, <1>4, <1>5, <1>7, <1>8 DEF RInv, HistoryFits, Reserve
<1> QED
    BY <1>6, <1>9, <1>10 DEF RInv, EffectOnce, Reserve

LEMMA ReserveLostKeeps == ASSUME RInv, NEW r \in Requests, ReserveLost(r)
                          PROVE RInv'
<1>1. request[r].key \in Keys
    BY DEF RInv, RTypeOK, ReserveLost
<1>2. /\ Moves(r) /\ request'[r].task = "ended"
      /\ request'[r].pc = IF request[r].pc = "waiting" THEN "done" ELSE request[r].pc
    BY PassedMoves DEF RInv, ReserveLost
<1>3. request[r].pc # "late"
    BY DEF RInv, ResponsesFit, ReserveLost
<1>4. \A q \in Requests : Holds(q)' =>
          Holds(q) /\ request'[q].key = request[q].key /\ (Attended(q)' => Attended(q))
    BY <1>2, <1>3 DEF Moves, Holds, Attended
<1>5. /\ records' \in [Keys -> RecordStatuses]
      /\ \A i \in Keys : records'[i] = records[i]
                         \/ (records[i] \in {"absent", "expired"} /\ records'[i] = "reserved")
    BY <1>1 DEF RInv, RTypeOK, ReserveLost, Free, RecordStatuses
<1>6. RTypeOK' /\ ResponsesFit'
    BY <1>2, <1>5 DEF RInv, RTypeOK, ResponsesFit, ReserveLost, Moves
<1>7. \A q \in Requests : Holds(q) => request[q].key \in Keys
    BY DEF RInv, RTypeOK, Holds, Attended
<1>8. HolderIsAlone'
    BY <1>4, <1>5, <1>7 DEF RInv, HolderIsAlone, Free
<1>9. HistoryFits'
    BY <1>4, <1>5 DEF RInv, HistoryFits, ReserveLost
<1> QED
    BY <1>6, <1>8, <1>9 DEF RInv, EffectOnce, ReserveLost

(* A handler that is at work: what it may add to the history.              *)
LEMMA HandleKeeps == ASSUME RInv, NEW r \in Requests, Handle(r)
                     PROVE RInv'
<1> DEFINE k == request[r].key
<1>1. k \in Keys /\ Holds(r)
    BY DEF RInv, RTypeOK, Handle, Holds
<1>2. Moves(r) /\ request'[r].pc = request[r].pc
  <2>1. CASE request' = request
      BY <2>1 DEF RInv, RTypeOK, ResponsesFit, Moves
  <2>2. CASE \E a \in Answers : Ended(r, a)
      BY <2>2, EndedMoves DEF RInv, Handle
  <2> QED
      BY <2>1, <2>2 DEF Handle
<1>3. \A q \in Requests : Holds(q)' =>
          Holds(q) /\ request'[q].key = request[q].key /\ (Attended(q)' => Attended(q))
    BY <1>1, <1>2 DEF Moves, Holds, Attended
<1>4. /\ acted' \in [Keys -> SUBSET Requests]
      /\ \A i \in Keys : i # k => acted'[i] = acted[i]
      /\ acted'[k] \subseteq acted[k] \cup {r}
    BY <1>1 DEF RInv, RTypeOK, Handle
<1>5. records[k] \in {"reserved", "completed"} /\ (k \notin spoilt => acted[k] \subseteq {r})
    BY <1>1 DEF RInv, RTypeOK, RecordStatuses, HolderIsAlone, HistoryFits, Free
<1>6. RTypeOK' /\ ResponsesFit'
    BY <1>2, <1>4 DEF RInv, RTypeOK, ResponsesFit, Handle, Moves
<1>7. HolderIsAlone'
    BY <1>3 DEF RInv, HolderIsAlone, Handle, Free
<1>8. HistoryFits'
  <2>1. \A i \in Keys \ spoilt : acted'[i] # {} => records[i] \in {"reserved", "completed"}
      BY <1>4, <1>5 DEF RInv, HistoryFits
  <2>2. \A q \in Requests : Holds(q) /\ request[q].key = k => q = r
      BY <1>1 DEF RInv, HolderIsAlone
  <2>3. \A q \in Requests : Holds(q) => request[q].key \in Keys
      BY DEF RInv, RTypeOK, Holds, Attended
  <2>4. \A q \in Requests :
           Holds(q) /\ request[q].key \notin spoilt => acted'[request[q].key] \subseteq {q}
      BY <1>4, <1>5, <2>2, <2>3 DEF RInv, HistoryFits
  <2> QED
      BY <1>3, <2>1, <2>4 DEF HistoryFits, Handle
<1>9. EffectOnce'
    BY <1>4, <1>5 DEF RInv, EffectOnce, Handle
<1> QED
    BY <1>6, <1>7, <1>8, <1>9 DEF RInv

(* The middleware completes or releases the record: a handler that goes on *)
(* after it finds it completed, for only a 504 leaves a handler behind.    *)
LEMMA LeaveKeeps == ASSUME RInv, NEW r \in Requests, Leave(r)
                    PROVE RInv'
<1> DEFINE k == request[r].key
<1>1. /\ Moves(r) /\ Attended(r)
      /\ request'[r].pc = "done" /\ request'[r].task = request[r].task
    BY LeavesMoves DEF RInv, Leave
<1>2. Holds(r) /\ k \in Keys /\ records[k] = "reserved" /\ (k \notin spoilt => acted[k] \subseteq {r})
  <2>1. Holds(r) /\ k \in Keys
      BY <1>1 DEF RInv, RTypeOK, ResponsesFit, Leave, Leaves, Responds, Holds, Attended, Tasks
  <2> QED
      BY <1>1, <2>1 DEF RInv, HolderIsAlone, HistoryFits
<1>3. request[r].answer = "rejected" => request[r].task = "ended"
    BY <1>1 DEF RInv, ResponsesFit, Answers
<1>4. \A q \in Requests : Holds(q)' =>
          Holds(q) /\ request'[q].key = request[q].key /\ (Attended(q)' => Attended(q))
    BY <1>1, <1>2 DEF Moves, Holds, Attended
<1>5. \A q \in Requests : Holds(q)' /\ request[q].key = k =>
          q = r /\ ~Attended(q)' /\ request[r].answer # "rejected"
    BY <1>1, <1>2, <1>3, <1>4 DEF RInv, HolderIsAlone, Holds, Attended
<1>6. /\ records' \in [Keys -> RecordStatuses]
      /\ \A i \in Keys : i # k => records'[i] = records[i]
      /\ request[r].answer # "rejected" => records'[k] = "completed"
    BY <1>2 DEF RInv, RTypeOK, Leave, Complete, Release, RecordStatuses
<1>7. /\ spoilt' \in SUBSET Keys /\ spoilt \subseteq spoilt' /\ spoilt' \subseteq spoilt \cup {k}
      /\ k \notin spoilt' => request[r].answer # "rejected" \/ acted[k] = {}
    BY <1>2 DEF RInv, RTypeOK, Leave, Spoils
<1>8. RTypeOK' /\ ResponsesFit'
    BY <1>1, <1>6, <1>7 DEF RInv, RTypeOK, ResponsesFit, Leave, Leaves, Moves
<1>9. HolderIsAlone'
  <2>1. \A q \in Requests : Holds(q)' => request[q].key \in Keys
      BY <1>4 DEF RInv, RTypeOK, Holds, Attended
  <2>2. \A q \in Requests : Holds(q)' =>
            /\ records'[request'[q].key] \notin {"absent", "expired"}
            /\ Attended(q)' => records'[request'[q].key] = "reserved"
      BY <1>4, <1>5, <1>6, <2>1 DEF RInv, HolderIsAlone, Free
  <2> QED
      BY <1>4, <2>2 DEF RInv, HolderIsAlone, Free
<1>10. HistoryFits'
  <2>1. \A i \in Keys \ spoilt' : acted[i] # {} => records'[i] \in {"reserved", "completed"}
      BY <1>6, <1>7 DEF RInv, HistoryFits
  <2>2. \A q \in Requests :
           Holds(q)' /\ request'[q].key \notin spoilt' => acted[request'[q].key] \subseteq {q}
      BY <1>4, <1>7 DEF RInv, HistoryFits
  <2> QED
      BY <2>1, <2>2 DEF HistoryFits, Leave, Leaves
<1>11. EffectOnce'
    BY <1>7 DEF RInv, EffectOnce, Leave, Leaves
<1> QED
    BY <1>8, <1>9, <1>10, <1>11 DEF RInv

LEMMA DropKeeps == ASSUME RInv, NEW S \in SUBSET Requests, Drop(S)
                   PROVE RInv'
<1>1. \A r \in S : request[r].task # "none"
    BY DEF RInv, RTypeOK, Drop, Underway, Attended
<1>2. RTypeOK' /\ ResponsesFit'
    BY <1>1 DEF RInv, RTypeOK, ResponsesFit, Drop, Points, Tasks
<1>3. \A q \in Requests : Holds(q)' =>
          /\ Holds(q) /\ request'[q].key = request[q].key
          /\ Attended(q)' => Attended(q)
    BY DEF RInv, RTypeOK, Drop, Holds, Attended
<1> QED
    BY <1>2, <1>3, FewerHolders DEF Drop

LEMMA ExpireKeeps == ASSUME RInv, NEW k \in Keys, Expire(k)
                     PROVE RInv'
<1>1. RTypeOK' /\ ResponsesFit'
    BY DEF RInv, RTypeOK, ResponsesFit, Expire, RecordStatuses
<1>2. HolderIsAlone'
    BY DEF RInv, RTypeOK, HolderIsAlone, Expire, Holds, Attended, Free
<1>3. HistoryFits'
    BY DEF RInv, RTypeOK, HistoryFits, Expire, Holds, Attended
<1>4. EffectOnce'
    BY DEF RInv, RTypeOK, EffectOnce, Expire
<1> QED
    BY <1>1, <1>2, <1>3, <1>4 DEF RInv

LEMMA NextRInv == RInv /\ [RNext]_rvars => RInv'
<1> SUFFICES ASSUME RInv, [RNext]_rvars PROVE RInv'
    OBVIOUS
<1>1. CASE UNCHANGED rvars
    BY <1>1 DEF rvars, RInv, RTypeOK, ResponsesFit, HolderIsAlone, HistoryFits, EffectOnce, Holds,
                Attended, Free
<1>2. ASSUME NEW r \in Requests, NEW k \in Keys, Arrive(r, k) PROVE RInv'
    BY <1>2, ArriveKeeps
<1>3. ASSUME NEW r \in Requests, Reserve(r) PROVE RInv'
    BY <1>3, ReserveKeeps
<1>4. ASSUME NEW r \in Requests, Conflict(r) PROVE RInv'
  <2>1. request[r].task = "reserving" /\ request[r].pc # "late"
      BY <1>4 DEF Conflict, RInv, ResponsesFit
  <2> QED
      BY <1>4, <2>1, PassedMoves, MoveKeeps DEF Conflict, RInv, Holds, Attended
<1>5. ASSUME NEW r \in Requests, ReserveLost(r) PROVE RInv'
    BY <1>5, ReserveLostKeeps
<1>6. ASSUME NEW r \in Requests, Handle(r) PROVE RInv'
    BY <1>6, HandleKeeps
<1>7. ASSUME NEW r \in Requests, Escape(r) PROVE RInv'
    BY <1>7, PassedMoves, MoveKeeps DEF Escape, RInv, Holds, Attended
<1>8. ASSUME NEW r \in Requests, TimeOut(r) PROVE RInv'
    BY <1>8, TimeOutMoves, MoveKeeps DEF RInv, TimeOut, Holds, Attended
<1>9. ASSUME NEW r \in Requests, Leave(r) PROVE RInv'
    BY <1>9, LeaveKeeps
<1>10. ASSUME NEW r \in Requests, LeaveFails(r) PROVE RInv'
    BY <1>10, LeavesMoves, MoveKeeps DEF RInv, LeaveFails, Leaves, Holds, Attended
<1>11. ASSUME NEW S \in SUBSET Requests, Drop(S) PROVE RInv'
    BY <1>11, DropKeeps
<1>12. ASSUME NEW k \in Keys, Expire(k) PROVE RInv'
    BY <1>12, ExpireKeeps
<1> QED
    BY <1>1, <1>2, <1>3, <1>4, <1>5, <1>6, <1>7, <1>8, <1>9, <1>10, <1>11, <1>12 DEF RNext

(* The inductive invariant holds in every reachable state.                 *)
THEOREM RequestsInvariance == RSpec => []RInv
<1> QED
    BY InitRInv, NextRInv, PTL DEF RSpec

(* The records and the requests keep their types.                          *)
THEOREM RequestsAreTyped == RSpec => []RTypeOK
<1>1. RInv => RTypeOK
    BY DEF RInv
<1> QED
    BY <1>1, RequestsInvariance, PTL

(* Of all requests with one key at most one is past its reservation        *)
(* (reserve, complete and release of PostgresIdempotencyStore).            *)
THEOREM HoldersStayAlone == RSpec => []HolderIsAlone
<1>1. RInv => HolderIsAlone
    BY DEF RInv
<1> QED
    BY <1>1, RequestsInvariance, PTL

(* In the life of a record only one request takes effect, unless it was    *)
(* answered with a 4xx after it did (the middleware log_requests).         *)
THEOREM EffectsAreMadeOnce == RSpec => []EffectOnce
<1>1. RInv => EffectOnce
    BY DEF RInv
<1> QED
    BY <1>1, RequestsInvariance, PTL

-----------------------------------------------------------------------------
(* User administration                                                     *)

USE MutationsAssumption

Names == {"create", "add", "remove", "disable", "enable", "reset"}
CallSet == [name: Names, role: Roles]

UTypeOK ==
    /\ pool \in [Users -> [exists: BOOLEAN, enabled: BOOLEAN, groups: SUBSET Roles]]
    /\ server \in [Requests -> Servers \cup {None}]
    /\ work \in [Requests -> [step: {"none", "guard", "write"}, todo: Seq(CallSet)]]
    /\ overlap \in BOOLEAN
    /\ broken \subseteq Users

(* A handler is at work only for a request that has its reservation.       *)
InsideHandles == \A r \in Requests : Inside(r) => request[r].task = "handling"

UInv == RInv /\ UTypeOK /\ InsideHandles

LEMMA MutationType ==
    ASSUME RTypeOK, NEW r \in Requests, request[r].task # "none"
    PROVE  /\ Mutation(r) \in Keys /\ Target(r) \in Users /\ Mutation(r).role \in Roles
           /\ Mutation(r).op \in {"create", "role", "disable", "enable", "reset"}
BY DEF RTypeOK, Mutation, Target

-----------------------------------------------------------------------------
(* The calls of a mutation                                                 *)

Has(s, c) == \E i \in 1..Len(s) : s[i] = c

LEMMA HasConcat ==
    ASSUME NEW S, NEW s \in Seq(S), NEW t \in Seq(S), NEW c
    PROVE  Has(s \o t, c) <=> Has(s, c) \/ Has(t, c)
<1>1. /\ Len(s \o t) = Len(s) + Len(t) /\ Len(s) \in Nat /\ Len(t) \in Nat
      /\ \A i \in 1..Len(s) : (s \o t)[i] = s[i]
      /\ \A i \in 1..Len(t) : (s \o t)[Len(s) + i] = t[i]
    OBVIOUS
<1>2. Has(s, c) => Has(s \o t, c)
    BY <1>1 DEF Has
<1>3. ASSUME NEW i \in 1..Len(t), t[i] = c PROVE Has(s \o t, c)
  <2>1. Len(s) + i \in 1..Len(s \o t) /\ (s \o t)[Len(s) + i] = c
      BY <1>1, <1>3
  <2> QED
      BY <2>1 DEF Has
<1>4. ASSUME NEW i \in 1..Len(s \o t), (s \o t)[i] = c PROVE Has(s, c) \/ Has(t, c)
  <2>1. CASE i \in 1..Len(s)
      BY <1>1, <1>4, <2>1 DEF Has
  <2>2. CASE i \notin 1..Len(s)
    <3>1. i - Len(s) \in 1..Len(t) /\ t[i - Len(s)] = c
        BY <1>1, <1>4, <2>2
    <3> QED
        BY <3>1 DEF Has
  <2> QED
      BY <2>1, <2>2
<1> QED
    BY <1>2, <1>3, <1>4 DEF Has

(* A sequence without its first call.                                      *)
LEMMA HasTail ==
    ASSUME NEW S, NEW s \in Seq(S), s # <<>>
    PROVE  /\ Tail(s) \in Seq(S) /\ Head(s) \in S /\ Has(s, Head(s))
           /\ \A c : Has(s, c) => c = Head(s) \/ Has(Tail(s), c)
           /\ \A c : Has(Tail(s), c) => Has(s, c)
<1>1. /\ Len(s) \in Nat \ {0} /\ Len(Tail(s)) = Len(s) - 1 /\ Head(s) = s[1]
      /\ \A i \in 1..Len(Tail(s)) : Tail(s)[i] = s[i + 1]
    OBVIOUS
<1>2. ASSUME NEW i \in 1..Len(s) PROVE s[i] = Head(s) \/ Has(Tail(s), s[i])
  <2>1. CASE i = 1
      BY <1>1, <2>1
  <2>2. CASE i # 1
    <3>1. i - 1 \in 1..Len(Tail(s)) /\ Tail(s)[i - 1] = s[i]
        BY <1>1, <2>2
    <3> QED
        BY <3>1 DEF Has
  <2> QED
      BY <2>1, <2>2
<1>3. \A i \in 1..Len(Tail(s)) : i + 1 \in 1..Len(s)
    BY <1>1
<1>4. 1 \in 1..Len(s)
    BY <1>1
<1> QED
    BY <1>1, <1>2, <1>3, <1>4 DEF Has

LEMMA RemovalsHas ==
    ASSUME NEW groups \in SUBSET Roles
    PROVE  /\ Removals(groups) \in Seq(CallSet)
           /\ \A c : Has(Removals(groups), c) <=> \E g \in groups : c = Call("remove", g)
<1> DEFINE R(g) == IF g \in groups THEN <<Call("remove", g)>> ELSE <<>>
<1>1. ASSUME NEW g \in Roles
      PROVE  /\ R(g) \in Seq(CallSet)
             /\ \A c : Has(R(g), c) <=> g \in groups /\ c = Call("remove", g)
  <2>1. Call("remove", g) \in CallSet
      BY DEF Call, CallSet, Names
  <2>2. CASE g \in groups
    <3>1. R(g) = <<Call("remove", g)>>
        BY <2>2
    <3>2. Len(R(g)) = 1 /\ R(g)[1] = Call("remove", g) /\ R(g) \in Seq(CallSet)
        BY <3>1, <2>1
    <3> QED
        BY <2>2, <3>2 DEF Has
  <2>3. CASE g \notin groups
    <3>1. R(g) = <<>>
        BY <2>3
    <3> QED
        BY <2>3, <3>1 DEF Has
  <2> QED
      BY <2>2, <2>3
<1>2. Removals(groups) = (R("admin") \o R("customer")) \o R("operator")
    BY DEF Removals
<1>3. "admin" \in Roles /\ "customer" \in Roles /\ "operator" \in Roles
    BY DEF Roles
<1> HIDE DEF R
<1>4. /\ R("admin") \o R("customer") \in Seq(CallSet)
      /\ \A c : Has(R("admin") \o R("customer"), c) <=> Has(R("admin"), c) \/ Has(R("customer"), c)
    BY <1>1, <1>3, HasConcat
<1>5. /\ Removals(groups) \in Seq(CallSet)
      /\ \A c : Has(Removals(groups), c) <=>
              Has(R("admin") \o R("customer"), c) \/ Has(R("operator"), c)
  <2> DEFINE first == R("admin") \o R("customer")
  <2>1. /\ R("operator") \in Seq(CallSet) /\ first \in Seq(CallSet)
        /\ Removals(groups) = first \o R("operator")
      BY <1>1, <1>2, <1>3, <1>4
  <2> HIDE DEF first
  <2>2. \A c : Has(first \o R("operator"), c) <=> Has(first, c) \/ Has(R("operator"), c)
      BY <2>1, HasConcat
  <2>3. first \o R("operator") \in Seq(CallSet)
      BY <2>1
  <2> QED
      BY <2>1, <2>2, <2>3 DEF first
<1> QED
    BY <1>1, <1>3, <1>4, <1>5 DEF Roles

LEMMA CallsType ==
    ASSUME UTypeOK, NEW m \in Keys
    PROVE  /\ Calls(m) \in Seq(CallSet)
           /\ m.op = "create" => Calls(m) = <<Call("create", m.role), Call("add", m.role)>>
           /\ m.op = "disable" => Calls(m) = <<Call("disable", m.role)>>
           /\ m.op \in {"enable", "reset"} => Calls(m) = <<Call(m.op, m.role)>>
           /\ m.op = "role" => \A c : Has(Calls(m), c) <=>
                  \/ m.role \notin pool[m.user].groups /\ c = Call("add", m.role)
                  \/ \E g \in pool[m.user].groups \ {m.role} : c = Call("remove", g)
<1> DEFINE groups == pool[m.user].groups
<1>1. /\ m.user \in Users /\ m.role \in Roles /\ groups \in SUBSET Roles
      /\ m.op \in {"create", "role", "disable", "enable", "reset"}
    BY DEF UTypeOK
<1>2. \A n \in Names : Call(n, m.role) \in CallSet
    BY <1>1 DEF Call, CallSet
<1>3. CASE m.op = "create"
  <2>1. Calls(m) = <<Call("create", m.role), Call("add", m.role)>>
      BY <1>3 DEF Calls
  <2> QED
      BY <1>2, <1>3, <2>1 DEF Names
<1>4. CASE m.op \in {"disable", "enable", "reset"}
  <2>1. Calls(m) = <<Call(m.op, m.role)>>
      BY <1>4 DEF Calls
  <2> QED
      BY <1>2, <1>4, <2>1 DEF Names
<1>5. CASE m.op = "role"
  <2> DEFINE first == IF m.role \in groups THEN <<>> ELSE <<Call("add", m.role)>>
             rest == Removals(groups \ {m.role})
  <2>1. Calls(m) = first \o rest
      BY <1>5 DEF Calls
  <2>2. first \in Seq(CallSet)
      BY <1>2 DEF Names
  <2>3. \A c : Has(first, c) <=> m.role \notin groups /\ c = Call("add", m.role)
    <3>1. CASE m.role \in groups
      <4>1. first = <<>>
          BY <3>1
      <4> QED
          BY <3>1, <4>1 DEF Has
    <3>2. CASE m.role \notin groups
      <4>1. first = <<Call("add", m.role)>>
          BY <3>2
      <4>2. Len(first) = 1 /\ first[1] = Call("add", m.role)
          BY <4>1
      <4> QED
          BY <3>2, <4>2 DEF Has
    <3> QED
        BY <3>1, <3>2
  <2>4. /\ rest \in Seq(CallSet)
        /\ \A c : Has(rest, c) <=> \E g \in groups \ {m.role} : c = Call("remove", g)
      BY <1>1, RemovalsHas
  <2> HIDE DEF first, rest
  <2>5. /\ first \o rest \in Seq(CallSet)
        /\ \A c : Has(first \o rest, c) <=> Has(first, c) \/ Has(rest, c)
      BY <2>2, <2>4, HasConcat
  <2> QED
      BY <1>5, <2>1, <2>3, <2>4, <2>5
<1> QED
    BY <1>1, <1>3, <1>4, <1>5

-----------------------------------------------------------------------------
(* Every step is one of RequestIdempotency                                 *)

LEMMA InitUInv == UInit => UInv
<1> SUFFICES ASSUME UInit PROVE UInv
    OBVIOUS
<1>1. RInv
    BY InitRInv DEF UInit
<1>2. <<>> \in Seq(CallSet) /\ "admin" \in Roles
    BY DEF Roles
<1>3. UTypeOK /\ InsideHandles
    BY <1>2 DEF UInit, UTypeOK, NoUser, NoWork, InsideHandles, Inside
<1> QED
    BY <1>1, <1>3 DEF UInv

(* A handler that answers, with or without a last effect.                  *)
LEMMA EndsIsHandle ==
    ASSUME NEW r \in Requests, request[r].task = "handling", NEW a \in Answers, Ends(r, a),
           acted' \in {acted, [acted EXCEPT ![Mutation(r)] = @ \cup {r}]},
           UNCHANGED <<records, spoilt>>
    PROVE  Handle(r)
BY DEF Ends, Handle, Mutation

LEMMA HandlerIsHandle ==
    ASSUME UInv, NEW r \in Requests, Handler(r)
    PROVE  Handle(r) \/ Escape(r) \/ UNCHANGED rvars
<1>1. {"ok", "rejected", "failed"} \subseteq Answers
    BY DEF Answers
<1>2. Inside(r) => request[r].task = "handling"
    BY DEF UInv, InsideHandles
<1>3. CASE Begin(r)
    BY <1>1, <1>3, EndsIsHandle DEF Begin, rvars
<1>4. CASE BeginFails(r)
    BY <1>1, <1>4, EndsIsHandle DEF BeginFails, Escapes
<1>5. CASE Guard(r)
  <2>1. Inside(r)
      BY <1>5 DEF Guard, Inside
  <2> QED
      BY <1>1, <1>2, <1>5, <2>1, EndsIsHandle DEF Guard, rvars
<1>6. CASE Write(r)
  <2>1. Inside(r)
      BY <1>6 DEF Write, Inside
  <2> QED
      BY <1>2, <1>6, <2>1 DEF Write, Applies, Handle, Mutation
<1>7. CASE Finish(r)
  <2>1. Inside(r)
      BY <1>7 DEF Finish, Inside
  <2> QED
      BY <1>1, <1>2, <1>7, <2>1, EndsIsHandle DEF Finish
<1>8. CASE CallFails(r)
    BY <1>1, <1>2, <1>8, EndsIsHandle DEF CallFails, Applies, Escapes
<1> QED
    BY <1>3, <1>4, <1>5, <1>6, <1>7, <1>8 DEF Handler

LEMMA UNextIsRNext == ASSUME UInv, UNext \/ UNCHANGED vars PROVE [RNext]_rvars
<1>1. CASE \E u \in Users : SignIn(u)
    BY <1>1 DEF SignIn
<1>2. CASE \E r \in Requests, k \in Keys, s \in Servers : Send(r, k, s)
    BY <1>2 DEF Send, RNext
<1>3. CASE \E r \in Requests : Middleware(r)
    BY <1>3 DEF Middleware, RNext
<1>4. CASE \E r \in Requests : Handler(r)
    BY <1>4, HandlerIsHandle DEF RNext
<1>5. ASSUME NEW s \in Servers, Stop(s) PROVE RNext
  <2>1. {r \in Requests : server[r] = s /\ Underway(r)} \in SUBSET Requests
      OBVIOUS
  <2> QED
      BY <1>5, <2>1 DEF Stop, RNext
<1>6. CASE \E k \in Keys : Expire(k) /\ UNCHANGED uvars
    BY <1>6 DEF RNext
<1>7. CASE UNCHANGED vars
    BY <1>7 DEF vars
<1> QED
    BY <1>1, <1>2, <1>3, <1>4, <1>5, <1>6, <1>7 DEF UNext

-----------------------------------------------------------------------------
(* The handlers keep their types and their reservations                    *)

LEMMA AppliedType ==
    ASSUME UTypeOK, NEW u \in Users, NEW c \in CallSet
    PROVE  Applied(u, c) \in [exists: BOOLEAN, enabled: BOOLEAN, groups: SUBSET Roles]
<1>1. pool[u] \in [exists: BOOLEAN, enabled: BOOLEAN, groups: SUBSET Roles]
    BY DEF UTypeOK
<1>2. c.name \in Names /\ c.role \in Roles
    BY DEF CallSet
<1>3. CASE c.name = "create"
    BY <1>3 DEF Applied
<1>4. CASE c.name = "add"
    BY <1>1, <1>2, <1>4 DEF Applied
<1>5. CASE c.name = "remove"
    BY <1>1, <1>5 DEF Applied
<1>6. CASE c.name \in {"disable", "enable", "reset"}
    BY <1>1, <1>6 DEF Applied
<1> QED
    BY <1>2, <1>3, <1>4, <1>5, <1>6 DEF Names

(* The next call of a handler, and what it leaves to do.                   *)
LEMMA NextCall ==
    ASSUME UTypeOK, NEW r \in Requests, work[r].todo # <<>>
    PROVE  /\ Head(work[r].todo) \in CallSet /\ Tail(work[r].todo) \in Seq(CallSet)
           /\ \A c : Has(work[r].todo, c) =>
                  c = Head(work[r].todo) \/ Has(Tail(work[r].todo), c)
           /\ \A c : Has(Tail(work[r].todo), c) => Has(work[r].todo, c)
           /\ Has(work[r].todo, Head(work[r].todo))
<1>1. work[r].todo \in Seq(CallSet)
    BY DEF UTypeOK
<1> QED
    BY <1>1, HasTail

LEMMA AppliesType ==
    ASSUME UInv, NEW r \in Requests, Inside(r), work[r].todo # <<>>, Applies(r)
    PROVE  pool' \in [Users -> [exists: BOOLEAN, enabled: BOOLEAN, groups: SUBSET Roles]]
<1>1. Target(r) \in Users
    BY MutationType DEF UInv, RInv, InsideHandles
<1>2. Applied(Target(r), Head(work[r].todo))
          \in [exists: BOOLEAN, enabled: BOOLEAN, groups: SUBSET Roles]
    BY <1>1, AppliedType, NextCall DEF UInv
<1> QED
    BY <1>1, <1>2 DEF Applies, UInv, UTypeOK

(* What a step of a handler does to where it is.                           *)
LEMMA ProceedsType ==
    ASSUME UTypeOK, NEW r \in Requests, NEW p \in {"guard", "write"}, NEW t \in Seq(CallSet),
           Proceeds(r, p, t)
    PROVE  /\ work' \in [Requests -> [step: {"none", "guard", "write"}, todo: Seq(CallSet)]]
           /\ work'[r] = [step |-> p, todo |-> t]
           /\ \A q \in Requests \ {r} : work'[q] = work[q]
BY DEF UTypeOK, Proceeds

LEMMA NoWorkType ==
    ASSUME UTypeOK, NEW r \in Requests, work' = [work EXCEPT ![r] = NoWork]
    PROVE  /\ work' \in [Requests -> [step: {"none", "guard", "write"}, todo: Seq(CallSet)]]
           /\ work'[r] = NoWork
           /\ \A q \in Requests \ {r} : work'[q] = work[q]
<1>1. NoWork \in [step: {"none", "guard", "write"}, todo: Seq(CallSet)]
    BY DEF NoWork
<1> QED
    BY <1>1 DEF UTypeOK

(* A handler that goes on, and one that ends.                              *)
LEMMA GoesOn ==
    ASSUME UInv, NEW r \in Requests, request[r].task = "handling", UNCHANGED request,
           \A q \in Requests \ {r} : work'[q] = work[q]
    PROVE  InsideHandles'
BY DEF UInv, InsideHandles, Inside

LEMMA Ending ==
    ASSUME UInv, NEW r \in Requests, work' = [work EXCEPT ![r] = NoWork],
           \A q \in Requests \ {r} : request'[q] = request[q]
    PROVE  InsideHandles'
BY NoWorkType DEF UInv, InsideHandles, Inside, NoWork

LEMMA OthersWait ==
    ASSUME UInv, NEW r \in Requests, NEW a, Ended(r, a) \/ Passed(r)
    PROVE  \A q \in Requests \ {r} : request'[q] = request[q]
BY DEF UInv, RInv, RTypeOK, Ended, Passed

LEMMA BeginKeeps == ASSUME UInv, NEW r \in Requests, Begin(r) PROVE UTypeOK' /\ InsideHandles'
<1> DEFINE m == Mutation(r)
<1>1. m \in Keys /\ request[r].task = "handling"
    BY MutationType DEF Begin, UInv, RInv
<1>2. overlap' \in BOOLEAN /\ UNCHANGED <<pool, server, broken>>
    BY DEF Begin, UInv, UTypeOK
<1>3. CASE Proceeds(r, IF IsGuarded(m) THEN "guard" ELSE "write", Calls(m)) /\ UNCHANGED request
  <2>1. Calls(m) \in Seq(CallSet) /\ UTypeOK
      BY <1>1, CallsType DEF UInv
  <2> HIDE DEF m
  <2>2. /\ work' \in [Requests -> [step: {"none", "guard", "write"}, todo: Seq(CallSet)]]
        /\ \A q \in Requests \ {r} : work'[q] = work[q]
      BY <1>3, <2>1, ProceedsType
  <2> QED
      BY <1>1, <1>2, <1>3, <2>1, <2>2, GoesOn DEF UTypeOK
<1>4. CASE Ends(r, "rejected")
    BY <1>2, <1>4, NoWorkType, Ending, OthersWait DEF Ends, UInv, UTypeOK
<1> QED
    BY <1>3, <1>4 DEF Begin

LEMMA WriteKeeps == ASSUME UInv, NEW r \in Requests, Write(r) PROVE UTypeOK' /\ InsideHandles'
<1>1. Inside(r) /\ request[r].task = "handling" /\ Target(r) \in Users
    BY MutationType DEF Write, Inside, UInv, InsideHandles, RInv
<1>2. /\ work' \in [Requests -> [step: {"none", "guard", "write"}, todo: Seq(CallSet)]]
      /\ \A q \in Requests \ {r} : work'[q] = work[q]
    BY ProceedsType, NextCall DEF Write, UInv
<1> QED
    BY <1>1, <1>2, AppliesType, GoesOn DEF Write, Breaks, UInv, UTypeOK

LEMMA CallFailsKeeps ==
    ASSUME UInv, NEW r \in Requests, CallFails(r)
    PROVE  UTypeOK' /\ InsideHandles'
<1>1. Inside(r) /\ request[r].task = "handling" /\ Target(r) \in Users
    BY MutationType DEF CallFails, UInv, InsideHandles, RInv
<1>2. work' = [work EXCEPT ![r] = NoWork] /\ \A q \in Requests \ {r} : request'[q] = request[q]
    BY OthersWait DEF CallFails, Ends, Escapes, Escape
<1>3. pool' \in [Users -> [exists: BOOLEAN, enabled: BOOLEAN, groups: SUBSET Roles]]
    BY <1>1, AppliesType DEF CallFails, UInv, UTypeOK
<1>4. broken' \subseteq Users /\ UNCHANGED <<server, overlap>>
    BY <1>1 DEF CallFails, Breaks, UInv, UTypeOK
<1> QED
    BY <1>2, <1>3, <1>4, NoWorkType, Ending DEF UInv, UTypeOK

LEMMA HandlerKeeps == ASSUME UInv, NEW r \in Requests, Handler(r) PROVE UTypeOK' /\ InsideHandles'
<1>1. CASE BeginFails(r)
  <2>1. work' = [work EXCEPT ![r] = NoWork] /\ \A q \in Requests \ {r} : request'[q] = request[q]
      BY <1>1, OthersWait DEF BeginFails, Ends, Escapes, Escape
  <2> QED
      BY <1>1, <2>1, NoWorkType, Ending DEF BeginFails, UInv, UTypeOK
<1>2. CASE Guard(r)
  <2>1. request[r].task = "handling" /\ work[r].todo \in Seq(CallSet)
      BY <1>2 DEF Guard, UInv, InsideHandles, Inside, UTypeOK
  <2>2. CASE Ends(r, "rejected")
      BY <1>2, <2>2, NoWorkType, Ending, OthersWait DEF Guard, Ends, UInv, UTypeOK
  <2>3. CASE Proceeds(r, "write", work[r].todo) /\ UNCHANGED request
      BY <1>2, <2>1, <2>3, ProceedsType, GoesOn DEF Guard, UInv, UTypeOK
  <2> QED
      BY <1>2, <2>2, <2>3 DEF Guard
<1>3. CASE Finish(r)
  <2>1. work' = [work EXCEPT ![r] = NoWork] /\ \A q \in Requests \ {r} : request'[q] = request[q]
      BY <1>3, OthersWait DEF Finish, Ends
  <2> QED
      BY <1>3, <2>1, NoWorkType, Ending DEF Finish, UInv, UTypeOK
<1> QED
    BY <1>1, <1>2, <1>3, BeginKeeps, WriteKeeps, CallFailsKeeps DEF Handler

(* The middleware moves a request only when no handler is at work for it.  *)
LEMMA MiddlewareKeeps ==
    ASSUME UInv, NEW r \in Requests, Middleware(r)
    PROVE  UTypeOK' /\ InsideHandles'
<1>1. ~Inside(r) /\ UNCHANGED uvars
    BY DEF Middleware, Busy
<1>2. \A q \in Requests \ {r} : request'[q] = request[q]
    BY OthersWait
       DEF Middleware, Reserve, Conflict, ReserveLost, TimeOut, Leave, LeaveFails, Leaves, UInv,
           RInv, RTypeOK
<1> QED
    BY <1>1, <1>2 DEF UInv, UTypeOK, InsideHandles, Inside, uvars

LEMMA StopKeeps == ASSUME UInv, NEW s \in Servers, Stop(s) PROVE UTypeOK' /\ InsideHandles'
<1>1. NoWork \in [step: {"none", "guard", "write"}, todo: Seq(CallSet)] /\ NoWork.step = "none"
    BY DEF NoWork
<1>2. \A q \in Requests : work'[q] = IF server[q] = s THEN NoWork ELSE work[q]
    BY DEF Stop
<1>3. \A q \in Requests : server[q] # s => request'[q] = request[q]
    BY DEF Stop, Drop
<1>4. InsideHandles'
    BY <1>1, <1>2, <1>3 DEF UInv, InsideHandles, Inside
<1> QED
    BY <1>1, <1>4 DEF Stop, UInv, UTypeOK

LEMMA NextUInv == UInv /\ [UNext]_vars => UInv'
<1> SUFFICES ASSUME UInv, [UNext]_vars PROVE UInv'
    OBVIOUS
<1>1. RInv'
    BY UNextIsRNext, NextRInv DEF UInv
<1>2. CASE \E u \in Users : SignIn(u)
    BY <1>1, <1>2 DEF SignIn, UInv, UTypeOK, InsideHandles, Inside, rvars
<1>3. ASSUME NEW r \in Requests, NEW k \in Keys, NEW s \in Servers, Send(r, k, s) PROVE UInv'
  <2>1. ~Inside(r) /\ \A q \in Requests \ {r} : request'[q] = request[q]
      BY <1>3 DEF Send, Arrive, UInv, InsideHandles, RInv, RTypeOK
  <2> QED
      BY <1>1, <1>3, <2>1 DEF Send, UInv, UTypeOK, InsideHandles, Inside
<1>4. ASSUME NEW r \in Requests, Middleware(r) \/ Handler(r) PROVE UInv'
    BY <1>1, <1>4, MiddlewareKeeps, HandlerKeeps DEF UInv
<1>5. ASSUME NEW s \in Servers, Stop(s) PROVE UInv'
    BY <1>1, <1>5, StopKeeps DEF UInv
<1>6. ASSUME NEW k \in Keys, Expire(k), UNCHANGED uvars PROVE UInv'
    BY <1>1, <1>6 DEF Expire, UInv, UTypeOK, InsideHandles, Inside, uvars
<1>7. CASE UNCHANGED vars
    BY <1>1, <1>7 DEF UInv, UTypeOK, InsideHandles, Inside, vars, rvars, uvars
<1> QED
    BY <1>2, <1>3, <1>4, <1>5, <1>6, <1>7 DEF UNext

-----------------------------------------------------------------------------
(* While no two handlers overlap                                           *)

IsActiveAdmin(u) == "admin" \in pool[u].groups /\ pool[u].enabled

(* An active administrator other than u.                                   *)
OthersStay(u) == \E v \in Users \ {u} : IsActiveAdmin(v)

(* Calls that take no administrator away from an existing user.            *)
Harmless(todo) ==
    \A c \in CallSet : Has(todo, c) => c.name # "disable" /\ (c.name = "remove" => c.role # "admin")

(* What is left of a mutation agrees with what its user x has become: when *)
(* nothing is left, x has the new role and no other.                       *)
Fits(x, m, todo) ==
    /\ m.op # "create" => x.exists
    /\ m.op = "create" =>
           \/ todo = <<Call("create", m.role), Call("add", m.role)>>
           \/ x.exists /\ todo = <<Call("add", m.role)>> /\ x.groups = {}
           \/ x.exists /\ todo = <<>> /\ x.groups = {m.role}
    /\ m.op = "role" =>
           /\ \A c : Has(todo, c) => c = Call("add", m.role)
                                    \/ \E g \in Roles \ {m.role} : c = Call("remove", g)
           /\ \A g \in x.groups : g = m.role \/ Has(todo, Call("remove", g))
           /\ m.role \in x.groups \/ Has(todo, Call("add", m.role))
    /\ m.op \in {"disable", "enable", "reset"} =>
           \A c : Has(todo, c) => c.name \in {"disable", "enable", "reset"}

AbsentAreEmpty == \A u \in Users : ~pool[u].exists => pool[u].groups = {}

AloneInside == \A q, r \in Requests : Inside(q) /\ Inside(r) => q = r

HandlersFit ==
    \A r \in Requests : Inside(r) =>
        /\ Fits(pool[Target(r)], Mutation(r), work[r].todo)
        /\ work[r].step = "write" => OthersStay(Target(r)) \/ Harmless(work[r].todo)

SingleRoles ==
    \A u \in Users :
        pool[u].exists /\ u \notin broken => \E role \in Roles : pool[u].groups = {role}

Solo == LastAdminStays /\ AbsentAreEmpty /\ AloneInside /\ HandlersFit /\ SingleRoles

SoloInv == UInv /\ (~overlap => Solo)

LEMMA InitSoloInv == UInit => SoloInv
<1> SUFFICES ASSUME UInit PROVE SoloInv
    OBVIOUS
<1>1. UInv
    BY InitUInv
<1>2. "admin" \in Roles /\ Founders # {} /\ Founders \subseteq Users
    BY FoundersAssumption DEF Roles
<1>3. LastAdminStays /\ AbsentAreEmpty /\ SingleRoles
    BY <1>2 DEF UInit, LastAdminStays, AbsentAreEmpty, SingleRoles, NoUser
<1>4. AloneInside /\ HandlersFit
    BY DEF UInit, AloneInside, HandlersFit, Inside, NoWork
<1> QED
    BY <1>1, <1>3, <1>4 DEF SoloInv, Solo

(* A handler begins: its calls fit the groups it reads, and one that skips *)
(* the guard takes no administrator away or not from an active one.        *)
LEMMA CallsFit ==
    ASSUME UTypeOK, NEW m \in Keys, m.op = "create" \/ pool[m.user].exists, LastAdminStays
    PROVE  /\ Fits(pool[m.user], m, Calls(m))
           /\ ~IsGuarded(m) => OthersStay(m.user) \/ Harmless(Calls(m))
<1> DEFINE groups == pool[m.user].groups
<1>1. /\ m.user \in Users /\ m.role \in Roles /\ groups \in SUBSET Roles
      /\ m.op \in {"create", "role", "disable", "enable", "reset"}
    BY DEF UTypeOK
<1>2. "admin" \notin groups => OthersStay(m.user)
    BY DEF LastAdminStays, OthersStay, IsActiveAdmin
<1>3. CASE m.op = "create"
  <2>1. Calls(m) = <<Call("create", m.role), Call("add", m.role)>>
      BY <1>3, CallsType
  <2>2. \A c : Has(Calls(m), c) => c.name \in {"create", "add"}
      BY <2>1 DEF Has, Call
  <2> QED
      BY <1>3, <2>1, <2>2 DEF Fits, Harmless
<1>4. CASE m.op \in {"disable", "enable", "reset"}
  <2>1. Calls(m) = <<Call(m.op, m.role)>>
      BY <1>4, CallsType
  <2>2. \A c : Has(Calls(m), c) => c.name = m.op
      BY <2>1 DEF Has, Call
  <2>3. Fits(pool[m.user], m, Calls(m))
      BY <1>4, <2>2 DEF Fits
  <2>4. m.op # "disable" => Harmless(Calls(m))
      BY <1>4, <2>2 DEF Harmless
  <2> QED
      BY <1>2, <2>3, <2>4 DEF IsGuarded
<1>5. CASE m.op = "role"
  <2>1. \A c : Has(Calls(m), c) <=>
            \/ m.role \notin groups /\ c = Call("add", m.role)
            \/ \E g \in groups \ {m.role} : c = Call("remove", g)
      BY <1>5, CallsType
  <2>2. Fits(pool[m.user], m, Calls(m))
      BY <1>1, <1>5, <2>1 DEF Fits
  <2>3. m.role = "admin" => Harmless(Calls(m))
      BY <2>1 DEF Harmless, Call
  <2> QED
      BY <1>2, <1>5, <2>2, <2>3 DEF IsGuarded
<1> QED
    BY <1>1, <1>3, <1>4, <1>5

(* _protect_admin_change lets a change through when another active         *)
(* administrator remains.                                                  *)
LEMMA GuardFinds ==
    ASSUME LastAdminStays, NEW u \in Users, ~(u \in ActiveAdmins /\ Cardinality(ActiveAdmins) <= 1)
    PROVE  OthersStay(u)
<1>1. PICK v \in Users : v \in ActiveAdmins
    BY DEF LastAdminStays, ActiveAdmins
<1>2. CASE u \notin ActiveAdmins
    BY <1>1, <1>2 DEF OthersStay, IsActiveAdmin, ActiveAdmins
<1>3. CASE u \in ActiveAdmins
  <2>1. Cardinality({u}) = 1
      BY FS_Singleton
  <2>2. ActiveAdmins # {u}
      BY <1>3, <2>1
  <2> QED
      BY <1>3, <2>2 DEF OthersStay, IsActiveAdmin, ActiveAdmins
<1> QED
    BY <1>2, <1>3

(* One call of a mutation, made by the handler that runs alone.            *)
LEMMA CallKeeps ==
    ASSUME UTypeOK, LastAdminStays, AbsentAreEmpty, NEW m \in Keys, NEW todo \in Seq(CallSet),
           todo # <<>>, Fits(pool[m.user], m, todo), OthersStay(m.user) \/ Harmless(todo),
           ~(Head(todo).name = "create" /\ pool[m.user].exists),
           pool' = [pool EXCEPT ![m.user] = Applied(m.user, Head(todo))]
    PROVE  /\ LastAdminStays' /\ AbsentAreEmpty'
           /\ Fits(pool'[m.user], m, Tail(todo))
           /\ OthersStay(m.user)' \/ Harmless(Tail(todo))
           /\ m.op \notin {"create", "role"} =>
                  pool[m.user].exists /\ pool'[m.user].groups = pool[m.user].groups
<1> DEFINE u == m.user
           c == Head(todo)
           t == Tail(todo)
           x == Applied(u, c)
<1>1. /\ u \in Users /\ m.role \in Roles
      /\ m.op \in {"create", "role", "disable", "enable", "reset"}
    BY DEF UTypeOK
<1>2. /\ c \in CallSet /\ t \in Seq(CallSet) /\ Has(todo, c)
      /\ \A d : Has(todo, d) => d = c \/ Has(t, d)
      /\ \A d : Has(t, d) => Has(todo, d)
    BY HasTail
<1>3. pool'[u] = x /\ \A v \in Users \ {u} : pool'[v] = pool[v]
    BY <1>1 DEF UTypeOK
<1>4. pool[u] \in [exists: BOOLEAN, enabled: BOOLEAN, groups: SUBSET Roles]
    BY <1>1 DEF UTypeOK
<1>5. c.name \in Names /\ c.role \in Roles
    BY <1>2 DEF CallSet
<1>6. /\ c.name = "create" => x.exists /\ x.groups = {} /\ ~pool[u].exists
      /\ c.name = "add" => /\ x.exists = pool[u].exists /\ x.enabled = pool[u].enabled
                           /\ x.groups = pool[u].groups \cup {c.role}
      /\ c.name = "remove" => /\ x.exists = pool[u].exists /\ x.enabled = pool[u].enabled
                              /\ x.groups = pool[u].groups \ {c.role}
      /\ c.name = "disable" => x.exists = pool[u].exists /\ x.groups = pool[u].groups
      /\ c.name \in {"enable", "reset"} =>
             /\ x.exists = pool[u].exists /\ x.groups = pool[u].groups
             /\ pool[u].enabled => x.enabled
    BY <1>4 DEF Applied
<1> HIDE DEF u, c, t, x
<1>7. OthersStay(u) => OthersStay(u)'
    BY <1>3 DEF OthersStay, IsActiveAdmin
<1>8. OthersStay(u)' \/ (Harmless(t) /\ IsActiveAdmin(u)')
  <2>1. CASE OthersStay(u)
      BY <1>7, <2>1
  <2>2. CASE ~OthersStay(u)
    <3>1. Harmless(todo) /\ c.name # "disable" /\ (c.name = "remove" => c.role # "admin")
        BY <1>2, <2>2 DEF Harmless, u
    <3>2. Harmless(t)
        BY <1>2, <3>1 DEF Harmless
    <3>3. IsActiveAdmin(u)
        BY <2>2 DEF LastAdminStays, OthersStay, IsActiveAdmin
    <3>4. c.name # "create"
        BY <1>1, <1>6, <3>3 DEF AbsentAreEmpty, IsActiveAdmin
    <3>5. IsActiveAdmin(u)'
        BY <1>3, <1>5, <1>6, <3>1, <3>3, <3>4 DEF IsActiveAdmin, Names
    <3> QED
        BY <3>2, <3>5
  <2> QED
      BY <2>1, <2>2
<1>9. LastAdminStays'
    BY <1>1, <1>8 DEF LastAdminStays, OthersStay, IsActiveAdmin
<1>10. Fits(x, m, t)
  <2>1. CASE m.op = "create"
    <3>1. CASE todo = <<Call("create", m.role), Call("add", m.role)>>
      <4>1. c = Call("create", m.role) /\ t = <<Call("add", m.role)>>
          BY <3>1 DEF c, t
      <4> QED
          BY <1>6, <2>1, <4>1 DEF Fits, Call
    <3>2. CASE pool[u].exists /\ todo = <<Call("add", m.role)>> /\ pool[u].groups = {}
      <4>1. c = Call("add", m.role) /\ t = <<>>
          BY <3>2 DEF c, t
      <4> QED
          BY <1>6, <2>1, <3>2, <4>1 DEF Fits, Call
    <3> QED
        BY <2>1, <3>1, <3>2 DEF Fits, u
  <2>2. CASE m.op = "role"
    <3>1. /\ pool[u].exists
          /\ \A d : Has(todo, d) => d = Call("add", m.role)
                                   \/ \E g \in Roles \ {m.role} : d = Call("remove", g)
          /\ \A g \in pool[u].groups : g = m.role \/ Has(todo, Call("remove", g))
          /\ m.role \in pool[u].groups \/ Has(todo, Call("add", m.role))
        BY <2>2 DEF Fits, u
    <3>2. CASE c = Call("add", m.role)
      <4>1. x.exists /\ x.groups = pool[u].groups \cup {m.role}
          BY <1>6, <3>1, <3>2 DEF Call
      <4>2. \A g : Call("remove", g) # c
          BY <3>2 DEF Call
      <4> QED
          BY <1>2, <2>2, <3>1, <4>1, <4>2 DEF Fits
    <3>3. ASSUME NEW g \in Roles \ {m.role}, c = Call("remove", g) PROVE Fits(x, m, t)
      <4>1. x.exists /\ x.groups = pool[u].groups \ {g}
          BY <1>6, <3>1, <3>3 DEF Call
      <4>2. Call("add", m.role) # c /\ \A h : Call("remove", h) = c => h = g
          BY <3>3 DEF Call
      <4> QED
          BY <1>2, <2>2, <3>1, <4>1, <4>2 DEF Fits
    <3> QED
        BY <1>2, <3>1, <3>2, <3>3
  <2>3. CASE m.op \in {"disable", "enable", "reset"}
    <3>1. \A d : Has(todo, d) => d.name \in {"disable", "enable", "reset"}
        BY <2>3 DEF Fits
    <3>2. x.exists
        BY <1>2, <1>6, <2>3, <3>1 DEF Fits, u
    <3> QED
        BY <1>2, <2>3, <3>1, <3>2 DEF Fits
  <2> QED
      BY <1>1, <2>1, <2>2, <2>3
<1>11. AbsentAreEmpty'
  <2>1. pool[u].exists \/ c.name = "create"
    <3>1. m.op # "create" => pool[u].exists
        BY DEF Fits, u
    <3>2. CASE todo = <<Call("create", m.role), Call("add", m.role)>>
      <4>1. c = Call("create", m.role)
          BY <3>2 DEF c
      <4> QED
          BY <4>1 DEF Call
    <3> QED
        BY <3>1, <3>2 DEF Fits, u
  <2>2. x.exists
      BY <1>5, <1>6, <2>1 DEF Names
  <2> QED
      BY <1>3, <2>2 DEF AbsentAreEmpty
<1>12. m.op \notin {"create", "role"} => pool[u].exists /\ x.groups = pool[u].groups
  <2>1. m.op \notin {"create", "role"} =>
            pool[u].exists /\ c.name \in {"disable", "enable", "reset"}
      BY <1>1, <1>2 DEF Fits, u
  <2> QED
      BY <1>6, <2>1
<1> QED
    BY <1>3, <1>8, <1>9, <1>10, <1>11, <1>12 DEF u, t

(* A step outside the pool: handlers that remain go on as they were.       *)
LEMMA QuietSolo ==
    ASSUME Solo, UNCHANGED <<pool, broken>>,
           \A r \in Requests : Inside(r)' =>
               /\ Inside(r) /\ work'[r] = work[r]
               /\ request'[r].key = request[r].key
    PROVE  Solo'
<1>1. LastAdminStays' /\ AbsentAreEmpty' /\ AloneInside' /\ SingleRoles'
    BY DEF Solo, LastAdminStays, AbsentAreEmpty, AloneInside, SingleRoles
<1>2. HandlersFit'
    BY DEF Solo, HandlersFit, Mutation, Target, OthersStay, IsActiveAdmin
<1> QED
    BY <1>1, <1>2 DEF Solo

(* A handler ends, after its last call or without one.                     *)
LEMMA EndSolo ==
    ASSUME SoloInv, Solo, NEW r \in Requests, work' = [work EXCEPT ![r] = NoWork], UNCHANGED pool,
           \A q \in Requests \ {r} : request'[q] = request[q], SingleRoles'
    PROVE  Solo'
<1>1. ~Inside(r)' /\ \A q \in Requests \ {r} : work'[q] = work[q]
    BY NoWorkType DEF SoloInv, UInv, Inside, NoWork
<1>2. LastAdminStays' /\ AbsentAreEmpty'
    BY DEF Solo, LastAdminStays, AbsentAreEmpty
<1>3. AloneInside' /\ HandlersFit'
    BY <1>1 DEF Solo, AloneInside, HandlersFit, Inside, Mutation, Target, OthersStay, IsActiveAdmin
<1> QED
    BY <1>2, <1>3 DEF Solo

LEMMA BeginSolo == ASSUME SoloInv, Solo, NEW r \in Requests, Begin(r), ~overlap' PROVE Solo'
<1> DEFINE m == Mutation(r)
<1>1. m \in Keys /\ ~Inside(r) /\ UNCHANGED <<pool, broken>>
    BY MutationType DEF Begin, SoloInv, UInv, RInv
<1>2. CASE Ends(r, "rejected")
  <2>1. SingleRoles'
      BY <1>1 DEF Solo, SingleRoles
  <2> QED
      BY <1>1, <1>2, <2>1, EndSolo, OthersWait DEF Ends, SoloInv
<1>3. CASE /\ m.op = "create" \/ pool[m.user].exists
           /\ Proceeds(r, IF IsGuarded(m) THEN "guard" ELSE "write", Calls(m))
           /\ UNCHANGED request /\ \A q \in Requests : ~Inside(q)
  <2>1. UTypeOK /\ LastAdminStays /\ Calls(m) \in Seq(CallSet)
      BY <1>1, CallsType DEF SoloInv, UInv, Solo
  <2>2. /\ Fits(pool[m.user], m, Calls(m))
        /\ ~IsGuarded(m) => OthersStay(m.user) \/ Harmless(Calls(m))
      BY <1>1, <1>3, <2>1, CallsFit
  <2>3. /\ work'[r] = [step |-> IF IsGuarded(m) THEN "guard" ELSE "write", todo |-> Calls(m)]
        /\ \A q \in Requests \ {r} : work'[q] = work[q]
      BY <1>3, <2>1 DEF Proceeds, UTypeOK
  <2>4. AloneInside' /\ \A q \in Requests \ {r} : ~Inside(q)'
      BY <1>3, <2>3 DEF AloneInside, Inside
  <2>5. Fits(pool'[Target(r)'], Mutation(r)', work'[r].todo)
      BY <1>1, <1>3, <2>2, <2>3 DEF Mutation, Target
  <2>6. work'[r].step = "write" => OthersStay(Target(r))' \/ Harmless(work[r].todo)'
    <3>1. Target(r)' = m.user /\ work'[r].todo = Calls(m)
        BY <1>3, <2>3 DEF Mutation, Target
    <3>2. OthersStay(m.user) => OthersStay(Target(r))'
        BY <1>1, <3>1 DEF OthersStay, IsActiveAdmin
    <3>3. Harmless(Calls(m)) => Harmless(work[r].todo)'
        BY <3>1 DEF Harmless
    <3> QED
        BY <2>2, <2>3, <3>2, <3>3
  <2>7. HandlersFit'
      BY <2>4, <2>5, <2>6 DEF HandlersFit
  <2> QED
      BY <1>1, <2>4, <2>7 DEF Solo, LastAdminStays, AbsentAreEmpty, SingleRoles
<1> QED
    BY <1>2, <1>3 DEF Begin

LEMMA GuardSolo == ASSUME SoloInv, Solo, NEW r \in Requests, Guard(r) PROVE Solo'
<1> DEFINE m == Mutation(r)
<1>1. Inside(r) /\ request[r].task = "handling" /\ UNCHANGED <<pool, broken>>
    BY DEF Guard, Inside, SoloInv, UInv, InsideHandles
<1>2. m \in Keys /\ m.user \in Users /\ SingleRoles'
    BY <1>1, MutationType DEF SoloInv, UInv, RInv, Target, Solo, SingleRoles
<1>3. CASE Ends(r, "rejected")
    BY <1>1, <1>2, <1>3, EndSolo, OthersWait DEF Ends, SoloInv
<1>4. CASE /\ ~(m.user \in ActiveAdmins /\ Cardinality(ActiveAdmins) <= 1)
           /\ Proceeds(r, "write", work[r].todo) /\ UNCHANGED request
  <2>1. OthersStay(m.user)
      BY <1>2, <1>4, GuardFinds DEF Solo
  <2>2. /\ work'[r] = [step |-> "write", todo |-> work[r].todo]
        /\ \A q \in Requests \ {r} : work'[q] = work[q]
      BY <1>4 DEF Proceeds, SoloInv, UInv, UTypeOK
  <2>3. AloneInside'
      BY <1>1, <2>2 DEF Solo, AloneInside, Inside
  <2>4. HandlersFit'
    <3>1. Fits(pool'[Target(r)'], Mutation(r)', work'[r].todo)
        BY <1>1, <1>4, <2>2 DEF Solo, HandlersFit, Mutation, Target
    <3>2. OthersStay(Target(r))'
        BY <1>1, <1>4, <2>1 DEF OthersStay, IsActiveAdmin, Mutation, Target
    <3>3. \A q \in Requests \ {r} : ~Inside(q)'
        BY <1>1, <2>2 DEF Solo, AloneInside, Inside
    <3> QED
        BY <3>1, <3>2, <3>3 DEF HandlersFit
  <2> QED
      BY <1>1, <1>2, <2>3, <2>4 DEF Solo, LastAdminStays, AbsentAreEmpty
<1> QED
    BY <1>3, <1>4 DEF Guard

(* A call changes the user of the handler that runs alone.                 *)
LEMMA AppliesSolo ==
    ASSUME SoloInv, Solo, NEW r \in Requests,
           work[r].step = "write", work[r].todo # <<>>, ~Taken(r),
           Applies(r), Breaks(r)
    PROVE  /\ LastAdminStays' /\ AbsentAreEmpty' /\ SingleRoles'
           /\ Fits(pool'[Target(r)], Mutation(r), Tail(work[r].todo))
           /\ (\E v \in Users \ {Target(r)} : IsActiveAdmin(v)') \/ Harmless(Tail(work[r].todo))
<1> DEFINE m == Mutation(r)
           todo == work[r].todo
<1>1. Inside(r) /\ m \in Keys /\ m.user \in Users /\ todo \in Seq(CallSet) /\ m.user = Target(r)
    BY MutationType DEF Inside, SoloInv, UInv, UTypeOK, InsideHandles, RInv, Target
<1>2. Fits(pool[m.user], m, todo) /\ (OthersStay(m.user) \/ Harmless(todo))
    BY <1>1 DEF Solo, HandlersFit
<1>3. /\ ~(Head(todo).name = "create" /\ pool[m.user].exists)
      /\ pool' = [pool EXCEPT ![m.user] = Applied(m.user, Head(todo))]
    BY <1>1 DEF Taken, Applies
<1>4. UTypeOK /\ LastAdminStays /\ AbsentAreEmpty
    BY DEF SoloInv, UInv, Solo
<1> HIDE DEF m, todo
<1>5. /\ LastAdminStays' /\ AbsentAreEmpty'
      /\ Fits(pool'[m.user], m, Tail(todo))
      /\ (\E v \in Users \ {m.user} : IsActiveAdmin(v)') \/ Harmless(Tail(todo))
      /\ m.op \notin {"create", "role"} =>
             pool[m.user].exists /\ pool'[m.user].groups = pool[m.user].groups
    BY <1>1, <1>2, <1>3, <1>4, CallKeeps DEF todo, OthersStay
<1>6. SingleRoles'
  <2>1. \A u \in Users \ {m.user} : pool'[u] = pool[u]
      BY <1>3, <1>4 DEF UTypeOK
  <2>2. CASE m.op \in {"create", "role"}
    <3>1. broken' = broken \cup {m.user}
        BY <1>1, <2>2 DEF Breaks, ChangesRoles, m
    <3> QED
        BY <1>1, <2>1, <3>1 DEF Solo, SingleRoles
  <2>3. CASE m.op \notin {"create", "role"}
    <3>1. broken' = broken
        BY <2>3 DEF Breaks, ChangesRoles, m
    <3> QED
        BY <1>1, <1>5, <2>1, <2>3, <3>1 DEF Solo, SingleRoles
  <2> QED
      BY <2>2, <2>3
<1> QED
    BY <1>1, <1>5, <1>6 DEF m, todo

LEMMA WriteSolo == ASSUME SoloInv, Solo, NEW r \in Requests, Write(r) PROVE Solo'
<1> DEFINE t == Tail(work[r].todo)
<1>1. /\ LastAdminStays' /\ AbsentAreEmpty' /\ SingleRoles'
      /\ Fits(pool'[Target(r)], Mutation(r), t)
      /\ (\E v \in Users \ {Target(r)} : IsActiveAdmin(v)') \/ Harmless(t)
    BY AppliesSolo DEF Write
<1>2. Inside(r) /\ UNCHANGED request
    BY DEF Write, Inside
<1>3. /\ work'[r] = [step |-> "write", todo |-> t]
      /\ \A q \in Requests \ {r} : work'[q] = work[q]
    BY DEF Write, Proceeds, SoloInv, UInv, UTypeOK
<1>4. AloneInside' /\ \A q \in Requests \ {r} : ~Inside(q)'
    BY <1>2, <1>3 DEF Solo, AloneInside, Inside
<1>5. Target(r)' = Target(r) /\ Mutation(r)' = Mutation(r) /\ work'[r].todo = t
    BY <1>2, <1>3 DEF Mutation, Target
<1>6. OthersStay(Target(r))' \/ Harmless(work[r].todo)'
  <2>1. CASE \E v \in Users \ {Target(r)} : IsActiveAdmin(v)'
      BY <1>5, <2>1 DEF OthersStay
  <2>2. CASE Harmless(t)
      BY <1>5, <2>2 DEF Harmless
  <2> QED
      BY <1>1, <2>1, <2>2
<1>7. HandlersFit'
    BY <1>1, <1>4, <1>5, <1>6 DEF HandlersFit
<1> QED
    BY <1>1, <1>4, <1>7 DEF Solo

(* The change is complete: its user has one role.                          *)
LEMMA FinishSolo == ASSUME SoloInv, Solo, NEW r \in Requests, Finish(r) PROVE Solo'
<1>1. Inside(r) /\ Mutation(r).role \in Roles /\ Target(r) \in Users /\ Target(r) = Mutation(r).user
    BY MutationType DEF Finish, Inside, SoloInv, UInv, RInv, InsideHandles, Target
<1>2. Fits(pool[Target(r)], Mutation(r), <<>>)
    BY <1>1 DEF Finish, Solo, HandlersFit
<1>3. \A c : ~Has(<<>>, c)
    BY DEF Has
<1>4. CASE Mutation(r).op \in {"create", "role"}
  <2>1. pool[Target(r)].groups = {Mutation(r).role}
    <3>1. CASE Mutation(r).op = "create"
        BY <1>2, <3>1 DEF Fits
    <3>2. CASE Mutation(r).op = "role"
        BY <1>2, <1>3, <3>2 DEF Fits
    <3> QED
        BY <1>4, <3>1, <3>2
  <2> QED
      BY <1>1, <1>4, <2>1, EndSolo, OthersWait DEF Finish, ChangesRoles, Ends, SoloInv, Solo, SingleRoles
<1>5. CASE Mutation(r).op \notin {"create", "role"}
    BY <1>5, EndSolo, OthersWait DEF Finish, ChangesRoles, Ends, SoloInv, Solo, SingleRoles
<1> QED
    BY <1>4, <1>5

LEMMA CallFailsSolo == ASSUME SoloInv, Solo, NEW r \in Requests, CallFails(r) PROVE Solo'
<1>1. work' = [work EXCEPT ![r] = NoWork] /\ \A q \in Requests \ {r} : request'[q] = request[q]
    BY OthersWait DEF CallFails, Ends, Escapes, Escape, SoloInv
<1>2. CASE UNCHANGED <<pool, broken>>
  <2>1. SingleRoles'
      BY <1>2 DEF Solo, SingleRoles
  <2> QED
      BY <1>1, <1>2, <2>1, EndSolo
<1>3. CASE /\ work[r].step = "write" /\ work[r].todo # <<>> /\ ~Taken(r)
           /\ Applies(r) /\ Breaks(r)
  <2>1. LastAdminStays' /\ AbsentAreEmpty' /\ SingleRoles'
      BY <1>3, AppliesSolo
  <2>2. Inside(r) /\ \A q \in Requests : ~Inside(q)'
      BY <1>1, <1>3, NoWorkType DEF SoloInv, UInv, Solo, AloneInside, Inside, NoWork
  <2> QED
      BY <2>1, <2>2 DEF Solo, AloneInside, HandlersFit
<1> QED
    BY <1>2, <1>3 DEF CallFails

LEMMA NextSoloInv == SoloInv /\ [UNext]_vars => SoloInv'
<1> SUFFICES ASSUME SoloInv, [UNext]_vars, ~overlap' PROVE Solo'
    BY NextUInv DEF SoloInv
<1>1. CASE overlap
    BY <1>1 DEF SignIn, Send, Middleware, Handler, Begin, BeginFails, Guard, Write, Finish,
                CallFails,
                Stop, UNext, uvars, vars
<1>2. CASE ~overlap
  <2>1. Solo
      BY <1>2 DEF SoloInv
  <2>2. ASSUME NEW u \in Users, SignIn(u) PROVE Solo'
      BY <2>1, <2>2, QuietSolo DEF SignIn, Inside, rvars
  <2>3. ASSUME NEW r \in Requests, NEW k \in Keys, NEW s \in Servers, Send(r, k, s) PROVE Solo'
    <3>1. ~Inside(r) /\ UNCHANGED <<work, pool, broken>>
        BY <2>3 DEF Send, Arrive, SoloInv, UInv, InsideHandles, RInv, RTypeOK
    <3>2. \A q \in Requests \ {r} : request'[q] = request[q]
        BY <2>3 DEF Send, Arrive, SoloInv, UInv, RInv, RTypeOK
    <3> QED
        BY <2>1, <3>1, <3>2, QuietSolo DEF Inside
  <2>4. ASSUME NEW r \in Requests, Middleware(r) PROVE Solo'
    <3>1. ~Inside(r) /\ UNCHANGED <<work, pool, broken>>
        BY <2>4 DEF Middleware, Busy, uvars
    <3>2. \A q \in Requests \ {r} : request'[q] = request[q]
        BY <2>4, OthersWait
           DEF Middleware, Reserve, Conflict, ReserveLost, TimeOut, Leave, LeaveFails, Leaves,
               SoloInv, UInv, RInv, RTypeOK
    <3> QED
        BY <2>1, <3>1, <3>2, QuietSolo DEF Inside
  <2>5. ASSUME NEW r \in Requests, Handler(r) PROVE Solo'
    <3>1. CASE BeginFails(r)
      <4>1. work' = [work EXCEPT ![r] = NoWork] /\ \A q \in Requests \ {r} : request'[q] = request[q]
          BY <3>1, OthersWait DEF BeginFails, Ends, Escapes, Escape, SoloInv
      <4>2. SingleRoles' /\ UNCHANGED pool
          BY <2>1, <3>1 DEF BeginFails, Solo, SingleRoles
      <4> QED
          BY <2>1, <4>1, <4>2, EndSolo
    <3> QED
        BY <2>1, <2>5, <3>1, BeginSolo, GuardSolo, WriteSolo, FinishSolo, CallFailsSolo DEF Handler
  <2>6. ASSUME NEW s \in Servers, Stop(s) PROVE Solo'
    <3>1. /\ UNCHANGED <<pool, broken>>
          /\ \A q \in Requests : work'[q] = IF server[q] = s THEN NoWork ELSE work[q]
          /\ \A q \in Requests : request'[q].key = request[q].key
        BY <2>6 DEF Stop, Drop
    <3> QED
        BY <2>1, <3>1, QuietSolo DEF Inside, NoWork
  <2>7. ASSUME NEW k \in Keys, Expire(k), UNCHANGED uvars PROVE Solo'
      BY <2>1, <2>7, QuietSolo DEF Expire, Inside, uvars
  <2>8. CASE UNCHANGED vars
      BY <2>1, <2>8, QuietSolo DEF Inside, vars, rvars, uvars
  <2> QED
      BY <2>2, <2>3, <2>4, <2>5, <2>6, <2>7, <2>8 DEF UNext
<1> QED
    BY <1>1, <1>2

-----------------------------------------------------------------------------
(* The theorems                                                            *)

(* The invariant: a handler holds its reservation, and one that runs alone *)
(* has left to do what its user still lacks, and nothing that would take   *)
(* the last administrator away.                                            *)
THEOREM AdministrationInvariance == USpec => []SoloInv
BY InitSoloInv, NextSoloInv, PTL DEF USpec

(* The handlers, call by call, with processes that block and end, are      *)
(* handlers of RequestIdempotency.                                         *)
THEOREM HandlersImplementRequests == USpec => ImplementsRequests
<1>1. UInit => RInit
    BY DEF UInit
<1>2. SoloInv /\ [UNext]_vars => [RNext]_rvars
    BY UNextIsRNext DEF SoloInv
<1> QED
    BY <1>1, <1>2, AdministrationInvariance, PTL DEF USpec, ImplementsRequests, RSpec

(* While no two handlers overlap, an active administrator remains, whoever *)
(* disables or downgrades whom with however old a token, and wherever a    *)
(* change breaks off (_protect_admin_change).                              *)
THEOREM AdministratorRemains == USpec => []LastAdminStaysAlone
<1>1. SoloInv => LastAdminStaysAlone
    BY DEF SoloInv, Solo, LastAdminStaysAlone
<1> QED
    BY <1>1, AdministrationInvariance, PTL

(* While no two handlers overlap, a user whose last change was complete has*)
(* one role, whatever groups earlier changes left behind                   *)
(* (update_user_role).                                                     *)
THEOREM CompleteChangesLeaveOneRole == USpec => []RolesAreSingle
<1>1. \A role \in Roles : Cardinality({role}) = 1
    BY FS_Singleton
<1>2. SoloInv => RolesAreSingle
    BY <1>1 DEF SoloInv, Solo, SingleRoles, RolesAreSingle
<1> QED
    BY <1>2, AdministrationInvariance, PTL

(* A key of user administration takes effect once, by way of the           *)
(* refinement: what RequestIdempotency promises holds of these handlers.   *)
THEOREM AdministrationActsOnce == USpec => []EffectOnce
<1>1. ImplementsRequests => []EffectOnce
    BY EffectsAreMadeOnce DEF ImplementsRequests
<1> QED
    BY <1>1, HandlersImplementRequests, PTL
=============================================================================
