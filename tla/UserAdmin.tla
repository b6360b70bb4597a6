------------------------------ MODULE UserAdmin ------------------------------
(***************************************************************************)
(* User administration (bff/user_management.py): create_user,              *)
(* update_user_role, disable_user, enable_user and reset_user_password on a*)
(* Cognito user pool, as handlers of the requests of RequestIdempotency.   *)
(*                                                                         *)
(* The boto3 calls block, so an API process is inside one handler at a     *)
(* time and does not time it out between two calls; a handler whose request*)
(* timed out before it began still begins.  The handlers of two processes  *)
(* interleave call by call.  Every call may fail.  Each key is one mutation*)
(* by one actor, sent again with the same body on a retry.                 *)
(* A password reset changes neither roles nor Enabled; passwords are left  *)
(* out.                                                                    *)
(***************************************************************************)
EXTENDS RequestIdempotency, Naturals, Sequences

CONSTANTS
    Users,     \* usernames
    Servers,   \* API processes
    Founders   \* the administrators the pool starts with

Roles == {"admin", "customer", "operator"}

ASSUME MutationsAssumption ==
    Keys \subseteq [actor: Users, op: {"create", "role", "disable", "enable", "reset"},
                    user: Users, role: Roles]
ASSUME FoundersAssumption == Founders \subseteq Users /\ Founders # {}

VARIABLES
    pool,      \* the Cognito user pool
    tokens,    \* users who hold an administrator's access token
    server,    \* the process a request came to
    work,      \* where its handler is, and the calls it still has to make
    overlap,   \* history: two handlers have been at work at the same time
    broken     \* history: users whose last change of roles broke off half-way

uvars == <<pool, tokens, server, work, overlap, broken>>
vars == <<rvars, uvars>>

NoUser == [exists |-> FALSE, enabled |-> FALSE, groups |-> {}]
NoWork == [step |-> "none", todo |-> <<>>]
Call(name, role) == [name |-> name, role |-> role]

UInit ==
    /\ RInit
    /\ pool = [u \in Users |-> IF u \in Founders
                               THEN [exists |-> TRUE, enabled |-> TRUE, groups |-> {"admin"}]
                               ELSE NoUser]
    /\ tokens = Founders
    /\ server = [r \in Requests |-> None]
    /\ work = [r \in Requests |-> NoWork]
    /\ overlap = FALSE
    /\ broken = {}

-----------------------------------------------------------------------------
Inside(r) == work[r].step # "none"
Busy(s) == \E r \in Requests : Inside(r) /\ server[r] = s
Mutation(r) == request[r].key
Target(r) == Mutation(r).user

(* A token lives on for an hour after its user is disabled or downgraded.  *)
SignIn(u) ==
    /\ pool[u].exists /\ pool[u].enabled /\ pool[u].groups = {"admin"}
    /\ u \notin tokens
    /\ tokens' = tokens \cup {u}
    /\ UNCHANGED <<rvars, pool, server, work, overlap, broken>>

Send(r, k, s) ==
    /\ k.actor \in tokens
    /\ Arrive(r, k)
    /\ server' = [server EXCEPT ![r] = s]
    /\ UNCHANGED <<pool, tokens, work, overlap, broken>>

Proceeds(r, step, todo) == work' = [work EXCEPT ![r] = [step |-> step, todo |-> todo]]
Ends(r, answer) == Ended(r, answer) /\ work' = [work EXCEPT ![r] = NoWork]
Escapes(r) == Escape(r) /\ work' = [work EXCEPT ![r] = NoWork]

(* Mutant: a role change that only adds the new group.                     *)
CallsAddingOnly(m) ==
    CASE m.op = "create"  -> <<Call("create", m.role), Call("add", m.role)>>
      [] m.op = "role"    -> IF m.role \in pool[m.user].groups THEN <<>>
                             ELSE <<Call("add", m.role)>>
      [] m.op = "disable" -> <<Call("disable", m.role)>>
      [] m.op = "enable"  -> <<Call("enable", m.role)>>
      [] m.op = "reset"   -> <<Call("reset", m.role)>>

(* One call for each group, in order of the names.                         *)
Removals(groups) ==
    LET Removal(g) == IF g \in groups THEN <<Call("remove", g)>> ELSE <<>>
    IN  (Removal("admin") \o Removal("customer")) \o Removal("operator")

(* The calls a mutation makes, by the groups its handler has just read: a  *)
(* new role is added before the others are removed.                        *)
Calls(m) ==
    LET groups == pool[m.user].groups
    IN  CASE m.op = "create"  -> <<Call("create", m.role), Call("add", m.role)>>
          [] m.op = "role"    -> (IF m.role \in groups THEN <<>> ELSE <<Call("add", m.role)>>)
                                 \o Removals(groups \ {m.role})
          [] m.op = "disable" -> <<Call("disable", m.role)>>
          [] m.op = "enable"  -> <<Call("enable", m.role)>>
          [] m.op = "reset"   -> <<Call("reset", m.role)>>

(* _target_is_current_user is asked first of all when disabling.           *)
IsGuarded(m) ==
    \/ m.op = "disable" /\ (m.user = m.actor \/ "admin" \in pool[m.user].groups)
    \/ m.op = "role" /\ m.role # "admin" /\ "admin" \in pool[m.user].groups

(* Mutant: the handler does not depend on the reservation.                 *)
BeginUnreserved(r) ==
    LET m == Mutation(r)
    IN  /\ request[r].task \in {"reserving", "handling"} /\ ~Inside(r) /\ ~Busy(server[r])
        /\ m.op = "create" \/ pool[m.user].exists
        /\ Proceeds(r, IF IsGuarded(m) THEN "guard" ELSE "write", Calls(m))
        /\ overlap' = (overlap \/ \E q \in Requests : Inside(q))
        /\ UNCHANGED <<rvars, pool, tokens, server, broken>>

(* The handler starts: _get_user and _groups_for_user.                     *)
Begin(r) ==
    LET m == Mutation(r)
        found == m.op = "create" \/ pool[m.user].exists
    IN  /\ request[r].task = "handling" /\ ~Inside(r) /\ ~Busy(server[r])
        /\ \/ found /\ Proceeds(r, IF IsGuarded(m) THEN "guard" ELSE "write", Calls(m))
                    /\ UNCHANGED request
           \/ ~found /\ Ends(r, "rejected")
        /\ overlap' = (overlap \/ (found /\ \E q \in Requests : Inside(q)))
        /\ UNCHANGED <<records, acted, spoilt, pool, tokens, server, broken>>

(* Mutant: every member of the group counts, disabled or not.              *)
EveryAdmin == {u \in Users : "admin" \in pool[u].groups}

ActiveAdmins == {u \in Users : "admin" \in pool[u].groups /\ pool[u].enabled}

(* _protect_admin_change.  The listing is one step.                        *)
Guard(r) ==
    LET m == Mutation(r)
        last == m.user \in ActiveAdmins /\ Cardinality(ActiveAdmins) <= 1
    IN  /\ work[r].step = "guard"
        /\ IF m.user = m.actor \/ last
           THEN Ends(r, "rejected")
           ELSE Proceeds(r, "write", work[r].todo) /\ UNCHANGED request
        /\ UNCHANGED <<records, acted, spoilt, pool, tokens, server, overlap, broken>>

Applied(u, c) ==
    CASE c.name = "create"  -> [exists |-> TRUE, enabled |-> TRUE, groups |-> {}]
      [] c.name = "add"     -> [pool[u] EXCEPT !.groups = @ \cup {c.role}]
      [] c.name = "remove"  -> [pool[u] EXCEPT !.groups = @ \ {c.role}]
      [] c.name = "disable" -> [pool[u] EXCEPT !.enabled = FALSE]
      [] c.name = "enable"  -> [pool[u] EXCEPT !.enabled = TRUE]
      [] c.name = "reset"   -> pool[u]

Applies(r) ==
    /\ pool' = [pool EXCEPT ![Target(r)] = Applied(Target(r), Head(work[r].todo))]
    /\ acted' = [acted EXCEPT ![Mutation(r)] = @ \cup {r}]

(* A change of a user's roles is under way until its last read.            *)
ChangesRoles(r) == Mutation(r).op \in {"create", "role"}
Breaks(r) == broken' = IF ChangesRoles(r) THEN broken \cup {Target(r)} ELSE broken

(* admin_create_user on a name that is taken: UsernameExistsException.     *)
Taken(r) == Head(work[r].todo).name = "create" /\ pool[Target(r)].exists

(* The next call succeeds.                                                 *)
Write(r) ==
    /\ work[r].step = "write" /\ work[r].todo # <<>> /\ ~Taken(r)
    /\ Applies(r)
    /\ Proceeds(r, "write", Tail(work[r].todo))
    /\ Breaks(r)
    /\ UNCHANGED <<records, request, spoilt, tokens, server, overlap>>

(* The last reads succeed: the change is complete.                         *)
Finish(r) ==
    /\ work[r].step = "write" /\ work[r].todo = <<>>
    /\ Ends(r, "ok")
    /\ broken' = IF ChangesRoles(r) THEN broken \ {Target(r)} ELSE broken
    /\ UNCHANGED <<records, acted, spoilt, pool, tokens, server, overlap>>

(* A call raises, whether the pool took it or not.  The code of the error  *)
(* decides between a 4xx and a 502; what the handler reads before its try  *)
(* block escapes as it is.                                                 *)
CallFails(r) ==
    /\ Inside(r)
    /\ \/ work[r].step = "guard" /\ Escapes(r) /\ UNCHANGED <<pool, broken>>
       \/ /\ \E a \in {"rejected", "failed"} : Ends(r, a)
          /\ UNCHANGED <<records, acted, spoilt, pool, broken>>
       \/ /\ work[r].step = "write" /\ work[r].todo # <<>> /\ ~Taken(r)
          /\ Applies(r)
          /\ Breaks(r)
          /\ \E a \in {"rejected", "failed"} : Ends(r, a)
          /\ UNCHANGED <<records, spoilt>>
    /\ UNCHANGED <<tokens, server, overlap>>

(* The first reads fail.                                                   *)
BeginFails(r) ==
    /\ request[r].task = "handling" /\ ~Inside(r) /\ ~Busy(server[r])
    /\ \/ Escapes(r)
       \/ /\ \E a \in {"rejected", "failed"} : Ends(r, a)
          /\ UNCHANGED <<records, acted, spoilt>>
    /\ UNCHANGED <<pool, tokens, server, overlap, broken>>

(* A process ends, with its requests.                                      *)
Stop(s) ==
    /\ Drop({r \in Requests : server[r] = s /\ Underway(r)})
    /\ work' = [r \in Requests |-> IF server[r] = s THEN NoWork ELSE work[r]]
    /\ UNCHANGED <<pool, tokens, server, overlap, broken>>

-----------------------------------------------------------------------------
(* The middleware and the dependencies run when no handler blocks the loop.*)
Middleware(r) ==
    /\ server[r] # None /\ ~Busy(server[r])
    /\ Reserve(r) \/ Conflict(r) \/ ReserveLost(r) \/ TimeOut(r) \/ Leave(r) \/ LeaveFails(r)
    /\ UNCHANGED uvars

Handler(r) == Begin(r) \/ BeginFails(r) \/ Guard(r) \/ Write(r) \/ Finish(r) \/ CallFails(r)

UNext ==
    \/ \E u \in Users : SignIn(u)
    \/ \E r \in Requests, k \in Keys, s \in Servers : Send(r, k, s)
    \/ \E r \in Requests : Middleware(r) \/ Handler(r)
    \/ \E s \in Servers : Stop(s)
    \/ \E k \in Keys : Expire(k) /\ UNCHANGED uvars

USpec == UInit /\ [][UNext]_vars

-----------------------------------------------------------------------------
(* Properties                                                              *)

(* "The last active administrator cannot be disabled or downgraded."       *)
LastAdminStays == \E u \in Users : "admin" \in pool[u].groups /\ pool[u].enabled

(* A pool loses its last active administrator only when the handlers of two*)
(* API processes overlapped: one process alone never lets it happen, with  *)
(* tokens that outlive their role, failing calls, retries and crashes      *)
(* (_protect_admin_change).                                                *)
LastAdminStaysAlone == ~overlap => LastAdminStays

(* "Exactly one application role group is required" to sign in: unless two *)
(* handlers overlapped, a user whose last change was answered with success *)
(* has exactly one role, whatever broke off before that change             *)
(* (update_user_role removes every other group it read).                   *)
RolesAreSingle ==
    ~overlap => \A u \in Users :
        pool[u].exists /\ u \notin broken => Cardinality(pool[u].groups) = 1

(* The handlers of user administration are handlers of RequestIdempotency. *)
ImplementsRequests == RSpec
=============================================================================
