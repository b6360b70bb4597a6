----------------------------- MODULE LegacyLinks -----------------------------
(***************************************************************************)
(* One source funder in the SQLite mode: the profile its grants link, the  *)
(* facts derived from them, the user's decision to keep it unlinked, the   *)
(* overview cache and the profile cache, all in one database file that     *)
(* imports clone and replace (src/src/bff/repositories.py, charity.py,     *)
(* src/src/data/db_loader.py).  A transaction that begins with BEGIN       *)
(* IMMEDIATE is one step.                                                  *)
(***************************************************************************)
EXTENDS Naturals

CONSTANTS
    Grants,      \* grants of the funder, in the order of their ids
    Profiles,    \* directory profiles
    Own,         \* the profile whose number is in the funder's GB-CHC identifier
    Requests,    \* overview requests, each in a thread
    Hydrations,  \* background tasks that fill the profile cache
    MaxImports,  \* bound on publications
    NoLink,      \* NULL in a link column
    Absent,      \* no such row
    None

ASSUME GrantAssumption == Grants \subseteq Nat
ASSUME OwnAssumption == Own \in Profiles
ASSUME ImportAssumption == MaxImports \in Nat
ASSUME ValueAssumption ==
    /\ NoLink \notin Profiles /\ Absent \notin Profiles /\ NoLink # Absent
    /\ None \notin Nat /\ None \notin Profiles

VARIABLES
    db,       \* the database file
    staging,  \* the clone an import works on, or None
    imports,  \* publications so far
    req,      \* where each overview request stands
    hyd       \* where each hydration stands

vars == <<db, staging, imports, req, hyd>>

(* A file: grants.funding_charity_id, grant_source_funder_facts.linked_    *)
(* profile_id, the marker grant_overview_index_revision, the fingerprint of*)
(* the grants, whether an observed_only override exists, the charities, the*)
(* row of source_funder_profile_cache, the entry of grant_overview_cache.  *)
Links == Profiles \cup {NoLink, Absent}
Rows == {None} \cup [profile : Profiles, status : {"pending", "ready", "failed"},
                     of : Profiles \cup {None}]
Overviews == {None} \cup [rev : Nat, shows : [Grants -> Links], late : BOOLEAN]
File == [grants : [Grants -> Links], facts : [Grants -> Links], marker : Nat \cup {None},
         data : Nat, override : BOOLEAN, charities : SUBSET Profiles,
         row : Rows, over : Overviews]

IdleRequest == [at |-> "idle", rev |-> 0, shows |-> None, late |-> FALSE]
IdleHydration == [at |-> "idle", profile |-> None]

(* An import has been published and nobody has looked yet.                 *)
Init ==
    /\ \E links \in [Grants -> {Absent, NoLink, Own}] :
           db = [grants |-> links, facts |-> [g \in Grants |-> Absent], marker |-> None,
                 data |-> 0, override |-> FALSE, charities |-> Profiles,
                 row |-> None, over |-> None]
    /\ staging = None /\ imports = 0
    /\ req = [r \in Requests |-> IdleRequest]
    /\ hyd = [h \in Hydrations |-> IdleHydration]

-----------------------------------------------------------------------------
(* rebuild_grant_overview_indexes                                          *)

(* Mutant: the overrides are not looked at.                                *)
DerivedRegardless(f) ==
    [g \in Grants |-> IF f.grants[g] = Absent THEN Absent
                      ELSE IF f.grants[g] \in f.charities THEN f.grants[g] ELSE NoLink]

Derived(f) ==
    [g \in Grants |-> IF f.grants[g] = Absent THEN Absent
                      ELSE IF f.grants[g] \in f.charities /\ ~f.override
                      THEN f.grants[g] ELSE NoLink]

Rebuilt(f) == [f EXCEPT !.facts = Derived(f), !.marker = f.data, !.over = None]

(* The marker is trusted where it is; nothing is compared with the grants. *)
Ensured(f) == IF f.marker = None THEN Rebuilt(f) ELSE f

-----------------------------------------------------------------------------
(* Overview requests                                                       *)

Open(r) ==
    LET f == Ensured(db)
    IN  /\ req[r].at = "idle"
        /\ db' = f
        /\ req' = [req EXCEPT ![r] =
               IF f.over # None /\ f.over.rev = f.marker THEN @     \* answered from the cache
               ELSE [@ EXCEPT !.at = "open", !.rev = f.marker]]
        /\ UNCHANGED <<staging, imports, hyd>>

Computed(r) == [req[r] EXCEPT !.at = "computed", !.shows = db.grants, !.late = FALSE]

Compute(r) ==
    /\ req[r].at = "open"
    /\ req' = [req EXCEPT ![r] = Computed(r)]
    /\ UNCHANGED <<db, staging, imports, hyd>>

(* By a connection of its own to whatever file has the name by now, and    *)
(* under the revision that was read at the beginning.                      *)
Store(r) ==
    /\ req[r].at = "computed"
    /\ db' = [db EXCEPT !.over = [rev |-> req[r].rev, shows |-> req[r].shows,
                                  late |-> req[r].late]]
    /\ req' = [req EXCEPT ![r] = IdleRequest]
    /\ UNCHANGED <<staging, imports, hyd>>

(* History: what has been computed by now is stored after a change.        *)
Overtaken(q) == IF q.at = "computed" THEN [q EXCEPT !.late = TRUE] ELSE q

-----------------------------------------------------------------------------
(* The user's decisions                                                    *)

Indexed(f) == {g \in Grants : f.facts[g] # Absent}
Change(f) ==
    /\ db' = f
    /\ req' = [r \in Requests |-> Overtaken(req[r])]
    /\ UNCHANGED <<staging, imports, hyd>>

LinkTo(f, p) ==
    [f EXCEPT !.grants = [g \in Grants |-> IF g \in Indexed(f) THEN p ELSE f.grants[g]],
              !.facts = [g \in Grants |-> IF g \in Indexed(f) THEN p ELSE f.facts[g]]]

(* reset_source_funder_to_observed finds the grants by their facts.        *)
Reset ==
    /\ Indexed(db) # {}
    /\ Change([LinkTo(db, NoLink) EXCEPT !.override = TRUE, !.row = None, !.over = None])

(* Mutant: cached overviews outlive the change.                            *)
RelinkKeepingOverview(p) ==
    /\ p \in db.charities /\ Indexed(db) # {}
    /\ Change([LinkTo(db, p) EXCEPT !.override = FALSE, !.row = None])

Relink(p) ==
    /\ p \in db.charities /\ Indexed(db) # {}
    /\ Change([LinkTo(db, p) EXCEPT !.override = FALSE, !.row = None, !.over = None])

(* _fast_link_confirmed_profiles, for the funder's own number.             *)
Filled(links) == [g \in Grants |-> IF links[g] = NoLink THEN Own ELSE links[g]]

(* It touches neither the marker nor a cache; what the overview cache holds*)
(* is from now on older than the links.                                    *)
Enrich ==
    Change([db EXCEPT !.charities = @ \cup {Own}, !.override = FALSE,
                      !.grants = Filled(@), !.facts = Filled(@),
                      !.over = IF @ = None THEN None ELSE [@ EXCEPT !.late = TRUE]])

-----------------------------------------------------------------------------
(* The profile cache                                                       *)

(* _linked_source_funder_profile: the first linked fact, by grant id.      *)
IsLinked(f, p) ==
    \E g \in Grants : /\ f.facts[g] = p
                      /\ \A other \in Grants : f.facts[other] \in Profiles => g <= other

Linked(f) == IF \E p \in Profiles : IsLinked(f, p)
             THEN CHOOSE p \in Profiles : IsLinked(f, p) ELSE None

RowOf(p) == db.row # None /\ db.row.profile = p

(* A row of the same profile that is pending or ready is left as it is.    *)
(* Its link_revision is always 0, since nothing is queued under an         *)
(* override, and is left out.                                              *)
Queue ==
    LET p == Linked(db)
    IN  /\ ~db.override /\ p # None
        /\ ~(RowOf(p) /\ db.row.status \in {"pending", "ready"})
        /\ db' = [db EXCEPT !.row = [profile |-> p, status |-> "pending", of |-> None]]
        /\ UNCHANGED <<staging, imports, req, hyd>>

(* The task that goes with a pending row; any caller may add another.      *)
HydrateRead(h) ==
    LET p == Linked(db)
    IN  /\ hyd[h].at = "idle"
        /\ db.row # None
        /\ db' = IF p = None THEN [db EXCEPT !.row = None] ELSE db
        /\ hyd' = IF p # None /\ RowOf(p) THEN [hyd EXCEPT ![h] = [at |-> "file", profile |-> p]]
                  ELSE hyd
        /\ UNCHANGED <<staging, imports, req>>

(* No usable record in the file: every row of that profile is failed.      *)
HydrateFails(h) ==
    /\ hyd[h].at = "file"
    /\ db' = IF RowOf(hyd[h].profile) THEN [db EXCEPT !.row.status = "failed"] ELSE db
    /\ hyd' = [hyd EXCEPT ![h] = IdleHydration]
    /\ UNCHANGED <<staging, imports, req>>

(* Mutant: the row is addressed by the funder alone, the link unchecked.   *)
HydrateWriteByKey(h) ==
    LET p == hyd[h].profile
    IN  /\ hyd[h].at = "file"
        /\ db' = IF db.row # None THEN [db EXCEPT !.row.status = "ready", !.row.of = p] ELSE db
        /\ hyd' = [hyd EXCEPT ![h] = IdleHydration]
        /\ UNCHANGED <<staging, imports, req>>

(* The link is checked again, and the row has to be of that profile; if it *)
(* is not, nothing is written.                                             *)
HydrateWrite(h) ==
    LET p == hyd[h].profile
    IN  /\ hyd[h].at = "file"
        /\ db' = IF db.override \/ Linked(db) # p THEN [db EXCEPT !.row = None]
                 ELSE IF RowOf(p) THEN [db EXCEPT !.row.status = "ready", !.row.of = p]
                 ELSE db
        /\ hyd' = [hyd EXCEPT ![h] = IdleHydration]
        /\ UNCHANGED <<staging, imports, req>>

-----------------------------------------------------------------------------
(* Imports                                                                 *)

Clone ==
    /\ staging = None /\ imports < MaxImports
    /\ staging' = db
    /\ UNCHANGED <<db, imports, req, hyd>>

(* The fingerprint is made of counts, sums and dates: an import may leave  *)
(* it as it was.                                                           *)
Fingerprints == {staging.data, imports + 1}

(* rebuild_database_atomically: grants and charities are loaded anew, the  *)
(* facts go with their grants; a link is kept if its profile was loaded.   *)
Consolidated(profiles, present, linked, data) ==
    [staging EXCEPT !.charities = profiles,
        !.grants = [g \in Grants |-> IF g \notin present THEN Absent
                                     ELSE IF g \in linked /\ Own \in profiles THEN Own
                                     ELSE NoLink],
        !.facts = [g \in Grants |-> Absent],
        !.marker = None, !.over = None, !.data = data]

(* link_existing_grants_to_charities: the one import step that respects an *)
(* override.                                                               *)
LinkExisting(f) == IF f.override THEN f.grants ELSE Filled(f.grants)

(* Mutant: the marker survives the insertion of grants.                    *)
MergedKeepingMarker(arrived, data) ==
    [staging EXCEPT !.charities = @ \cup {Own},
        !.grants = [g \in Grants |-> IF g \in arrived THEN Own ELSE LinkExisting(staging)[g]],
        !.facts = [g \in Grants |-> IF g \in arrived THEN Absent ELSE @[g]],
        !.over = None, !.data = data]

(* What a full run that comes by the funder inserts: its profile; grants   *)
(* without a link get one, grants that arrive replace those of the same id *)
(* together with their facts.                                              *)
Merged(arrived, data) ==
    [staging EXCEPT !.charities = @ \cup {Own},
        !.grants = [g \in Grants |-> IF g \in arrived THEN Own ELSE LinkExisting(staging)[g]],
        !.facts = [g \in Grants |-> IF g \in arrived THEN Absent ELSE @[g]],
        !.marker = None, !.over = None, !.data = data]

(* backfill_database then opens the staging file with a request of its own,*)
(* whose answer may be the one that is followed here.                      *)
FullRun(arrived, data, warm) ==
    LET f == Ensured(Merged(arrived, data))
    IN  IF warm THEN [f EXCEPT !.over = [rev |-> f.marker, shows |-> f.grants, late |-> FALSE]]
        ELSE f

(* os.replace.  A request that has the old file open goes on reading it.   *)
Publish(f) ==
    /\ db' = f
    /\ staging' = None /\ imports' = imports + 1
    /\ req' = [r \in Requests |-> IF req[r].at = "open" THEN Overtaken(Computed(r))
                                  ELSE Overtaken(req[r])]
    /\ UNCHANGED hyd

Consolidate ==
    /\ staging # None
    /\ \E profiles \in SUBSET Profiles, present \in SUBSET Grants, data \in Fingerprints :
           \E linked \in SUBSET present : Publish(Consolidated(profiles, present, linked, data))

RunFull ==
    /\ staging # None
    /\ \E arrived \in SUBSET Grants, data \in Fingerprints, warm \in BOOLEAN :
           Publish(FullRun(arrived, data, warm))

(* A failed import unlinks its staging file.                               *)
Discard ==
    /\ staging # None
    /\ staging' = None
    /\ UNCHANGED <<db, imports, req, hyd>>

Next ==
    \/ \E r \in Requests : Open(r) \/ Compute(r) \/ Store(r)
    \/ Reset \/ Enrich \/ Queue
    \/ \E p \in Profiles : Relink(p)
    \/ \E h \in Hydrations : HydrateRead(h) \/ HydrateFails(h) \/ HydrateWrite(h)
    \/ Clone \/ Consolidate \/ RunFull \/ Discard

Spec == Init /\ [][Next]_vars

-----------------------------------------------------------------------------
(* Properties                                                              *)

(* Where the marker says that the derived facts are up to date, they are:  *)
(* they show what a rebuild would show now, whichever of the six writers   *)
(* of links came by and in whatever order.                                 *)
DerivedFactsAreCurrent == db.marker # None => db.facts = Derived(db)

(* As long as the user's decision stands, no fact shows a link and no      *)
(* profile is cached, whatever is imported, hydrated or rebuilt:           *)
(* db_loader.py, "prevents later imports from silently recreating that     *)
(* cleared link", as far as the facts go.                                  *)
ResetIsRespected ==
    db.override => db.row = None /\ \A g \in Grants : db.facts[g] \notin Profiles

(* The payload of a ready row is that of its own profile.                  *)
ReadyPayloadIsOwn ==
    db.row # None /\ db.row.status = "ready" => db.row.of = db.row.profile

(* An overview that would be served from the cache shows the present links *)
(* of the grants, unless it was computed before a change and stored after  *)
(* it, or an enrichment came after it.                                     *)
ServedOverviewIsCurrent ==
    db.over # None /\ db.over.rev = db.marker /\ ~db.over.late => db.over.shows = db.grants

(* The whole of that sentence: while the decision stands, no grant is      *)
(* linked again.                                                           *)
ClearedLinkStaysCleared ==
    [][db.override /\ db'.override =>
           \A g \in Grants : db.grants[g] = NoLink => db'.grants[g] \in {NoLink, Absent}]_vars
=============================================================================
