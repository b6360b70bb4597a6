-------------------------- MODULE LegacyLinksProofs --------------------------
(***************************************************************************)
(* Invariants of LegacyLinks, for any grants, profiles, requests,          *)
(* hydrations and number of imports.                                       *)
(***************************************************************************)
EXTENDS LegacyLinks, TLAPS

RequestStates == [at : {"idle", "open", "computed"}, rev : Nat,
                  shows : [Grants -> Links] \cup {None}, late : BOOLEAN]
HydrationStates == [at : {"idle"}, profile : Profiles \cup {None}]
                       \cup [at : {"file"}, profile : Profiles]

(* What holds of a file, whether it is served or worked on.                *)
LinksAreReal(f) == \A g \in Grants : f.grants[g] \in f.charities \cup {NoLink, Absent}
UnindexedAreOwn(f) ==
    \A g \in Grants : f.facts[g] = Absent => f.grants[g] \in {Absent, NoLink, Own}
FactsAreDerived(f) == f.marker # None => f.facts = Derived(f)
ResetHolds(f) ==
    f.override => /\ f.row = None
                  /\ \A g \in Grants : f.facts[g] \notin Profiles
                  /\ \A g \in Grants : f.grants[g] \in {Absent, NoLink, Own}
PayloadFits(f) == f.row # None /\ f.row.status = "ready" => f.row.of = f.row.profile

Good(f) ==
    /\ f \in File
    /\ LinksAreReal(f) /\ UnindexedAreOwn(f) /\ FactsAreDerived(f)
    /\ ResetHolds(f) /\ PayloadFits(f)

OverviewFits(f) == f.over # None /\ ~f.over.late => f.over.shows = f.grants
RequestFits(q, f) ==
    q.at = "computed" => q.shows \in [Grants -> Links] /\ (~q.late => q.shows = f.grants)

LInv ==
    /\ Good(db) /\ OverviewFits(db)
    /\ staging # None => Good(staging)
    /\ imports \in Nat
    /\ req \in [Requests -> RequestStates]
    /\ \A r \in Requests : RequestFits(req[r], db)
    /\ hyd \in [Hydrations -> HydrationStates]

-----------------------------------------------------------------------------
(* Each way to change a file keeps it good                                 *)

(* A rebuild, and what a request does before anything else.                *)
LEMMA RebuiltIsGood ==
    ASSUME NEW f, Good(f)
    PROVE  /\ Good(Rebuilt(f)) /\ Rebuilt(f).marker \in Nat /\ Rebuilt(f).over = None
           /\ Rebuilt(f).grants = f.grants
<1> DEFINE n == Rebuilt(f)
<1>1. Derived(f) \in [Grants -> Links]
  BY OwnAssumption DEF Derived, Good, File, Links
<1>2. /\ n \in File
      /\ n.grants = f.grants /\ n.facts = Derived(f) /\ n.marker = f.data
      /\ n.override = f.override /\ n.charities = f.charities
      /\ n.row = f.row /\ n.over = None
  BY <1>1 DEF Rebuilt, Good, File, Overviews
<1>3. Derived(n) = Derived(f)
  BY <1>2 DEF Derived
<1>4. LinksAreReal(n) /\ FactsAreDerived(n) /\ PayloadFits(n)
  BY <1>2, <1>3 DEF Good, LinksAreReal, FactsAreDerived, PayloadFits
<1>5. UnindexedAreOwn(n)
  BY <1>2, ValueAssumption DEF UnindexedAreOwn, Derived, Good, LinksAreReal, File
<1>6. ResetHolds(n)
  BY <1>2, ValueAssumption DEF ResetHolds, Derived, Good
<1> QED
  BY <1>2, <1>4, <1>5, <1>6 DEF Good, File

LEMMA EnsuredIsGood ==
    ASSUME NEW f, Good(f), OverviewFits(f)
    PROVE  /\ Good(Ensured(f)) /\ OverviewFits(Ensured(f)) /\ Ensured(f).marker \in Nat
           /\ Ensured(f).grants = f.grants
<1>1. CASE f.marker = None
  BY <1>1, RebuiltIsGood DEF Ensured, OverviewFits
<1>2. CASE f.marker # None
  BY <1>2 DEF Ensured, Good, File
<1> QED
  BY <1>1, <1>2

(* The row of the profile cache and the entry of the overview cache.       *)
LEMMA RowIsGood ==
    ASSUME NEW f, Good(f), NEW row \in Rows, f.override => row = None,
           row # None /\ row.status = "ready" => row.of = row.profile
    PROVE  /\ Good([f EXCEPT !.row = row])
           /\ [f EXCEPT !.row = row].grants = f.grants
           /\ [f EXCEPT !.row = row].over = f.over
<1> DEFINE n == [f EXCEPT !.row = row]
<1>1. /\ n \in File
      /\ n.grants = f.grants /\ n.facts = f.facts /\ n.marker = f.marker
      /\ n.override = f.override /\ n.charities = f.charities
      /\ n.row = row /\ n.over = f.over
  BY DEF Good, File
<1>2. Derived(n) = Derived(f)
  BY <1>1 DEF Derived
<1>3. LinksAreReal(n) /\ UnindexedAreOwn(n) /\ FactsAreDerived(n)
  BY <1>1, <1>2 DEF Good, LinksAreReal, UnindexedAreOwn, FactsAreDerived
<1>4. ResetHolds(n) /\ PayloadFits(n)
  BY <1>1 DEF Good, ResetHolds, PayloadFits
<1> QED
  BY <1>1, <1>3, <1>4 DEF Good

LEMMA OverviewIsGood ==
    ASSUME NEW f, Good(f), NEW over \in Overviews
    PROVE  /\ Good([f EXCEPT !.over = over])
           /\ [f EXCEPT !.over = over].grants = f.grants
           /\ [f EXCEPT !.over = over].over = over
<1> DEFINE n == [f EXCEPT !.over = over]
<1>1. /\ n \in File
      /\ n.grants = f.grants /\ n.facts = f.facts /\ n.marker = f.marker
      /\ n.override = f.override /\ n.charities = f.charities
      /\ n.row = f.row /\ n.over = over
  BY DEF Good, File
<1>2. Derived(n) = Derived(f)
  BY <1>1 DEF Derived
<1>3. LinksAreReal(n) /\ UnindexedAreOwn(n) /\ FactsAreDerived(n)
  BY <1>1, <1>2 DEF Good, LinksAreReal, UnindexedAreOwn, FactsAreDerived
<1>4. ResetHolds(n) /\ PayloadFits(n)
  BY <1>1 DEF Good, ResetHolds, PayloadFits
<1> QED
  BY <1>1, <1>3, <1>4 DEF Good

(* A reset: every fact and every grant that has one loses its link.        *)
ResetFile(f) ==
    [LinkTo(f, NoLink) EXCEPT !.override = TRUE, !.row = None, !.over = None]

LEMMA ResetIsGood ==
    ASSUME NEW f, Good(f)
    PROVE  Good(ResetFile(f)) /\ OverviewFits(ResetFile(f))
<1> DEFINE n == ResetFile(f)
<1>1. /\ n \in File
      /\ n.grants = [g \in Grants |-> IF g \in Indexed(f) THEN NoLink ELSE f.grants[g]]
      /\ n.facts = [g \in Grants |-> IF g \in Indexed(f) THEN NoLink ELSE f.facts[g]]
      /\ n.marker = f.marker /\ n.override = TRUE /\ n.charities = f.charities
      /\ n.row = None /\ n.over = None
  BY DEF ResetFile, LinkTo, Good, File, Links, Rows, Overviews
<1>a. \A g \in Grants :
          /\ n.facts[g] = IF f.facts[g] = Absent THEN Absent ELSE NoLink
          /\ n.grants[g] = IF f.facts[g] = Absent THEN f.grants[g] ELSE NoLink
  <2>1. ASSUME NEW g \in Grants
        PROVE  /\ n.facts[g] = IF g \in Indexed(f) THEN NoLink ELSE f.facts[g]
               /\ n.grants[g] = IF g \in Indexed(f) THEN NoLink ELSE f.grants[g]
    <3>1. /\ n.grants = [g1 \in Grants |-> IF g1 \in Indexed(f) THEN NoLink ELSE f.grants[g1]]
          /\ n.facts = [g1 \in Grants |-> IF g1 \in Indexed(f) THEN NoLink ELSE f.facts[g1]]
      BY <1>1
    <3> HIDE DEF n
    <3> QED
      BY <3>1, Zenon
  <2>2. \A g \in Grants : g \in Indexed(f) <=> f.facts[g] # Absent
    BY DEF Indexed
  <2> HIDE DEF n
  <2> QED
    BY <2>1, <2>2
<1>2. LinksAreReal(n)
  <2>1. \A g \in Grants : f.grants[g] \in f.charities \cup {NoLink, Absent}
    BY DEF Good, LinksAreReal
  <2>2. \A g \in Grants : n.grants[g] \in f.charities \cup {NoLink, Absent}
    BY <1>a, <2>1
  <2>3. n.charities = f.charities
    BY <1>1
  <2> QED
    BY <2>2, <2>3 DEF LinksAreReal
<1>3. UnindexedAreOwn(n)
  BY <1>a, ValueAssumption DEF Good, UnindexedAreOwn
<1>4. ASSUME n.marker # None PROVE n.facts = Derived(n)
  <2>1. f.facts = Derived(f)
    BY <1>1, <1>4 DEF Good, FactsAreDerived
  <2>2. \A g \in Grants : f.facts[g] = Absent <=> f.grants[g] = Absent
    BY <2>1, ValueAssumption DEF Derived, Good, LinksAreReal, File
  <2>3. ASSUME NEW g \in Grants PROVE n.facts[g] = Derived(n)[g]
    <3>1. Derived(n)[g] = IF n.grants[g] = Absent THEN Absent
                          ELSE IF n.grants[g] \in n.charities /\ ~n.override
                          THEN n.grants[g] ELSE NoLink
      BY DEF Derived
    <3> QED
      BY <3>1, <1>1, <1>a, <2>2, ValueAssumption
  <2> QED
    BY <1>1, <2>3 DEF Derived
<1>5. FactsAreDerived(n)
  BY <1>4 DEF FactsAreDerived
<1>6. ResetHolds(n)
  <2>1. \A g \in Grants : n.facts[g] \notin Profiles
    BY <1>a, ValueAssumption
  <2>2. \A g \in Grants : n.grants[g] \in {Absent, NoLink, Own}
    BY <1>a DEF Good, UnindexedAreOwn
  <2> QED
    BY <1>1, <2>1, <2>2 DEF ResetHolds
<1> QED
  BY <1>1, <1>2, <1>3, <1>5, <1>6 DEF Good, PayloadFits, OverviewFits

(* A relink: they all get the link that was chosen.                        *)
RelinkFile(f, p) ==
    [LinkTo(f, p) EXCEPT !.override = FALSE, !.row = None, !.over = None]

LEMMA RelinkIsGood ==
    ASSUME NEW f, Good(f), NEW p \in f.charities
    PROVE  Good(RelinkFile(f, p)) /\ OverviewFits(RelinkFile(f, p))
<1> DEFINE n == RelinkFile(f, p)
<1>0. p \in Profiles
  BY DEF Good, File
<1>1. /\ n \in File
      /\ n.grants = [g \in Grants |-> IF g \in Indexed(f) THEN p ELSE f.grants[g]]
      /\ n.facts = [g \in Grants |-> IF g \in Indexed(f) THEN p ELSE f.facts[g]]
      /\ n.marker = f.marker /\ n.override = FALSE /\ n.charities = f.charities
      /\ n.row = None /\ n.over = None
  BY <1>0 DEF RelinkFile, LinkTo, Good, File, Links, Rows, Overviews
<1>a. \A g \in Grants :
          /\ n.facts[g] = IF f.facts[g] = Absent THEN Absent ELSE p
          /\ n.grants[g] = IF f.facts[g] = Absent THEN f.grants[g] ELSE p
  <2>1. ASSUME NEW g \in Grants
        PROVE  /\ n.facts[g] = IF g \in Indexed(f) THEN p ELSE f.facts[g]
               /\ n.grants[g] = IF g \in Indexed(f) THEN p ELSE f.grants[g]
    <3>1. /\ n.grants = [g1 \in Grants |-> IF g1 \in Indexed(f) THEN p ELSE f.grants[g1]]
          /\ n.facts = [g1 \in Grants |-> IF g1 \in Indexed(f) THEN p ELSE f.facts[g1]]
      BY <1>1
    <3> HIDE DEF n
    <3> QED
      BY <3>1, Zenon
  <2>2. \A g \in Grants : g \in Indexed(f) <=> f.facts[g] # Absent
    BY DEF Indexed
  <2> HIDE DEF n
  <2> QED
    BY <2>1, <2>2
<1>2. LinksAreReal(n)
  <2>1. \A g \in Grants : f.grants[g] \in f.charities \cup {NoLink, Absent}
    BY DEF Good, LinksAreReal
  <2>2. \A g \in Grants : n.grants[g] \in f.charities \cup {NoLink, Absent}
    BY <1>a, <2>1
  <2>3. n.charities = f.charities
    BY <1>1
  <2> QED
    BY <2>2, <2>3 DEF LinksAreReal
<1>3. UnindexedAreOwn(n)
  BY <1>0, <1>a, ValueAssumption DEF Good, UnindexedAreOwn
<1>4. ASSUME n.marker # None PROVE n.facts = Derived(n)
  <2>1. f.facts = Derived(f)
    BY <1>1, <1>4 DEF Good, FactsAreDerived
  <2>2. \A g \in Grants : f.facts[g] = Absent <=> f.grants[g] = Absent
    BY <2>1, ValueAssumption DEF Derived, Good, LinksAreReal, File
  <2>3. ASSUME NEW g \in Grants PROVE n.facts[g] = Derived(n)[g]
    <3>1. Derived(n)[g] = IF n.grants[g] = Absent THEN Absent
                          ELSE IF n.grants[g] \in n.charities /\ ~n.override
                          THEN n.grants[g] ELSE NoLink
      BY DEF Derived
    <3> QED
      BY <3>1, <1>0, <1>1, <1>a, <2>2, ValueAssumption
  <2> QED
    BY <1>1, <2>3 DEF Derived
<1>5. FactsAreDerived(n)
  BY <1>4 DEF FactsAreDerived
<1> QED
  BY <1>1, <1>2, <1>3, <1>5 DEF Good, PayloadFits, OverviewFits, ResetHolds

(* An enrichment: what is unlinked gets the funder's own profile, in the   *)
(* grants and in the facts, and the user's decision is lifted.             *)
EnrichFile(f) ==
    [f EXCEPT !.charities = @ \cup {Own}, !.override = FALSE,
              !.grants = Filled(@), !.facts = Filled(@),
              !.over = IF @ = None THEN None ELSE [@ EXCEPT !.late = TRUE]]

LEMMA EnrichIsGood ==
    ASSUME NEW f, Good(f)
    PROVE  Good(EnrichFile(f)) /\ OverviewFits(EnrichFile(f))
<1> DEFINE n == EnrichFile(f)
           o == IF f.over = None THEN None ELSE [f.over EXCEPT !.late = TRUE]
<1>0. o \in Overviews /\ (o # None => o.late)
  BY DEF Good, File, Overviews
<1>1. /\ n \in File
      /\ n.grants = Filled(f.grants) /\ n.facts = Filled(f.facts)
      /\ n.marker = f.marker /\ n.override = FALSE
      /\ n.charities = f.charities \cup {Own}
      /\ n.row = f.row /\ n.over = o
  BY <1>0, OwnAssumption DEF EnrichFile, Filled, Good, File, Links
<1>2. LinksAreReal(n)
  BY <1>1 DEF Good, LinksAreReal, File, Filled
<1>3. UnindexedAreOwn(n)
  BY <1>1, OwnAssumption, ValueAssumption DEF Good, UnindexedAreOwn, File, Filled
<1>4. ASSUME n.marker # None PROVE n.facts = Derived(n)
  <2>1. f.facts = Derived(f)
    BY <1>1, <1>4 DEF Good, FactsAreDerived
  <2>2. ASSUME NEW g \in Grants PROVE n.facts[g] = Derived(n)[g]
    <3>1. f.facts[g] = IF f.grants[g] = Absent THEN Absent
                       ELSE IF f.grants[g] \in f.charities /\ ~f.override
                       THEN f.grants[g] ELSE NoLink
      BY <2>1 DEF Derived
    <3>2. f.grants[g] \in f.charities \cup {NoLink, Absent}
      BY DEF Good, LinksAreReal
    <3>3. f.override => f.grants[g] \in {Absent, NoLink, Own}
      BY DEF Good, ResetHolds
    <3>4. /\ n.facts[g] = IF f.facts[g] = NoLink THEN Own ELSE f.facts[g]
          /\ n.grants[g] = IF f.grants[g] = NoLink THEN Own ELSE f.grants[g]
      BY <1>1 DEF Filled
    <3>5. Derived(n)[g] = IF n.grants[g] = Absent THEN Absent
                          ELSE IF n.grants[g] \in f.charities \cup {Own}
                          THEN n.grants[g] ELSE NoLink
      BY <1>1 DEF Derived
    <3>6. f.charities \subseteq Profiles
      BY DEF Good, File
    <3>7. CASE f.grants[g] = Absent
      BY <3>1, <3>4, <3>5, <3>7, ValueAssumption, OwnAssumption
    <3>8. CASE f.grants[g] = NoLink
      BY <3>1, <3>4, <3>5, <3>8, ValueAssumption, OwnAssumption
    <3>9. CASE f.grants[g] \in f.charities
      BY <3>1, <3>3, <3>4, <3>5, <3>6, <3>9, ValueAssumption, OwnAssumption
    <3> QED
      BY <3>2, <3>7, <3>8, <3>9
  <2> QED
    BY <1>1, <2>2 DEF Derived, Filled
<1>5. FactsAreDerived(n)
  BY <1>4 DEF FactsAreDerived
<1>6. PayloadFits(n) /\ ResetHolds(n) /\ OverviewFits(n)
  BY <1>0, <1>1 DEF Good, PayloadFits, ResetHolds, OverviewFits
<1> QED
  BY <1>1, <1>2, <1>3, <1>5, <1>6 DEF Good

(* What an import makes of its staging file.                               *)
LEMMA ConsolidatedIsGood ==
    ASSUME Good(staging), NEW profiles \in SUBSET Profiles, NEW present \in SUBSET Grants,
           NEW linked \in SUBSET present, NEW data \in Nat
    PROVE  /\ Good(Consolidated(profiles, present, linked, data))
           /\ OverviewFits(Consolidated(profiles, present, linked, data))
<1> DEFINE n == Consolidated(profiles, present, linked, data)
<1>1. /\ n \in File
      /\ n.grants = [g \in Grants |-> IF g \notin present THEN Absent
                                      ELSE IF g \in linked /\ Own \in profiles THEN Own
                                      ELSE NoLink]
      /\ n.facts = [g \in Grants |-> Absent]
      /\ n.marker = None /\ n.override = staging.override /\ n.charities = profiles
      /\ n.row = staging.row /\ n.over = None
  BY OwnAssumption DEF Consolidated, Good, File, Links, Overviews
<1>2. LinksAreReal(n) /\ UnindexedAreOwn(n) /\ FactsAreDerived(n)
  BY <1>1 DEF LinksAreReal, UnindexedAreOwn, FactsAreDerived
<1>3. ResetHolds(n) /\ PayloadFits(n) /\ OverviewFits(n)
  BY <1>1, ValueAssumption DEF Good, ResetHolds, PayloadFits, OverviewFits
<1> QED
  BY <1>1, <1>2, <1>3 DEF Good

LEMMA MergedIsGood ==
    ASSUME Good(staging), NEW arrived \in SUBSET Grants, NEW data \in Nat
    PROVE  Good(Merged(arrived, data)) /\ OverviewFits(Merged(arrived, data))
<1> DEFINE n == Merged(arrived, data)
           old == LinkExisting(staging)
<1>0. /\ old \in [Grants -> Links]
      /\ \A g \in Grants : old[g] = staging.grants[g] \/ old[g] = Own
  BY OwnAssumption DEF LinkExisting, Filled, Good, File, Links
<1>1. /\ n \in File
      /\ n.grants = [g \in Grants |-> IF g \in arrived THEN Own ELSE old[g]]
      /\ n.facts = [g \in Grants |-> IF g \in arrived THEN Absent ELSE staging.facts[g]]
      /\ n.marker = None /\ n.override = staging.override
      /\ n.charities = staging.charities \cup {Own}
      /\ n.row = staging.row /\ n.over = None
  BY <1>0, OwnAssumption DEF Merged, Good, File, Links, Overviews
<1>2. LinksAreReal(n)
  BY <1>0, <1>1 DEF Good, LinksAreReal, File
<1>3. UnindexedAreOwn(n)
  BY <1>0, <1>1 DEF Good, UnindexedAreOwn, File
<1>4. FactsAreDerived(n) /\ PayloadFits(n) /\ OverviewFits(n)
  BY <1>1 DEF Good, FactsAreDerived, PayloadFits, OverviewFits
<1>5. ResetHolds(n)
  BY <1>0, <1>1, ValueAssumption DEF Good, ResetHolds, File
<1> QED
  BY <1>1, <1>2, <1>3, <1>4, <1>5 DEF Good

LEMMA FullRunIsGood ==
    ASSUME Good(staging), NEW arrived \in SUBSET Grants, NEW data \in Nat, NEW warm \in BOOLEAN
    PROVE  /\ Good(FullRun(arrived, data, warm))
           /\ OverviewFits(FullRun(arrived, data, warm))
<1> DEFINE f == Ensured(Merged(arrived, data))
           o == [rev |-> f.marker, shows |-> f.grants, late |-> FALSE]
           n == [f EXCEPT !.over = o]
<1>1. Good(f) /\ OverviewFits(f) /\ f.marker \in Nat
  BY MergedIsGood, EnsuredIsGood
<1>2. o \in Overviews
  BY <1>1 DEF Good, File, Overviews
<1>3. Good(n) /\ n.grants = f.grants /\ n.over = o
  BY <1>1, <1>2, OverviewIsGood
<1>4. OverviewFits(n)
  BY <1>3 DEF OverviewFits
<1>5. CASE warm
  BY <1>3, <1>4, <1>5 DEF FullRun
<1>6. CASE ~warm
  BY <1>1, <1>6 DEF FullRun
<1> QED
  BY <1>5, <1>6

-----------------------------------------------------------------------------
(* The invariant                                                           *)

(* The states of the program after an import satisfy it.                   *)
LEMMA InitGood == Init => LInv
<1> SUFFICES ASSUME Init PROVE LInv
  OBVIOUS
<1>1. PICK links \in [Grants -> {Absent, NoLink, Own}] :
          db = [grants |-> links, facts |-> [g \in Grants |-> Absent], marker |-> None,
                data |-> 0, override |-> FALSE, charities |-> Profiles,
                row |-> None, over |-> None]
  BY DEF Init
<1>2. db \in File
  BY <1>1, OwnAssumption DEF File, Links, Rows, Overviews
<1>3. LinksAreReal(db) /\ UnindexedAreOwn(db)
  BY <1>1, OwnAssumption DEF LinksAreReal, UnindexedAreOwn
<1>4. FactsAreDerived(db) /\ ResetHolds(db) /\ PayloadFits(db) /\ OverviewFits(db)
  BY <1>1 DEF FactsAreDerived, ResetHolds, PayloadFits, OverviewFits
<1>5. /\ req \in [Requests -> RequestStates] /\ hyd \in [Hydrations -> HydrationStates]
      /\ \A r \in Requests : RequestFits(req[r], db)
  BY DEF Init, IdleRequest, IdleHydration, RequestStates, HydrationStates, RequestFits
<1> QED
  BY <1>2, <1>3, <1>4, <1>5 DEF LInv, Good, Init

(* What Change does to the requests: none of them is still trusted.        *)
LEMMA OvertakenFits ==
    ASSUME NEW q \in RequestStates, NEW f, NEW n, RequestFits(q, f)
    PROVE  Overtaken(q) \in RequestStates /\ RequestFits(Overtaken(q), n)
<1>1. CASE q.at = "computed"
  BY <1>1 DEF Overtaken, RequestStates, RequestFits
<1>2. CASE q.at # "computed"
  BY <1>2 DEF Overtaken, RequestFits
<1> QED
  BY <1>1, <1>2

LEMMA ChangeKeeps ==
    ASSUME LInv, NEW f, Good(f), OverviewFits(f), Change(f)
    PROVE  LInv'
<1>1. \A r \in Requests : Overtaken(req[r]) \in RequestStates /\ RequestFits(Overtaken(req[r]), f)
  BY OvertakenFits DEF LInv
<1>2. db' = f /\ req' = [r \in Requests |-> Overtaken(req[r])]
  BY DEF Change
<1>3. /\ req' \in [Requests -> RequestStates]
      /\ \A r \in Requests : RequestFits(req'[r], db')
  BY <1>1, <1>2
<1> QED
  BY <1>2, <1>3 DEF LInv, Change

(* A step that leaves the requests and the links of the grants alone.      *)
LEMMA QuietStepKeeps ==
    ASSUME LInv, NEW f, Good(f), f.grants = db.grants, f.over = db.over, db' = f,
           hyd' \in [Hydrations -> HydrationStates], UNCHANGED <<staging, imports, req>>
    PROVE  LInv'
<1>1. \A r \in Requests : RequestFits(req[r], f)
  BY DEF LInv, RequestFits
<1>2. OverviewFits(f)
  BY DEF LInv, OverviewFits
<1> QED
  BY <1>1, <1>2 DEF LInv

LEMMA OpenKeeps == ASSUME LInv, NEW r \in Requests, Open(r) PROVE LInv'
<1> DEFINE f == Ensured(db)
           q == IF f.over # None /\ f.over.rev = f.marker THEN req[r]
                ELSE [req[r] EXCEPT !.at = "open", !.rev = f.marker]
<1>1. Good(f) /\ OverviewFits(f) /\ f.marker \in Nat /\ f.grants = db.grants
  BY EnsuredIsGood DEF LInv
<1>2. db' = f /\ req' = [req EXCEPT ![r] = q] /\ UNCHANGED <<staging, imports, hyd>>
  BY DEF Open
<1>3. req[r] \in RequestStates /\ req[r].at = "idle"
  BY DEF LInv, Open
<1>4. q \in RequestStates /\ q.at # "computed"
  BY <1>1, <1>3 DEF RequestStates
<1>5. req' \in [Requests -> RequestStates]
  BY <1>2, <1>4 DEF LInv
<1>6. \A s \in Requests : RequestFits(req'[s], f)
  BY <1>1, <1>2, <1>4 DEF LInv, RequestFits
<1> QED
  BY <1>1, <1>2, <1>5, <1>6 DEF LInv

LEMMA ComputedFits ==
    ASSUME LInv, NEW r \in Requests
    PROVE  Computed(r) \in RequestStates /\ RequestFits(Computed(r), db)
<1>1. req[r] \in RequestStates /\ db.grants \in [Grants -> Links]
  BY DEF LInv, Good, File
<1> QED
  BY <1>1 DEF Computed, RequestStates, RequestFits

LEMMA ComputeKeeps == ASSUME LInv, NEW r \in Requests, Compute(r) PROVE LInv'
<1>1. Computed(r) \in RequestStates /\ RequestFits(Computed(r), db)
  BY ComputedFits
<1>2. req' = [req EXCEPT ![r] = Computed(r)] /\ UNCHANGED <<db, staging, imports, hyd>>
  BY DEF Compute
<1>3. /\ req' \in [Requests -> RequestStates]
      /\ \A s \in Requests : RequestFits(req'[s], db)
  BY <1>1, <1>2 DEF LInv
<1> QED
  BY <1>2, <1>3 DEF LInv

LEMMA StoreKeeps == ASSUME LInv, NEW r \in Requests, Store(r) PROVE LInv'
<1> DEFINE o == [rev |-> req[r].rev, shows |-> req[r].shows, late |-> req[r].late]
           n == [db EXCEPT !.over = o]
<1>1. /\ req[r] \in RequestStates /\ req[r].shows \in [Grants -> Links]
      /\ ~req[r].late => req[r].shows = db.grants
  BY DEF LInv, Store, RequestFits
<1>2. o \in Overviews
  BY <1>1 DEF Overviews, RequestStates
<1>3. Good(n) /\ n.grants = db.grants /\ n.over = o
  BY <1>2, OverviewIsGood DEF LInv
<1>4. OverviewFits(n)
  BY <1>1, <1>3 DEF OverviewFits
<1>5. db' = n /\ req' = [req EXCEPT ![r] = IdleRequest] /\ UNCHANGED <<staging, imports, hyd>>
  BY DEF Store
<1>6. /\ IdleRequest \in RequestStates /\ \A f : RequestFits(IdleRequest, f)
  BY DEF IdleRequest, RequestStates, RequestFits
<1>7. \A s \in Requests : RequestFits(req[s], n)
  BY <1>3 DEF LInv, RequestFits
<1>8. /\ req' \in [Requests -> RequestStates]
      /\ \A s \in Requests : RequestFits(req'[s], n)
  BY <1>5, <1>6, <1>7 DEF LInv
<1> QED
  BY <1>3, <1>4, <1>5, <1>8 DEF LInv

LEMMA DecisionsKeep ==
    ASSUME LInv, Reset \/ Enrich \/ \E p \in Profiles : Relink(p)
    PROVE  LInv'
<1>1. Good(db)
  BY DEF LInv
<1>2. CASE Reset
  BY <1>1, <1>2, ResetIsGood, ChangeKeeps DEF Reset, ResetFile
<1>3. CASE Enrich
  BY <1>1, <1>3, EnrichIsGood, ChangeKeeps DEF Enrich, EnrichFile
<1>4. ASSUME NEW p \in Profiles, Relink(p) PROVE LInv'
  BY <1>1, <1>4, RelinkIsGood, ChangeKeeps DEF Relink, RelinkFile
<1> QED
  BY <1>2, <1>3, <1>4

(* What Linked returns, however it chooses.                                *)
LEMMA LinkedType == ASSUME NEW f PROVE Linked(f) \in Profiles \cup {None}
  BY DEF Linked

LEMMA QueueKeeps == ASSUME LInv, Queue PROVE LInv'
<1> DEFINE p == Linked(db)
           row == [profile |-> p, status |-> "pending", of |-> None]
<1>1. p \in Profiles /\ ~db.override
  BY LinkedType DEF Queue
<1>2. row \in Rows /\ ~(row.status = "ready")
  BY <1>1 DEF Rows
<1>3. db' = [db EXCEPT !.row = row] /\ UNCHANGED <<staging, imports, req, hyd>>
  BY DEF Queue
<1>4. Good([db EXCEPT !.row = row]) /\ [db EXCEPT !.row = row].grants = db.grants
      /\ [db EXCEPT !.row = row].over = db.over
  BY <1>1, <1>2, RowIsGood DEF LInv
<1>5. hyd' \in [Hydrations -> HydrationStates]
  BY <1>3 DEF LInv
<1> QED
  BY <1>3, <1>4, <1>5, QuietStepKeeps

(* The hydration deletes the row, leaves it, or changes it in place.       *)
LEMMA NoRowIsGood ==
    ASSUME NEW f, Good(f)
    PROVE  /\ Good([f EXCEPT !.row = None]) /\ [f EXCEPT !.row = None].grants = f.grants
           /\ [f EXCEPT !.row = None].over = f.over
<1>1. None \in Rows
  BY DEF Rows
<1> QED
  BY <1>1, RowIsGood

LEMMA HydrateReadKeeps == ASSUME LInv, NEW h \in Hydrations, HydrateRead(h) PROVE LInv'
<1>1. Linked(db) \in Profiles \cup {None}
  BY LinkedType
<1>2. hyd' \in [Hydrations -> HydrationStates]
  BY <1>1 DEF LInv, HydrateRead, HydrationStates
<1>3. UNCHANGED <<staging, imports, req>>
  BY DEF HydrateRead
<1>4. CASE db' = db
  BY <1>2, <1>3, <1>4, QuietStepKeeps DEF LInv
<1>5. CASE db' = [db EXCEPT !.row = None]
  BY <1>2, <1>3, <1>5, NoRowIsGood, QuietStepKeeps DEF LInv
<1> QED
  BY <1>4, <1>5 DEF HydrateRead

LEMMA HydrateFailsKeeps == ASSUME LInv, NEW h \in Hydrations, HydrateFails(h) PROVE LInv'
<1> DEFINE p == hyd[h].profile
           row == [db.row EXCEPT !.status = "failed"]
<1>1. hyd' \in [Hydrations -> HydrationStates] /\ UNCHANGED <<staging, imports, req>>
  BY DEF LInv, HydrateFails, IdleHydration, HydrationStates
<1>2. CASE RowOf(p)
  <2>1. db.row \in Rows /\ db.row # None /\ ~db.override
    BY <1>2 DEF RowOf, LInv, Good, File, ResetHolds
  <2>2. row \in Rows /\ ~(row.status = "ready")
    BY <2>1 DEF Rows
  <2>3. Good([db EXCEPT !.row = row]) /\ [db EXCEPT !.row = row].grants = db.grants
        /\ [db EXCEPT !.row = row].over = db.over
    BY <2>1, <2>2, RowIsGood DEF LInv
  <2>4. db' = [db EXCEPT !.row = row]
    BY <1>2 DEF HydrateFails
  <2> QED
    BY <1>1, <2>3, <2>4, QuietStepKeeps
<1>3. CASE ~RowOf(p)
  <2>1. db' = db
    BY <1>3 DEF HydrateFails
  <2> QED
    BY <1>1, <2>1, QuietStepKeeps DEF LInv
<1> QED
  BY <1>2, <1>3

LEMMA HydrateWriteKeeps == ASSUME LInv, NEW h \in Hydrations, HydrateWrite(h) PROVE LInv'
<1> DEFINE p == hyd[h].profile
           row == [db.row EXCEPT !.status = "ready", !.of = p]
<1>1. hyd' \in [Hydrations -> HydrationStates] /\ UNCHANGED <<staging, imports, req>>
  BY DEF LInv, HydrateWrite, IdleHydration, HydrationStates
<1>2. CASE db.override \/ Linked(db) # p
  <2>1. db' = [db EXCEPT !.row = None]
    BY <1>2 DEF HydrateWrite
  <2> QED
    BY <1>1, <2>1, NoRowIsGood, QuietStepKeeps DEF LInv
<1>3. CASE ~(db.override \/ Linked(db) # p) /\ RowOf(p)
  <2>1. db.row \in Rows /\ db.row # None /\ db.row.profile = p
    BY <1>3 DEF RowOf, LInv, Good, File
  <2>2. row \in Rows /\ row.of = row.profile
    BY <2>1 DEF Rows
  <2>3. Good([db EXCEPT !.row = row]) /\ [db EXCEPT !.row = row].grants = db.grants
        /\ [db EXCEPT !.row = row].over = db.over
    BY <1>3, <2>2, RowIsGood DEF LInv
  <2>4. db' = [db EXCEPT !.row = row]
    BY <1>3 DEF HydrateWrite
  <2> QED
    BY <1>1, <2>3, <2>4, QuietStepKeeps
<1>4. CASE ~(db.override \/ Linked(db) # p) /\ ~RowOf(p)
  <2>1. db' = db
    BY <1>4 DEF HydrateWrite
  <2> QED
    BY <1>1, <2>1, QuietStepKeeps DEF LInv
<1> QED
  BY <1>2, <1>3, <1>4

(* A publication brings a good file and distrusts every request.           *)
LEMMA PublishKeeps ==
    ASSUME LInv, NEW f, Good(f), OverviewFits(f), Publish(f)
    PROVE  LInv'
<1> DEFINE q(r) == IF req[r].at = "open" THEN Overtaken(Computed(r)) ELSE Overtaken(req[r])
<1>1. ASSUME NEW r \in Requests PROVE q(r) \in RequestStates /\ RequestFits(q(r), f)
  <2>1. req[r] \in RequestStates /\ RequestFits(req[r], db)
    BY DEF LInv
  <2>2. Computed(r) \in RequestStates /\ RequestFits(Computed(r), db)
    BY ComputedFits
  <2> QED
    BY <2>1, <2>2, OvertakenFits
<1>2. /\ db' = f /\ req' = [r \in Requests |-> q(r)] /\ staging' = None
      /\ imports' = imports + 1 /\ hyd' = hyd
  BY DEF Publish
<1>3. /\ req' \in [Requests -> RequestStates]
      /\ \A r \in Requests : RequestFits(req'[r], db')
  BY <1>1, <1>2
<1> QED
  BY <1>2, <1>3 DEF LInv

LEMMA ImportsKeep == ASSUME LInv, Clone \/ Consolidate \/ RunFull \/ Discard PROVE LInv'
<1>1. CASE Clone
  BY <1>1 DEF Clone, LInv
<1>2. CASE Discard
  BY <1>2 DEF Discard, LInv
<1>3. ASSUME staging # None
      PROVE  Good(staging) /\ Fingerprints \subseteq Nat
  BY <1>3 DEF LInv, Good, File, Fingerprints
<1>4. CASE Consolidate
  <2>1. PICK profiles \in SUBSET Profiles, present \in SUBSET Grants, data \in Fingerprints :
            \E linked \in SUBSET present :
                Publish(Consolidated(profiles, present, linked, data))
    BY <1>4 DEF Consolidate
  <2>2. PICK linked \in SUBSET present : Publish(Consolidated(profiles, present, linked, data))
    BY <2>1
  <2>3. Good(staging) /\ data \in Nat
    BY <1>3, <1>4 DEF Consolidate
  <2> QED
    BY <2>2, <2>3, ConsolidatedIsGood, PublishKeeps
<1>5. CASE RunFull
  <2>1. PICK arrived \in SUBSET Grants, data \in Fingerprints, warm \in BOOLEAN :
            Publish(FullRun(arrived, data, warm))
    BY <1>5 DEF RunFull
  <2>2. Good(staging) /\ data \in Nat
    BY <1>3, <1>5 DEF RunFull
  <2> QED
    BY <2>1, <2>2, FullRunIsGood, PublishKeeps
<1> QED
  BY <1>1, <1>2, <1>4, <1>5

(* Every step keeps the invariant.                                         *)
THEOREM LinksInvariance == Spec => []LInv
<1>1. LInv /\ [Next]_vars => LInv'
  <2> SUFFICES ASSUME LInv, [Next]_vars PROVE LInv'
    OBVIOUS
  <2>1. CASE \E r \in Requests : Open(r) \/ Compute(r) \/ Store(r)
    BY <2>1, OpenKeeps, ComputeKeeps, StoreKeeps
  <2>2. CASE Reset \/ Enrich \/ \E p \in Profiles : Relink(p)
    BY <2>2, DecisionsKeep
  <2>3. CASE Queue
    BY <2>3, QueueKeeps
  <2>4. CASE \E h \in Hydrations : HydrateRead(h) \/ HydrateFails(h) \/ HydrateWrite(h)
    BY <2>4, HydrateReadKeeps, HydrateFailsKeeps, HydrateWriteKeeps
  <2>5. CASE Clone \/ Consolidate \/ RunFull \/ Discard
    BY <2>5, ImportsKeep
  <2>6. CASE UNCHANGED vars
    BY <2>6 DEF vars, LInv, Good, File, LinksAreReal, UnindexedAreOwn, FactsAreDerived,
                ResetHolds, PayloadFits, OverviewFits, RequestFits, Derived
  <2> QED
    BY <2>1, <2>2, <2>3, <2>4, <2>5, <2>6 DEF Next
<1> QED
  BY InitGood, <1>1, PTL DEF Spec

(* Where the marker is, the facts show what a rebuild would show.          *)
THEOREM FactsStayCurrent == Spec => []DerivedFactsAreCurrent
<1>1. LInv => DerivedFactsAreCurrent
  BY DEF LInv, Good, FactsAreDerived, DerivedFactsAreCurrent
<1> QED
  BY LinksInvariance, <1>1, PTL

(* No fact and no cached profile escapes the user's decision.              *)
THEOREM ResetsAreRespected == Spec => []ResetIsRespected
<1>1. LInv => ResetIsRespected
  BY DEF LInv, Good, ResetHolds, ResetIsRespected
<1> QED
  BY LinksInvariance, <1>1, PTL

(* A ready row holds the payload of its own profile.                       *)
THEOREM PayloadsAreOwn == Spec => []ReadyPayloadIsOwn
<1>1. LInv => ReadyPayloadIsOwn
  BY DEF LInv, Good, PayloadFits, ReadyPayloadIsOwn
<1> QED
  BY LinksInvariance, <1>1, PTL

(* A cached overview is current unless one of the two named ways made it   *)
(* stale.                                                                  *)
THEOREM OverviewsAreCurrent == Spec => []ServedOverviewIsCurrent
<1>1. LInv => ServedOverviewIsCurrent
  BY DEF LInv, OverviewFits, ServedOverviewIsCurrent
<1> QED
  BY LinksInvariance, <1>1, PTL
=============================================================================
