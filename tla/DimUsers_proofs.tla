--------------------------- MODULE DimUsers_proofs ---------------------------
(***************************************************************************)
(* The user dimension is well typed, an as-of query is unambiguous, and    *)
(* what a build sets out to write shows what is staged, for any users,     *)
(* values and number of builds.                                            *)
(***************************************************************************)
EXTENDS DimUsers, TLAPS

\* What DimUsers!AsOfUnique needs to be preserved: no version begins or was closed after t,
\* and two versions of a user do not overlap.
Sound(v, t) ==
  /\ v.from < v.to /\ v.from <= t
  /\ v.current <=> v.to = Forever
  /\ v.current \/ v.to <= t
Apart(v, w) == v.user = w.user => v = w \/ v.to <= w.from \/ w.to <= v.from
WellFormed(D, t) == (\A v \in D : Sound(v, t)) /\ (\A v, w \in D : Apart(v, w))

\* `base` was the dimension before the clock of the build.
DimInv ==
  /\ WellFormed(dim, now) /\ WellFormed(result_df, now)
  /\ at # "idle" => now \in Nat \ {0} /\ WellFormed(base, now - 1)
-----------------------------------------------------------------------------
LEMMA FreshType ==
  ASSUME TypeOK, NEW u \in InStaging
  PROVE  Fresh(u) \in Versions /\ Fresh(u).user = u
BY DimUsersAssumption DEF TypeOK, InStaging, Fresh, Versions, Forever

LEMMA ClosedType ==
  ASSUME TypeOK, NEW v \in Versions
  PROVE  /\ ClosedNow(v) \in Versions
         /\ ClosedNow(v).user = v.user /\ ClosedNow(v).from = v.from
         /\ ClosedNow(v).to = now /\ ClosedNow(v).current = FALSE
<1>1. now \in 0 .. Forever
  BY DimUsersAssumption DEF TypeOK, Forever
<1> QED BY <1>1 DEF ClosedNow, Versions

LEMMA InitType == Init => TypeOK
<1> SUFFICES ASSUME Init PROVE TypeOK
  OBVIOUS
<1>1. exists \in BOOLEAN /\ torn \in BOOLEAN
  BY DEF Init
<1>2. now \in 0 .. MaxBuilds
  BY DimUsersAssumption DEF Init
<1>3. staged \in [Users -> Values \cup {NoRow}]
  BY DEF Init
<1> QED BY <1>1, <1>2, <1>3 DEF Init, TypeOK

LEMMA NextType == TypeOK /\ [Next]_vars => TypeOK'
<1> SUFFICES ASSUME TypeOK, [Next]_vars PROVE TypeOK'
  OBVIOUS
<1>1. ASSUME NEW u \in Users, NEW value \in Values \cup {NoRow}, StagingChanges(u, value)
      PROVE  TypeOK'
  BY <1>1 DEF StagingChanges, TypeOK
<1>2. CASE BuildStarts
  <2>1. now' \in 0 .. MaxBuilds
    BY <1>2, DimUsersAssumption DEF BuildStarts, TypeOK
  <2>2. exists' \in BOOLEAN /\ torn' \in BOOLEAN
    BY <1>2 DEF BuildStarts, TypeOK
  <2>3. at' \in {"idle", "first", "merge", "delete", "write"} /\ result_df' \subseteq Versions
    BY <1>2 DEF BuildStarts
  <2> QED BY <1>2, <2>1, <2>2, <2>3 DEF BuildStarts, TypeOK
<1>3. CASE FirstLoad
  <2>1. dim' \subseteq Versions /\ result_df' \subseteq Versions
    BY <1>3, FreshType DEF FirstLoad
  <2> QED BY <1>3, <2>1 DEF FirstLoad, TypeOK
<1>4. CASE DeleteOld
  BY <1>4 DEF DeleteOld, TypeOK
<1>5. CASE CountMerge
  <2>1. new_rows \subseteq Versions
    BY FreshType DEF new_rows, new, changed
  <2>2. rows_to_close \subseteq Versions
    <3>1. toClose \subseteq Versions
      BY DEF toClose, TypeOK
    <3>2. ASSUME NEW o \in toClose PROVE ClosedNow(o) \in Versions
      BY <3>1, ClosedType
    <3> QED BY <3>2 DEF rows_to_close
  <2>3. result_df' \subseteq Versions
    BY <1>5, <2>1, <2>2 DEF CountMerge, unchanged_rows, TypeOK
  <2> QED BY <1>5, <2>3 DEF CountMerge, TypeOK
<1>6. CASE BuildFails
  BY <1>6 DEF BuildFails, TypeOK
<1>7. CASE UNCHANGED vars
  BY <1>7 DEF vars, TypeOK
<1> QED BY <1>1, <1>2, <1>3, <1>4, <1>5, <1>6, <1>7 DEF Next

\* Types, for any users, values and number of builds: no version holds a missing row.
THEOREM DimTypeCorrect == Spec => []TypeOK
BY InitType, NextType, PTL DEF Spec
-----------------------------------------------------------------------------
LEMMA Later ==
  ASSUME NEW D \in SUBSET Versions, NEW t \in Int, NEW s \in Int, t <= s, WellFormed(D, t)
  PROVE  WellFormed(D, s)
<1>1. \A v \in D : v.from \in Int /\ v.to \in Int
  BY DEF Versions
<1> QED BY <1>1 DEF WellFormed, Sound

\* What a build writes over a well-formed table is well formed.
LEMMA Written ==
  ASSUME TypeOK, now \in Nat \ {0}, WellFormed(base, now - 1)
  PROVE  WellFormed(unchanged_rows \cup rows_to_close \cup new_rows, now)
<1>0. now < Forever /\ Forever \in Nat
  BY DimUsersAssumption DEF TypeOK, Forever
<1>1. ASSUME NEW v \in unchanged_rows
      PROVE  /\ v \in base /\ v \in Versions /\ v.user \notin changed
             /\ Sound(v, now) /\ (~v.current => v.to < now)
  BY DEF unchanged_rows, TypeOK, WellFormed, Sound, Versions
<1>2. ASSUME NEW v \in rows_to_close
      PROVE  \E o \in base : /\ o \in Versions /\ o.current /\ o.user \in changed /\ o.from < now
                             /\ v = ClosedNow(o) /\ v.user = o.user /\ v.from = o.from
  <2>1. PICK o \in base : o.user \in changed /\ o.current /\ v = ClosedNow(o)
    BY DEF rows_to_close, toClose
  <2>2. o \in Versions /\ o.from <= now - 1
    BY DEF TypeOK, WellFormed, Sound
  <2>3. o.from < now
    BY <2>2 DEF Versions
  <2> QED BY <2>1, <2>2, <2>3, ClosedType
<1>3. ASSUME NEW v \in rows_to_close
      PROVE  v.user \in changed /\ v.to = now /\ v.current = FALSE /\ Sound(v, now)
  <2>1. PICK o \in base : /\ o \in Versions /\ o.user \in changed /\ o.from < now
                          /\ v = ClosedNow(o)
    BY <1>2
  <2>2. /\ v.user \in changed /\ v.from = o.from /\ v.to = now /\ v.current = FALSE
    BY <2>1, ClosedType
  <2>3. v.from < v.to /\ v.from <= now /\ v.to # Forever /\ v.to <= now
    BY <1>0, <2>1, <2>2 DEF Versions
  <2> QED BY <2>2, <2>3 DEF Sound
<1>4. ASSUME NEW v \in new_rows
      PROVE  v.user \in new \cup changed /\ v = Fresh(v.user) /\ v.from = now /\ Sound(v, now)
  BY <1>0 DEF new_rows, Fresh, Sound, TypeOK
<1>5. \A v \in unchanged_rows, w \in unchanged_rows : Apart(v, w)
  BY <1>1 DEF WellFormed
<1>6. \A v \in unchanged_rows, w \in rows_to_close : Apart(v, w) /\ Apart(w, v)
  BY <1>1, <1>3 DEF Apart
<1>7. ASSUME NEW v \in unchanged_rows, NEW w \in new_rows PROVE Apart(v, w) /\ Apart(w, v)
  <2>1. CASE v.user # w.user
    BY <2>1 DEF Apart
  <2>2. CASE v.user = w.user
    <3>1. v.user \in new
      BY <1>1, <1>4, <2>2
    <3>2. ~v.current
      BY <1>1, <3>1 DEF new, CurrentOf
    <3>3. v.to < w.from
      BY <1>1, <1>4, <3>2
    <3>4. v.to <= w.from
      BY <1>1, <3>3, <1>4 DEF TypeOK, Versions
    <3> QED BY <3>4 DEF Apart
  <2> QED BY <2>1, <2>2
<1>8. ASSUME NEW v \in rows_to_close, NEW w \in rows_to_close PROVE Apart(v, w)
  <2>1. PICK o \in base : o.current /\ o.from < now /\ v = ClosedNow(o)
    BY <1>2
  <2>2. PICK p \in base : p.current /\ p.from < now /\ w = ClosedNow(p)
    BY <1>2
  <2>3. o \in Versions /\ p \in Versions /\ v.user = o.user /\ w.user = p.user
    BY <2>1, <2>2, ClosedType DEF TypeOK
  <2>4. o.to = Forever /\ p.to = Forever
    BY <2>1, <2>2 DEF WellFormed, Sound
  <2>5. o.user = p.user => o = p
    BY <1>0, <2>1, <2>2, <2>3, <2>4 DEF WellFormed, Apart, Versions
  <2> QED BY <2>1, <2>2, <2>3, <2>5 DEF Apart
<1>9. ASSUME NEW v \in rows_to_close, NEW w \in new_rows PROVE Apart(v, w) /\ Apart(w, v)
  <2>1. v.to = now /\ w.from = now
    BY <1>3, <1>4
  <2> QED BY <2>1 DEF Apart
<1>10. \A v \in new_rows, w \in new_rows : Apart(v, w)
  BY <1>4 DEF Apart
<1>11. \A v \in unchanged_rows \cup rows_to_close \cup new_rows : Sound(v, now)
  BY <1>1, <1>3, <1>4
<1> QED BY <1>5, <1>6, <1>7, <1>8, <1>9, <1>10, <1>11 DEF WellFormed

LEMMA FirstWritten ==
  ASSUME TypeOK
  PROVE  WellFormed({Fresh(u) : u \in InStaging}, now)
<1>1. now < Forever /\ now \in Nat /\ Forever \in Nat
  BY DimUsersAssumption DEF TypeOK, Forever
<1> DEFINE D == {Fresh(u) : u \in InStaging}
<1>2. ASSUME NEW v \in D
      PROVE  v = Fresh(v.user) /\ Sound(v, now)
  BY <1>1 DEF Sound, Fresh
<1>3. \A v \in D, w \in D : Apart(v, w)
  BY <1>2 DEF Apart
<1> HIDE DEF D
<1>4. WellFormed(D, now)
  BY <1>2, <1>3 DEF WellFormed
<1> QED BY <1>4 DEF D

LEMMA NextDim == TypeOK /\ DimInv /\ [Next]_vars => DimInv'
<1> SUFFICES ASSUME TypeOK, DimInv, [Next]_vars PROVE DimInv'
  OBVIOUS
<1>1. CASE \E u \in Users, value \in Values \cup {NoRow} : StagingChanges(u, value)
  BY <1>1 DEF StagingChanges, DimInv, WellFormed
<1>2. CASE BuildStarts
  <2>1. now \in Nat /\ now' = now + 1 /\ dim' = dim /\ base' = dim /\ WellFormed(result_df', now')
    BY <1>2 DEF BuildStarts, TypeOK, WellFormed
  <2>2. WellFormed(dim, now + 1)
    BY <2>1, Later DEF DimInv, TypeOK
  <2>3. now' - 1 = now /\ now' \in Nat \ {0}
    BY <2>1
  <2> QED BY <2>1, <2>2, <2>3 DEF DimInv
<1>3. CASE FirstLoad
  <2>1. WellFormed(dim', now) /\ WellFormed(result_df', now)
    BY <1>3, FirstWritten DEF FirstLoad
  <2> QED BY <1>3, <2>1 DEF FirstLoad, DimInv
<1>4. CASE DeleteOld
  BY <1>4 DEF DeleteOld, DimInv, WellFormed
<1>5. CASE CountMerge
  <2>1. WellFormed(result_df', now)
    BY <1>5, Written DEF CountMerge, DimInv
  <2> QED BY <1>5, <2>1 DEF CountMerge, DimInv
<1>6. CASE BuildFails
  BY <1>6 DEF BuildFails, DimInv
<1>7. CASE UNCHANGED vars
  BY <1>7 DEF vars, DimInv
<1> QED BY <1>1, <1>2, <1>3, <1>4, <1>5, <1>6, <1>7 DEF Next

LEMMA DimUnambiguous == TypeOK /\ DimInv => AsOfUnique
<1> SUFFICES ASSUME TypeOK, DimInv, NEW table \in {dim, result_df},
                    NEW v \in table, NEW w \in table, v.user = w.user
             PROVE  /\ \A t \in 0 .. MaxBuilds :
                        (v.from <= t /\ t < v.to) /\ (w.from <= t /\ t < w.to) => v = w
                    /\ v.current /\ w.current => v = w
                    /\ v.current <=> v.to = Forever
  BY DEF AsOfUnique
<1>1. Sound(v, now) /\ Sound(w, now) /\ Apart(v, w)
  BY DEF DimInv, WellFormed
<1>2. /\ v.from \in Int /\ v.to \in Int /\ w.from \in Int /\ w.to \in Int
      /\ now < Forever /\ now \in Int /\ Forever \in Int
  BY DimUsersAssumption DEF TypeOK, Versions, Forever
<1> QED BY <1>1, <1>2 DEF Sound, Apart

\* Whatever users, changes of staging and number of builds, and whichever of them fail: the
\* historical query finds at most one version, and `is_current` marks the open one.
THEOREM OneVersionAtATime == Spec => []AsOfUnique
<1>1. Init => DimInv
  BY DEF Init, DimInv, WellFormed
<1> QED BY <1>1, InitType, NextType, NextDim, DimUnambiguous, PTL DEF Spec
-----------------------------------------------------------------------------
(* What a build sets out to write *)

\* While no staging file is gone, the rows the build has opened are those of staging.
OpenedInv == at # "idle" /\ ~torn => staged = staging

LEMMA NextOpened == OpenedInv /\ [Next]_vars => OpenedInv'
BY DEF OpenedInv, Next, vars, StagingChanges, BuildStarts, FirstLoad, CountMerge, DeleteOld,
       BuildFails

\* Only a first load and the counts of a merge find rows to write.
LEMMA FoundOnlyThere ==
  ASSUME [Next]_vars, at # "idle", result_df' # result_df
  PROVE  FirstLoad \/ CountMerge
BY DEF Next, vars, StagingChanges, BuildStarts, DeleteOld, BuildFails

\* Two values that do not differ for the build are the same, NULL or not.
LEMMA SameWhenNotDiffers ==
  ASSUME NEW s, NEW d, ~Differs(s, d)
  PROVE  s = d
BY DEF Differs, DiffersInSql

LEMMA NotChangedStays ==
  ASSUME NEW v \in base, v.user \notin changed, CountMerge
  PROVE  v \in result_df'
BY DEF CountMerge, unchanged_rows

\* Whatever the table was, whichever users were found changed and whenever staging is replaced:
\* what a build finds to write has, for every user, the current version that staging has then.
THEOREM StagedIsCurrent == Spec => CurrentIsStaged
<1> DEFINE Shown(u) == \E v \in result_df' : v.user = u /\ v.current /\ v.value = staging[u]
           Found == at # "idle" /\ result_df' # result_df
<1>1. ASSUME OpenedInv, [Next]_vars, Found, NEW u \in Users, staging[u] # NoRow PROVE Shown(u)
  <2>0. (FirstLoad \/ CountMerge) /\ staged = staging /\ u \in InStaging
    BY <1>1, FoundOnlyThere DEF FirstLoad, CountMerge, OpenedInv, InStaging
  <2>1. Fresh(u).user = u /\ Fresh(u).current /\ Fresh(u).value = staged[u]
    BY DEF Fresh
  <2>2. CASE FirstLoad
    <3>1. Fresh(u) \in result_df'
      BY <2>0, <2>2 DEF FirstLoad
    <3> QED BY <2>0, <2>1, <3>1
  <2>3. CASE CountMerge /\ u \in new \cup changed
    <3>1. Fresh(u) \in result_df'
      BY <2>0, <2>3 DEF CountMerge, new_rows
    <3> QED BY <2>0, <2>1, <3>1
  <2>4. CASE CountMerge /\ u \notin new \cup changed
    <3>1. PICK v \in CurrentOf(u) : TRUE
      BY <2>0, <2>4 DEF new
    <3>2. v \in base /\ v.current /\ v.user = u
      BY <3>1 DEF CurrentOf
    <3>3. v.value = staged[u]
      BY <2>0, <2>4, <3>1, SameWhenNotDiffers DEF changed
    <3> QED BY <2>0, <2>4, <3>2, <3>3, NotChangedStays
  <2> QED BY <2>0, <2>2, <2>3, <2>4
<1>2. OpenedInv /\ [Next]_vars =>
        [Found => \A u \in Users : staging[u] # NoRow => Shown(u)]_vars
  BY <1>1
<1>3. Init => OpenedInv
  BY DEF Init, OpenedInv
<1> QED BY <1>2, <1>3, NextOpened, PTL DEF CurrentIsStaged, Spec
=============================================================================
