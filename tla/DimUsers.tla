------------------------------ MODULE DimUsers ------------------------------
(***************************************************************************)
(* warehouse.dim_users, a slowly changing dimension of type 2: a build     *)
(* closes the version of each user that changed and adds a new one.  It    *)
(* counts the rows of this merge, and then rewrites the table in place:    *)
(* its files are deleted before the plan that reads them is executed       *)
(* again, so that only a build which finds no table ends well.             *)
(***************************************************************************)
EXTENDS Integers, FiniteSets

CONSTANTS
  Users,
  Values,      \* what the columns of CHANGE_DETECT_COLS can hold
  Null,        \* a member of Values
  NoRow,       \* no row of the user in staging
  MaxBuilds    \* bound: builds

ASSUME DimUsersAssumption ==
  /\ Null \in Values
  /\ NoRow \notin Values
  /\ MaxBuilds \in Nat

Forever == MaxBuilds + 1     \* FAR_FUTURE; the clock counts the builds

Versions == [user : Users, value : Values, from : 0 .. Forever, to : 0 .. Forever,
             current : BOOLEAN]

VARIABLES
  staging,   \* the row of each user in staging.users
  dim,       \* the versions in dim_users
  exists,    \* whether dim_users has files to read
  at,        \* the build's next step
  now,       \* datetime.utcnow() of the last build
  staged,    \* the rows of staging whose files it has opened
  base,      \* the versions whose files it has opened
  torn,      \* staging was replaced since
  result_df  \* the rows it has found to write

vars == <<staging, dim, exists, at, now, staged, base, torn, result_df>>
-----------------------------------------------------------------------------
Fresh(user) ==
  [user |-> user, value |-> staged[user], from |-> now, to |-> Forever, current |-> TRUE]

\* One column differs.
DiffersInSql(s, d) == s # Null /\ d # Null /\ s # d
Differs(s, d) == (s = Null) # (d = Null) \/ DiffersInSql(s, d)

InStaging == {u \in Users : staged[u] # NoRow}
CurrentOf(user) == {v \in base : v.current /\ v.user = user}

AllWithoutCurrent == {u \in Users : CurrentOf(u) = {}}
new == {u \in InStaging : CurrentOf(u) = {}}
changed == {u \in InStaging : \E v \in CurrentOf(u) : Differs(staged[u], v.value)}

toClose == {v \in base : v.user \in changed /\ v.current}
ClosedNow(v) == [v EXCEPT !.to = now, !.current = FALSE]
ClosedInPlace == {[v EXCEPT !.current = FALSE] : v \in toClose}
rows_to_close == {ClosedNow(v) : v \in toClose}

\* The anti-join is on the user: the closed versions of a changed user go with the current one.
unchanged_rows == {v \in base : v.user \notin changed}

new_rows == {Fresh(u) : u \in new \cup changed}
-----------------------------------------------------------------------------
Init ==
  /\ staging \in [Users -> Values \cup {NoRow}]
  /\ dim = {} /\ exists = FALSE
  /\ at = "idle" /\ now = 0
  /\ staged = [u \in Users |-> NoRow] /\ base = {}
  /\ torn = FALSE /\ result_df = {}

\* clean_users replaces the table.
StagingChanges(u, value) ==
  /\ staging[u] # value
  /\ staging' = [staging EXCEPT ![u] = value]
  /\ torn' = (at # "idle")
  /\ UNCHANGED <<dim, exists, at, now, staged, base, result_df>>

\* An empty staging table has no schema and the read raises, before anything is written.
BuildStarts ==
  /\ at = "idle" /\ now < MaxBuilds
  /\ \E u \in Users : staging[u] # NoRow
  /\ now' = now + 1
  /\ at' = IF exists THEN "merge" ELSE "first"
  /\ staged' = staging /\ base' = dim
  /\ torn' = FALSE /\ result_df' = {}
  /\ UNCHANGED <<staging, dim, exists>>

FirstLoad ==
  /\ at = "first" /\ ~torn
  /\ result_df' = {Fresh(u) : u \in InStaging}
  /\ dim' = result_df' /\ exists' = TRUE
  /\ at' = "idle"
  /\ UNCHANGED <<staging, now, staged, base, torn>>

\* The counts before the write execute the plan while the files are still there.
CountMerge ==
  /\ at = "merge" /\ ~torn
  /\ result_df' = unchanged_rows \cup rows_to_close \cup new_rows
  /\ at' = "delete"
  /\ UNCHANGED <<staging, dim, exists, now, staged, base, torn>>

\* mode("overwrite") without partitions: the old files go first.
DeleteOld ==
  /\ at = "delete"
  /\ dim' = {} /\ exists' = FALSE
  /\ at' = "write"
  /\ UNCHANGED <<staging, now, staged, base, torn, result_df>>

\* A crash, files of staging that are gone, or, in the write, the table's own, which nothing
\* has cached.  Nothing is restored.
BuildFails ==
  /\ at # "idle"
  /\ at' = "idle"
  /\ UNCHANGED <<staging, dim, exists, now, staged, base, torn, result_df>>

Next ==
  \/ \E u \in Users, value \in Values \cup {NoRow} : StagingChanges(u, value)
  \/ BuildStarts \/ FirstLoad \/ CountMerge \/ DeleteOld \/ BuildFails

Spec == Init /\ [][Next]_vars
-----------------------------------------------------------------------------
(* Properties *)

\* Every variable keeps its type.
TypeOK ==
  /\ staging \in [Users -> Values \cup {NoRow}]
  /\ dim \subseteq Versions /\ base \subseteq Versions /\ result_df \subseteq Versions
  /\ exists \in BOOLEAN /\ torn \in BOOLEAN
  /\ at \in {"idle", "first", "merge", "delete", "write"}
  /\ now \in 0 .. MaxBuilds
  /\ staged \in [Users -> Values \cup {NoRow}]

\* "valid_from <= target_date < valid_to" finds at most one version of a user, and
\* "is_current = True" finds the one that is valid from now on: in the table, and in what a
\* merge counts and sets out to write.
AsOfUnique ==
  \A table \in {dim, result_df} : \A v, w \in table : v.user = w.user =>
    /\ \A t \in 0 .. MaxBuilds :
         (v.from <= t /\ t < v.to) /\ (w.from <= t /\ t < w.to) => v = w
    /\ v.current /\ w.current => v = w
    /\ v.current <=> v.to = Forever

\* What a build finds to write has, for every user, the current version that staging has at
\* that moment, NULL or not, though clean_users may replace staging at any time and only some
\* users have been compared as changed.
CurrentIsStaged ==
  [][at # "idle" /\ result_df' # result_df =>
       \A u \in Users : staging[u] # NoRow =>
         \E v \in result_df' : v.user = u /\ v.current /\ v.value = staging[u]]_vars

\* "valid_from <= target_date < valid_to": after a build the historical query finds what a
\* user was at an earlier time, if it did so before it.
HistoryKept ==
  [][at # "idle" /\ at' = "idle" =>
       \A v \in base, t \in 0 .. now - 1 : v.from <= t /\ t < v.to =>
         \E w \in dim' : w.user = v.user /\ w.value = v.value /\ w.from <= t /\ t < w.to]_vars
=============================================================================
