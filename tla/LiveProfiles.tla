---------------------------- MODULE LiveProfiles ----------------------------
(***************************************************************************)
(* The tuned parameters of the live S/R engine: the table backtest_profiles *)
(* with the routes that save, activate, deactivate and delete a profile,   *)
(* and get_sr_live_params of src/app.py, whose cache the symbol's loop     *)
(* reads every cycle.  A route looks its profile up, commits, and then     *)
(* pops the cache; the loop reads the table and then fills the cache.      *)
(***************************************************************************)
EXTENDS Naturals, FiniteSets

CONSTANTS Profiles,  \* 'sr' profiles of one symbol
          Params,    \* what a profile may say
          Defaults,  \* ENGINE_PARAM_SPECS, in no profile
          Requests   \* requests to the routes that can be under way at once

VARIABLES row,     \* backtest_profiles: [params, live], or NoRow
          cache,   \* sr_active_profile_cache of the symbol, or Empty
          reading, \* what the loop has read of the table and not cached yet, or Empty
          request, \* what each request is doing
          excused  \* a commit overtook a reading or a lookup, or a live profile was saved over

profiles == <<row, cache, reading, request, excused>>

NoRow == [params |-> Defaults, live |-> FALSE]
Empty == "empty"
Held(v) == [params |-> v]
Ready  == [does |-> "nothing", at |-> "idle"]
Routes == {"activate", "deactivate", "delete"}

TypeOK ==
    /\ row \in [Profiles -> [params : Params, live : BOOLEAN] \cup {NoRow}]
    /\ {cache, reading} \subseteq {Held(v) : v \in Params \cup {Defaults, Empty}}
    /\ request \in [Requests -> {Ready, [does |-> "nothing", at |-> "committed"]} \cup
                       [does : Routes, at : {"found"}, profile : Profiles, live : BOOLEAN]]
    /\ excused \in BOOLEAN

Init ==
    /\ row = [p \in Profiles |-> NoRow]
    /\ cache = Held(Empty) /\ reading = Held(Empty)
    /\ request = [r \in Requests |-> Ready] /\ excused = FALSE

\* What the table says the live engine is to use.
ParamsOf(rows) ==
    LET live == {p \in Profiles : rows[p].live} IN
    IF live = {} THEN Defaults ELSE rows[CHOOSE p \in live : TRUE].params

-----------------------------------------------------------------------------
\* backtest_profile_save: inserted, or saved over, live or not; nobody tells the cache.
Save(p) ==
    /\ \E v \in Params :
          /\ row' = [row EXCEPT ![p].params = v]
          /\ excused' = (excused \/ (row[p].live /\ (cache # Held(Empty) \/ reading # Held(Empty))))
    /\ UNCHANGED <<cache, reading, request>>

\* The SELECT of the three routes, in no transaction with what follows.
LookUp(r, route, p) ==
    /\ request[r] = Ready /\ row[p] # NoRow
    /\ request' = [request EXCEPT ![r] = [does |-> route, at |-> "found", profile |-> p, live |-> row[p].live]]
    /\ UNCHANGED <<row, cache, reading, excused>>

Cleared(rows) == [p \in Profiles |-> [rows[p] EXCEPT !.live = FALSE]]

\* The UPDATE of a row that is gone by now changes nothing.
Marked(rows, p, live) == IF rows[p] = NoRow THEN rows ELSE [rows EXCEPT ![p].live = live]

\* Only a deleted profile that was found live concerns the cache.  Mutant: no deletion does.
ConcernedNever(route, live) == route # "delete"
Concerned(route, live) == route # "delete" \/ live

Commit(r) ==
    /\ request[r].at = "found"
    /\ LET p == request[r].profile
           route == request[r].does IN
       /\ row' = CASE route = "activate"   -> Marked(Cleared(row), p, TRUE)
                   [] route = "deactivate" -> Marked(row, p, FALSE)
                   [] route = "delete"     -> [row EXCEPT ![p] = NoRow]
       /\ request' = [request EXCEPT ![r] = IF Concerned(route, request[r].live)
                                            THEN [does |-> "nothing", at |-> "committed"] ELSE Ready]
       /\ excused' = \/ excused
                     \/ reading # Held(Empty) /\ reading # Held(ParamsOf(row'))
                     \/ route = "delete" /\ row[p].live /\ ~request[r].live
    /\ UNCHANGED <<cache, reading>>

Pop(r) ==
    /\ request[r].at = "committed" /\ request' = [request EXCEPT ![r] = Ready]
    /\ cache' = Held(Empty)
    /\ excused' = (excused /\ reading # Held(Empty))
    /\ UNCHANGED <<row, reading>>

-----------------------------------------------------------------------------
\* get_sr_live_params, on a miss.
ReadTable ==
    /\ cache = Held(Empty) /\ reading = Held(Empty)
    /\ reading' = Held(ParamsOf(row))
    /\ UNCHANGED <<row, cache, request, excused>>

Fill ==
    /\ reading # Held(Empty)
    /\ cache' = reading /\ reading' = Held(Empty)
    /\ UNCHANGED <<row, request, excused>>

Restart ==
    /\ cache' = Held(Empty) /\ reading' = Held(Empty)
    /\ request' = [r \in Requests |-> Ready] /\ excused' = FALSE
    /\ UNCHANGED row

Next ==
    \/ \E p \in Profiles : Save(p) \/ \E r \in Requests, route \in Routes : LookUp(r, route, p)
    \/ \E r \in Requests : Commit(r) \/ Pop(r)
    \/ ReadTable \/ Fill \/ Restart

-----------------------------------------------------------------------------
\* At most one profile is live for the symbol, whatever was activated, saved over or deleted since,
\* in whatever order the routes' lookups and commits came.
OneLiveProfile == Cardinality({p \in Profiles : row[p].live}) <= 1

\* Once the routes have answered, the next cycle trades with what the table says, but for a reading
\* or a lookup that was overtaken and a live profile that was saved over.
NextCycleFollows ==
    ((\A r \in Requests : request[r].at # "committed") /\ ~excused /\ cache # Held(Empty)) =>
        cache = Held(ParamsOf(row))
=============================================================================
