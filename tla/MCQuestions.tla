----------------------------- MODULE MCQuestions -----------------------------
(***************************************************************************)
(* Samples of what the modules without steps are asked about: what a zone, *)
(* a database, a file, a desk, an account and a table of countries may be  *)
(* like.                                                                   *)
(***************************************************************************)
EXTENDS Questions, TLC

\* Months of 30, 4 and 3 days, and then one with no end.
FourMonths == 0 :> -30 @@ 1 :> 0 @@ 2 :> 4 @@ 3 :> 7

-----------------------------------------------------------------------------
(* Zones that change by at most an hour, at any hour of some day, and both *)
(* kinds of ranges.                                                        *)

Zones == {z \in [before : {-5, -3, 0, 5}, after : {-5, -4, -3, -2, 0, 4, 5, 6},
                 at : {70, 72, 74, 75, 77, 90, 96, 99}] : z.after - z.before \in {-1, 0, 1}}
SamplePresets == [zone : Zones, at : {100, 113, 121, 140, 150}, days : 1..3]
SampleCustoms == {q \in [zone : Zones, at : {53, 100, 113, 121, 140, 150}, to : {100, 121, 150}] : q.at <= q.to}

-----------------------------------------------------------------------------
(* Two organizations: one at the edges of its limit, one in some state.    *)

Used == {u \in [limit : {-1, 0, 200}, used : {0, 160, 200}, granted : {-1, 0, 100, 200, 220}, cache : {-1, 159, 200}] :
            u.granted = -1 => u.used = 0}
Scanner(status, week, month) == [status |-> status, week |-> week, month |-> month]
Idle == "u" :> Scanner(1, 0, 0)
\* As many as are read, or more, and more than the list takes.
Staffed == "u" :> Scanner(1, 1, 2) @@ "v" :> Scanner(1, 1, 4) @@ "w" :> Scanner(1, 2, 3) @@ "x" :> Scanner(0, 0, 0)
Crowd == "u" :> Scanner(1, 0, 5) @@ "v" :> Scanner(1, 1, 4) @@ "w" :> Scanner(1, 2, 4) @@ "x" :> Scanner(1, 1, 1)

SampleAtLimit == {[status |-> s, plan |-> p, trial |-> FALSE, manual |-> TRUE, left |-> l, queue |-> n,
             limit |-> u.limit, first |-> 100, used |-> u.used, granted |-> u.granted, cache |-> u.cache,
             webhook |-> "enabled", pending |-> 1, failed |-> 0, refused |-> 0, operators |-> Idle] :
               s \in {0, 2}, p \in {"none", "p"}, l \in {-1, 3, 9}, n \in {0, 2}, u \in Used}
SampleOthers == {[status |-> s, plan |-> p, trial |-> t, manual |-> FALSE, left |-> 30, queue |-> 0,
            limit |-> 100, first |-> 100, used |-> 99, granted |-> 100, cache |-> 99,
            webhook |-> IF t THEN "enabled" ELSE "disabled", pending |-> 1, failed |-> f,
            refused |-> IF t THEN 0 ELSE 1, operators |-> IF t THEN Staffed ELSE Crowd] :
               s \in {1, 2}, p \in {"none", "p"}, t \in BOOLEAN, f \in 0..1}

SampleProbes == [mongo : {1}, redis : {1}, configured : {TRUE}, heartbeat : {10}, oldest : {-1, 100, 700}]

-----------------------------------------------------------------------------
(* Files of every extension with every content, and archives.              *)

Marks == {{m} : m \in {Rules!Signatures[i][1] : i \in DOMAIN Rules!Signatures}}
             \union {{}, {"MZ", "ftyp"}, {"ftyp", "ftyp qt"}}
Listed == "[content_types].xml"
Entries == {{}, {Listed}, {"nested"}, {Listed, Rules!Part.xlsx, "bin"}}
               \union {{Listed, Rules!Part[p]} : p \in DOMAIN Rules!Part}
SampleFiles == {f \in [ext : Rules!Allowed \union {"exe", ""}, marks : Marks, plain : BOOLEAN, entries : {{}},
                 archive : {"readable"}, size : {0, 10, 11}] : f.plain => f.marks \subseteq {"MZ", "%PDF"}}
         \union [ext : {"zip", "docx", "xlsx", "pptx", "png"}, marks : {{"PK"}}, plain : {FALSE},
                 entries : Entries, archive : {"readable", "corrupt"}, size : {10, 50, 51}]
SampleKindSets == {{}, Rules!Kinds, {"archive", "document", "text"}}

-----------------------------------------------------------------------------
(* A desk of a ticket in any state and one that is new; an account whose   *)
(* look-ups may fail.                                                      *)

SampleTickets == [org : {"o1"}, status : {"open", "in_progress", "waiting_for_customer", "resolved", "closed"},
            assigned : BOOLEAN, created : {1, 2, 3}, first_response : {0, 4}, customer : {0, 3, 5},
            staff : {0, 4}, words : {{"x"}, {}}]
SampleNewTickets == [org : {"o1", "o2"}, status : {"open", "in_progress"}, assigned : {FALSE}, created : {3},
               first_response : {0}, customer : {3}, staff : {0}, words : {{"x"}, {}}]
SampleAccounts == [fails : SUBSET {"organization", "reporter", "quota", "webhook", "recent_errors"},
             size : {[organization |-> 1, reporter |-> 1, subscription |-> 1, usage |-> u, webhook |-> 1,
                      recent_errors |-> e] : u \in 1..2, e \in 1..4}]

-----------------------------------------------------------------------------
(* A row to be seeded, alone or behind another one, and a name in a store. *)

SampleLabels == {<<k, s>> : k \in {"turkiye", "turkey", "t"}, s \in 1..2}
Aliases == {<< >>} \union {<<l>> : l \in SampleLabels} \union {<<<<"turkey", 1>>, l>> : l \in SampleLabels}
China(aliases) == [code |-> <<"C", 1>>, name |-> <<"ch", 1>>, aliases |-> aliases]
SampleTables == {before \o <<[code |-> <<"T", 1>>, name |-> n, aliases |-> a]>> :
              before \in {<< >>, <<China(<< >>)>>, <<China(<<<<"turkey", 2>>>>)>>},
              n \in {<<"turkiye", 1>>, <<"t", 1>>}, a \in Aliases}
SampleSeeds == {<<l>> : l \in SampleLabels} \union {<<<<"turkey", 1>>, l>> : l \in SampleLabels}
=============================================================================
