--------------------------- MODULE EventuallyProofs ---------------------------
(***************************************************************************)
(* Proofs about the notifications and the dashboard cache for any number   *)
(* of events, staff, rows, attempts and requests: whoever a finished       *)
(* dispatch was for has the news in view, and one caller refreshes a       *)
(* dashboard.  What these modules promise to do eventually is checked by   *)
(* TLC.                                                                    *)
(*                                                                         *)
(* News: of the audience of a writer everyone was told, is on its list     *)
(* still, or met a failed write; and the row it is about to refresh may    *)
(* have been read since, which tells its user too (NewsInv).  Cache: while *)
(* no lock was lost, whoever computes holds it (CacheInv).                 *)
(***************************************************************************)
EXTENDS Eventually, FiniteSetTheorems, WellFoundedInduction, TLAPS

-----------------------------------------------------------------------------
(* The cache.                                                              *)

\* The places a request for a dashboard goes through.
Places == {"done", "lock", "compute", "store", "release", "abandon", "return", "wait", "direct"}

\* The types of the cache: no version is newer than the database.
CacheTypes ==
    /\ db \in Nat /\ due \in 0..db
    /\ entry \in [age : {"none", "fresh", "stale"}, version : 0..db]
    /\ asking \in [Requests -> [pc : Places, background : BOOLEAN, heavy : BOOLEAN, version : 0..db]]
    /\ lock \in BOOLEAN /\ lost \in BOOLEAN

\* While no lock was lost, one request holds it.
OneInside ==
    ~lost => /\ \A r, s \in Cache!Inside : r = s
             /\ Cache!Inside # {} => lock

\* The inductive invariant of the cache.
CacheInv == CacheTypes /\ OneInside

\* The cache starts in its invariant.
LEMMA CacheStart == Cache!Init => CacheInv
<1>. SUFFICES ASSUME Cache!Init PROVE CacheInv
  OBVIOUS
<1>. USE DEF Cache!Init
<1>1. CacheTypes
  <2>1. db = 0 /\ due = 0 /\ lock \in BOOLEAN /\ lost \in BOOLEAN
    OBVIOUS
  <2>2. entry \in [age : {"none", "fresh", "stale"}, version : 0..db]
    BY <2>1 DEF Cache!Empty
  <2>3. Cache!Done \in [pc : Places, background : BOOLEAN, heavy : BOOLEAN, version : 0..db]
    BY <2>1 DEF Places, Cache!Done
  <2>. QED BY <2>1, <2>2, <2>3 DEF CacheTypes
<1>2. Cache!Inside = {}
  BY DEF Cache!Inside, Cache!Computing, Cache!Done
<1>. QED BY <1>1, <1>2 DEF CacheInv, OneInside

\* Every step of the cache keeps its invariant.
LEMMA CacheStep == CacheInv /\ [Cache!Next]_(Cache!vars) => CacheInv'
<1>. SUFFICES ASSUME CacheInv, [Cache!Next]_(Cache!vars) PROVE CacheInv'
  OBVIOUS
<1>. USE DEF CacheInv, CacheTypes, Places, OneInside, Cache!Inside, Cache!Computing, Cache!Move,
   Cache!Fault
<1>1. CASE UNCHANGED Cache!vars
  BY <1>1 DEF Cache!vars
<1>2. ASSUME NEW r \in Requests, NEW heavy \in BOOLEAN, Cache!Get(r, heavy) PROVE CacheInv'
  <2>1. asking[r].pc = "done" /\ UNCHANGED <<db, due, entry, lock, lost>>
    BY <1>2 DEF Cache!Get
  <2>. DEFINE Fresh == [pc : {"done", "lock"}, background : BOOLEAN, heavy : BOOLEAN, version : {0}]
  <2>2. PICK t \in Fresh : asking' = [asking EXCEPT ![r] = t]
    <3>1. Cache!Done \in Fresh
      BY DEF Cache!Done
    <3>2. /\ [Cache!Done EXCEPT !.pc = "lock", !.heavy = heavy] \in Fresh
          /\ [Cache!Done EXCEPT !.pc = "lock", !.background = TRUE] \in Fresh
      BY <3>1
    <3>. HIDE DEF Fresh
    <3>. QED BY <1>2, <3>1, <3>2 DEF Cache!Get
  <2>3. CacheTypes'
    BY <2>1, <2>2
  <2>4. Cache!Inside' = Cache!Inside
    BY <2>1, <2>2
  <2>. QED BY <2>1, <2>3, <2>4
<1>3. ASSUME NEW r \in Requests, Cache!Lock(r) PROVE CacheInv'
  BY <1>3 DEF Cache!Lock
<1>4. ASSUME NEW r \in Requests, Cache!Compute(r) PROVE CacheInv'
  <2>1. /\ asking[r].pc = "compute" /\ UNCHANGED <<db, due, entry, lock, lost>>
        /\ asking' = [asking EXCEPT ![r] = [asking[r] EXCEPT !.pc = "store", !.version = db]]
    BY <1>4 DEF Cache!Compute
  <2>2. PICK t \in [pc : {"store"}, background : BOOLEAN, heavy : BOOLEAN, version : {db}] :
           asking' = [asking EXCEPT ![r] = t]
    <3>1. [asking[r] EXCEPT !.pc = "store", !.version = db]
             \in [pc : {"store"}, background : BOOLEAN, heavy : BOOLEAN, version : {db}]
      OBVIOUS
    <3>. QED BY <2>1, <3>1
  <2>3. CacheTypes'
    BY <2>1, <2>2
  <2>4. Cache!Inside' = Cache!Inside
    BY <2>1, <2>2
  <2>. QED BY <2>1, <2>3, <2>4
<1>5. ASSUME NEW r \in Requests, Cache!Store(r) PROVE CacheInv'
  BY <1>5 DEF Cache!Store
<1>6. ASSUME NEW r \in Requests, Cache!Release(r) PROVE CacheInv'
  <2>1. PICK pc \in {"direct", "done"} : asking' = [asking EXCEPT ![r].pc = pc]
    BY <1>6 DEF Cache!Release
  <2>2. /\ asking[r].pc \in {"release", "abandon", "return"}
        /\ lock' = FALSE /\ UNCHANGED <<db, due, entry>>
        /\ lost' \in BOOLEAN /\ (~lost' => ~lost /\ (asking[r].pc = "return" => ~lock))
    BY <1>6 DEF Cache!Release
  <2>3. CacheTypes'
    BY <2>1, <2>2
  <2>4. Cache!Inside' = Cache!Inside \ {r}
    BY <2>1, <2>2
  <2>5. ~lost' => Cache!Inside' = {}
    BY <2>2, <2>4
  <2>. QED BY <2>2, <2>3, <2>5
<1>7. ASSUME NEW r \in Requests, Cache!Wait(r) PROVE CacheInv'
  BY <1>7 DEF Cache!Wait
<1>8. ASSUME NEW r \in Requests, Cache!Direct(r) PROVE CacheInv'
  BY <1>8 DEF Cache!Direct
<1>9. ASSUME NEW r \in Requests, Cache!ComputeFails(r) PROVE CacheInv'
  BY <1>9 DEF Cache!ComputeFails
<1>10. ASSUME NEW r \in Requests, Cache!RequestDies(r) PROVE CacheInv'
  BY <1>10 DEF Cache!RequestDies, Cache!Done
<1>11. CASE Cache!Change
  BY <1>11 DEF Cache!Change
<1>12. CASE Cache!Invalidate
  BY <1>12 DEF Cache!Invalidate, Cache!Empty
<1>13. CASE Cache!InvalidateFails
  BY <1>13 DEF Cache!InvalidateFails
<1>14. CASE Cache!Age
  BY <1>14 DEF Cache!Age, Cache!Empty
<1>15. CASE Cache!LockExpires
  BY <1>15 DEF Cache!LockExpires
<1>. QED
  BY <1>1, <1>2, <1>3, <1>4, <1>5, <1>6, <1>7, <1>8, <1>9, <1>10, <1>11, <1>12, <1>13, <1>14,
     <1>15 DEF Cache!Next, Cache!Work

\* The invariant of the cache implies that one caller refreshes.
LEMMA CacheEnds == CacheInv => OneCallerRefreshes
<1>. SUFFICES ASSUME CacheInv PROVE OneCallerRefreshes
  OBVIOUS
<1>1. Cache!TypeOK
  BY DEF CacheInv, CacheTypes, Cache!TypeOK
<1>2. ASSUME ~lost PROVE Cache!Cardinality(Cache!Computing) <= 1
  <2>1. \A r, s \in Cache!Computing : r = s
    BY <1>2 DEF CacheInv, OneInside, Cache!Inside
  <2>4. Cache!Cardinality(Cache!Computing) = Cardinality(Cache!Computing)
    BY DEF Cache!Cardinality, Cardinality
  <2>2. CASE Cache!Computing = {}
    <3>1. Cardinality(Cache!Computing) = 0
      BY <2>2, FS_EmptySet, Zenon
    <3>. QED BY <3>1, <2>4
  <2>3. ASSUME NEW r \in Cache!Computing PROVE Cardinality(Cache!Computing) = 1
    <3>1. Cache!Computing = {r}
      BY <2>1
    <3>. QED BY <3>1, FS_Singleton
  <2>. QED BY <2>2, <2>3, <2>4
<1>. QED BY <1>1, <1>2 DEF OneCallerRefreshes, Cache!OneCallerRefreshes

-----------------------------------------------------------------------------
(* The notifications.                                                      *)

\* A set of naturals that is not empty has a smallest element.
LEMMA LeastExists ==
    ASSUME NEW S, S \subseteq Nat, S # {}
    PROVE  \E m \in S : \A t \in S : m <= t
<1>1. PICK x \in S : \A y \in S : ~ (<<y, x>> \in OpToRel(<, Nat))
  BY WFMin, NatLessThanWellFounded
<1>2. \A y \in S : x <= y
  <2>. SUFFICES ASSUME NEW y \in S, y < x PROVE FALSE
    OBVIOUS
  <2>1. <<y, x>> \in OpToRel(<, Nat)
    BY DEF OpToRel
  <2>. QED BY <1>1, <2>1
<1>. QED BY <1>2

\* The places of a writer of notifications.
Pcs == {"idle", "lookup", "thrown", "find", "update", "create"}
WriterType == [pc : Pcs, todo : SUBSET Inbox!Users, user : Inbox!Users \union {None}]

\* Rows have ids of their own.
RowsApart == \A r, s \in rows : r.id = s.id => r = s
RowTypes == rows \subseteq Inbox!Row /\ IsFiniteSet(rows) /\ RowsApart

\* The types of the notifications.
NewsTypes ==
    /\ kind \in [News -> Kinds \union {"none"}] /\ people \in Rosters
    /\ api \in [News -> {"none", "dispatch", "done"}]
    /\ app \in [News -> {"none", "waiting", "taken", "done", "failed"}]
    /\ tries \in [News -> Nat] /\ \A n \in News : tries[n] <= MaxAttempts
    /\ writer \in [Inbox!Writers -> WriterType]
    /\ audience \in [Inbox!Writers -> SUBSET Inbox!Users]
    /\ seen \in [Inbox!Users -> SUBSET News]

\* A writer is at work on an event that is being dispatched, or whose job is taken; it has a user
\* in hand from its own list.
Stages ==
    /\ \A n \in News :
        /\ api[n] = "none" <=> kind[n] = "none"
        /\ api[n] # "done" => app[n] = "none"
        /\ app[n] \in {"none", "waiting", "taken"} => tries[n] < MaxAttempts
        /\ writer[<<n, "direct">>].pc # "idle" => api[n] = "dispatch"
        /\ writer[<<n, "queued">>].pc # "idle" => app[n] = "taken"
    /\ \A w \in Inbox!Writers :
        /\ writer[w].pc \in {"idle", "lookup", "thrown"} => writer[w].todo = {}
        /\ writer[w].pc \in {"update", "create"} => writer[w].user \in writer[w].todo
        /\ kind[w[1]] = "none" => audience[w] = {}

\* The event has a row of the user, or the user has seen it.
HasRow(w, u) == \E r \in rows : r.user = u /\ r.key = Inbox!Key(w[1])
Told(w, u) == w[1] \in seen[u] \/ HasRow(w, u)

\* Everyone in the audience of a writer was told, is still to be, or met a failed write.
TellsAll(w) ==
    /\ writer[w].pc = "update" => Told(w, writer[w].user)
    /\ \A u \in audience[w] \ writer[w].todo : <<w, u>> \in failed \/ Told(w, u)
AllTold == \A w \in Inbox!Writers : TellsAll(w)

\* The inductive invariant of the notifications.
NewsInv == NewsTypes /\ RowTypes /\ Stages /\ AllTold

\* A writer is an event and a way.
LEMMA WriterIs ==
    /\ \A n \in News : <<n, "direct">> \in Inbox!Writers /\ <<n, "queued">> \in Inbox!Writers
    /\ \A w \in Inbox!Writers : /\ w[1] \in News /\ w[2] \in {"direct", "queued"}
                                /\ w = <<w[1], w[2]>>
BY DEF Inbox!Writers

\* A writer at rest.
LEMMA RestingType == Inbox!Resting \in WriterType
BY DEF Inbox!Resting, WriterType, Pcs

\* The notifications start in their invariant.
LEMMA NewsStart == Inbox!Init => NewsInv
<1>. SUFFICES ASSUME Inbox!Init PROVE NewsInv
  OBVIOUS
<1>. USE NewsAssumption DEF Inbox!Init
<1>1. NewsTypes
  BY RestingType DEF NewsTypes
<1>2. RowTypes
  BY FS_EmptySet DEF RowTypes, RowsApart
<1>3. Stages
  BY WriterIs DEF Stages, Inbox!Resting
<1>4. AllTold
  BY DEF AllTold, TellsAll, Inbox!Resting
<1>. QED BY <1>1, <1>2, <1>3, <1>4 DEF NewsInv

\* Something happens, and the api begins to tell the people it concerns.
LEMMA NewsHappen ==
    ASSUME NewsInv, NEW n \in News, NEW k \in Kinds, Inbox!Happen(n, k)
    PROVE  NewsInv'
<1>. DEFINE d == <<n, "direct">>
<1>1. /\ kind[n] = "none" /\ kind' = [kind EXCEPT ![n] = k] /\ k # "none"
      /\ api' = [api EXCEPT ![n] = "dispatch"]
      /\ writer' = [writer EXCEPT ![d].pc = "lookup"]
      /\ UNCHANGED <<people, app, tries, rows, audience, failed, seen>>
  BY NewsAssumption DEF Inbox!Happen, Inbox!history
<1>2. NewsTypes' /\ RowTypes'
  BY <1>1, WriterIs DEF NewsInv, NewsTypes, RowTypes, RowsApart, WriterType, Pcs
<1>3. Stages'
  <2>1. api[n] = "none" /\ app[n] = "none" /\ writer[d].todo = {}
    BY <1>1, WriterIs DEF NewsInv, Stages
  <2>. QED BY <1>1, <2>1, WriterIs DEF NewsInv, NewsTypes, WriterType, Stages
<1>4. AllTold'
  <2>. SUFFICES ASSUME NEW w \in Inbox!Writers PROVE TellsAll(w)'
    BY DEF AllTold, Inbox!Writers
  <2>1. CASE w[1] = n
    <3>1. audience[w] = {}
      BY <1>1, <2>1 DEF NewsInv, Stages
    <3>2. w = d \/ (w = <<n, "queued">> /\ w # d)
      BY <2>1, WriterIs
    <3>3. writer[<<n, "queued">>].pc = "idle"
      BY <1>1 DEF NewsInv, Stages
    <3>4. writer'[w].pc # "update"
      BY <1>1, <3>2, <3>3, WriterIs DEF NewsInv, NewsTypes, WriterType
    <3>. QED BY <1>1, <3>1, <3>4 DEF TellsAll
  <2>2. CASE w[1] # n
    <3>1. \A u : Told(w, u) => Told(w, u)'
      BY <1>1, <2>2 DEF Told, HasRow, Inbox!Key, Inbox!Statuses, NewsInv, NewsTypes
    <3>. QED BY <1>1, <2>2, <3>1, WriterIs DEF NewsInv, AllTold, TellsAll, NewsTypes
  <2>. QED BY <2>1, <2>2
<1>. QED BY <1>2, <1>3, <1>4 DEF NewsInv

\* The api hands the event to the queue, or fails to, and is done.
LEMMA NewsEnqueue ==
    ASSUME NewsInv, NEW n \in News, NEW accepted \in BOOLEAN, Inbox!Enqueue(n, accepted)
    PROVE  NewsInv'
<1>1. /\ api[n] = "dispatch" /\ writer[<<n, "direct">>].pc = "idle"
      /\ api' = [api EXCEPT ![n] = "done"]
      /\ UNCHANGED <<kind, people, tries, writer, rows, audience, failed, seen>>
  BY DEF Inbox!Enqueue, Inbox!history
<1>2. app[n] = "none"
  BY <1>1 DEF NewsInv, Stages
<1>3. PICK j \in {"none", "waiting"} : app' = [app EXCEPT ![n] = j]
  BY <1>2 DEF Inbox!Enqueue, Inbox!Added, NewsInv, NewsTypes
<1>4. NewsTypes' /\ RowTypes'
  BY <1>1, <1>3 DEF NewsInv, NewsTypes, RowTypes, RowsApart
<1>5. Stages'
  BY <1>1, <1>2, <1>3 DEF NewsInv, NewsTypes, Stages
<1>6. AllTold'
  BY <1>1 DEF NewsInv, AllTold, TellsAll, Told, HasRow, Inbox!Key
<1>. QED BY <1>4, <1>5, <1>6 DEF NewsInv

\* The api dies: who was still to be told by it is not its audience any more.
LEMMA NewsApiDies ==
    ASSUME NewsInv, NEW n \in News, Inbox!ApiDies(n)
    PROVE  NewsInv'
<1>. DEFINE d == <<n, "direct">>
<1>1. /\ api[n] = "dispatch" /\ api' = [api EXCEPT ![n] = "done"]
      /\ writer' = [writer EXCEPT ![d] = Inbox!Resting]
      /\ audience' = [audience EXCEPT ![d] = @ \ writer[d].todo]
      /\ UNCHANGED <<kind, people, app, tries, rows, failed, seen>>
  BY DEF Inbox!ApiDies
<1>2. NewsTypes' /\ RowTypes'
  BY <1>1, WriterIs, RestingType DEF NewsInv, NewsTypes, RowTypes, RowsApart
<1>3. Stages'
  BY <1>1, WriterIs DEF NewsInv, NewsTypes, Stages, Inbox!Resting
<1>4. AllTold'
  <2>. SUFFICES ASSUME NEW w \in Inbox!Writers PROVE TellsAll(w)'
    BY DEF AllTold, Inbox!Writers
  <2>1. TellsAll(w) /\ \A u : Told(w, u) => Told(w, u)'
    BY <1>1 DEF NewsInv, AllTold, Told, HasRow, Inbox!Key
  <2>2. CASE w = d
    <3>1. writer'[w].pc = "idle" /\ audience'[w] = audience[w] \ writer[w].todo
      BY <1>1, <2>2, WriterIs DEF NewsInv, NewsTypes, Inbox!Resting
    <3>. QED BY <1>1, <2>1, <3>1 DEF TellsAll
  <2>3. CASE w # d
    <3>1. writer'[w] = writer[w] /\ audience'[w] = audience[w]
      BY <1>1, <2>3 DEF NewsInv, NewsTypes
    <3>. QED BY <1>1, <2>1, <3>1 DEF TellsAll
  <2>. QED BY <2>2, <2>3
<1>. QED BY <1>2, <1>3, <1>4 DEF NewsInv

\* The people an event concerns are users.
LEMMA RecipientsKnown ==
    ASSUME NewsInv, NEW n \in News
    PROVE  Inbox!Recipients(n) \in SUBSET Inbox!Users
<1>1. people.active \subseteq Inbox!Users
  BY NewsAssumption DEF NewsInv, NewsTypes, Inbox!Users
<1>2. CASE kind[n] = "ticket_created"
  BY <1>1, <1>2 DEF Inbox!Recipients
<1>3. CASE kind[n] = "customer_replied"
  BY <1>1, <1>3 DEF Inbox!Recipients
<1>4. CASE kind[n] \notin {"ticket_created", "customer_replied"}
  BY <1>1, <1>4 DEF Inbox!Recipients
<1>. QED BY <1>2, <1>3, <1>4

\* A writer looks its people up.
LEMMA NewsLookUp ==
    ASSUME NewsInv, NEW w \in Inbox!Writers, Inbox!LookUp(w)
    PROVE  NewsInv'
<1>. DEFINE to == Inbox!Recipients(w[1])
            found == [writer[w] EXCEPT !.pc = "find", !.todo = to]
<1>1. /\ writer[w].pc = "lookup"
      /\ writer' = [writer EXCEPT ![w] = IF to = {} THEN Inbox!Resting ELSE found]
      /\ app' = IF to = {} THEN Inbox!Finished(w) ELSE app
      /\ audience' = [audience EXCEPT ![w] = to]
      /\ failed' = {f \in failed : f[1] # w}
      /\ UNCHANGED <<kind, people, api, tries, rows, seen>>
  BY DEF Inbox!LookUp, Inbox!Event
<1>2. to \in SUBSET Inbox!Users
  BY RecipientsKnown, WriterIs
<1>3. writer[w] \in WriterType /\ w[1] \in News /\ w = <<w[1], w[2]>> /\ w[2] \in {"direct", "queued"}
  BY WriterIs DEF NewsInv, NewsTypes
<1>. HIDE DEF to
<1>4. found \in WriterType /\ found.pc = "find" /\ found.todo = to
  BY <1>2, <1>3 DEF WriterType, Pcs
<1>. HIDE DEF found
<1>. DEFINE next == IF to = {} THEN Inbox!Resting ELSE found
<1>5. /\ next \in WriterType /\ next.todo = to /\ next.pc \in {"idle", "find"}
      /\ next.pc = "idle" <=> to = {}
  BY <1>4, RestingType DEF Inbox!Resting
<1>6. writer' = [writer EXCEPT ![w] = next]
  BY <1>1
<1>. HIDE DEF next
<1>7. app' = app \/ (to = {} /\ w[2] = "queued" /\ app' = [app EXCEPT ![w[1]] = "done"])
  BY <1>1 DEF Inbox!Finished
<1>8. NewsTypes' /\ RowTypes'
  <2>1. app' \in [News -> {"none", "waiting", "taken", "done", "failed"}]
    BY <1>3, <1>7 DEF NewsInv, NewsTypes
  <2>2. writer' \in [Inbox!Writers -> WriterType]
    BY <1>5, <1>6 DEF NewsInv, NewsTypes
  <2>3. audience' \in [Inbox!Writers -> SUBSET Inbox!Users]
    BY <1>1, <1>2 DEF NewsInv, NewsTypes
  <2>. QED BY <1>1, <2>1, <2>2, <2>3 DEF NewsInv, NewsTypes, RowTypes, RowsApart
<1>9. kind[w[1]] # "none"
  <2>1. CASE w = <<w[1], "direct">>
    BY <1>1, <1>3, <2>1 DEF NewsInv, Stages
  <2>2. CASE w = <<w[1], "queued">>
    BY <1>1, <1>3, <2>2 DEF NewsInv, Stages
  <2>. QED BY <1>3, <2>1, <2>2
<1>10. Stages'
  <2>1. ASSUME NEW n \in News
        PROVE  /\ app'[n] \in {"none", "waiting", "taken"} => app[n] = app'[n]
               /\ api[n] # "done" => app'[n] = "none"
               /\ writer'[<<n, "direct">>].pc # "idle" => writer[<<n, "direct">>].pc # "idle"
               /\ writer'[<<n, "queued">>].pc # "idle" => app'[n] = "taken"
    <3>1. CASE w = <<n, "queued">>
      BY <1>1, <1>3, <1>5, <1>6, <1>7, <3>1, WriterIs DEF NewsInv, NewsTypes, Stages
    <3>2. CASE w # <<n, "queued">>
      <4>1. app'[n] = app[n]
        BY <1>3, <1>7, <3>2 DEF NewsInv, NewsTypes
      <4>2. writer'[<<n, "queued">>] = writer[<<n, "queued">>]
        BY <1>6, <3>2, WriterIs DEF NewsInv, NewsTypes
      <4>3. w = <<n, "direct">> \/ writer'[<<n, "direct">>] = writer[<<n, "direct">>]
        BY <1>6, WriterIs DEF NewsInv, NewsTypes
      <4>. QED BY <1>1, <4>1, <4>2, <4>3 DEF NewsInv, Stages
    <3>. QED BY <3>1, <3>2
  <2>2. \A v \in Inbox!Writers : v # w => writer'[v] = writer[v] /\ audience'[v] = audience[v]
    BY <1>1, <1>6 DEF NewsInv, NewsTypes
  <2>3. writer'[w] = next
    BY <1>6 DEF NewsInv, NewsTypes
  <2>. QED BY <1>1, <1>5, <1>9, <2>1, <2>2, <2>3 DEF NewsInv, Stages
<1>11. AllTold'
  <2>. SUFFICES ASSUME NEW v \in Inbox!Writers PROVE TellsAll(v)'
    BY DEF AllTold, Inbox!Writers
  <2>1. CASE v = w
    BY <1>1, <1>5, <1>6, <2>1 DEF NewsInv, NewsTypes, TellsAll
  <2>2. CASE v # w
    <3>1. \A u : Told(v, u) => Told(v, u)'
      BY <1>1 DEF Told, HasRow, Inbox!Key
    <3>2. \A u : <<v, u>> \in failed => <<v, u>> \in failed'
      BY <1>1, <2>2
    <3>. QED BY <1>1, <1>6, <2>2, <3>1, <3>2 DEF NewsInv, NewsTypes, AllTold, TellsAll
  <2>. QED BY <2>1, <2>2
<1>. QED BY <1>8, <1>10, <1>11 DEF NewsInv

\* The look-up fails.
LEMMA NewsLookUpFails ==
    ASSUME NewsInv, NEW w \in Inbox!Writers, Inbox!LookUpFails(w)
    PROVE  NewsInv'
<1>. DEFINE thrown == [Inbox!Resting EXCEPT !.pc = "thrown"]
<1>1. /\ writer[w].pc = "lookup"
      /\ writer' = [writer EXCEPT ![w] = IF w[2] = "direct" THEN Inbox!Resting ELSE thrown]
      /\ UNCHANGED <<kind, people, api, app, tries, rows, audience, failed, seen>>
  BY DEF Inbox!LookUpFails, Inbox!history
<1>2. thrown \in WriterType /\ thrown.todo = {} /\ thrown.pc = "thrown"
  BY DEF Inbox!Resting, WriterType, Pcs
<1>. HIDE DEF thrown
<1>. DEFINE next == IF w[2] = "direct" THEN Inbox!Resting ELSE thrown
<1>3. /\ next \in WriterType /\ next.todo = {} /\ next.pc \in {"idle", "thrown"}
  BY <1>2, RestingType DEF Inbox!Resting
<1>4. writer' = [writer EXCEPT ![w] = next]
  BY <1>1
<1>. HIDE DEF next
<1>5. NewsTypes' /\ RowTypes'
  BY <1>1, <1>3, <1>4 DEF NewsInv, NewsTypes, RowTypes, RowsApart
<1>6. Stages'
  BY <1>1, <1>3, <1>4, WriterIs DEF NewsInv, NewsTypes, Stages
<1>7. AllTold'
  BY <1>1, <1>3, <1>4 DEF NewsInv, NewsTypes, Stages, AllTold, TellsAll, Told, HasRow, Inbox!Key
<1>. QED BY <1>5, <1>6, <1>7 DEF NewsInv

\* A writer looks for an unread row of a user.
LEMMA NewsFind ==
    ASSUME NewsInv, NEW w \in Inbox!Writers, NEW u \in Inbox!Users, Inbox!FindUnread(w, u)
    PROVE  NewsInv'
<1>1. PICK pc \in {"create", "update"} :
        /\ writer' = [writer EXCEPT ![w].pc = pc, ![w].user = u]
        /\ pc = "update" => Inbox!Unread(u, Inbox!Key(w[1])) # {}
  BY DEF Inbox!FindUnread, Inbox!Event
<1>. DEFINE next == [writer[w] EXCEPT !.pc = pc, !.user = u]
<1>2. /\ writer[w].pc = "find" /\ u \in writer[w].todo
      /\ UNCHANGED <<kind, people, api, app, tries, rows, audience, failed, seen>>
  BY DEF Inbox!FindUnread, Inbox!history
<1>3. /\ next \in WriterType /\ next.pc = pc /\ next.user = u /\ next.todo = writer[w].todo
  BY DEF NewsInv, NewsTypes, WriterType, Pcs
<1>4. writer' = [writer EXCEPT ![w] = next]
  BY <1>1 DEF NewsInv, NewsTypes
<1>. HIDE DEF next
<1>5. NewsTypes' /\ RowTypes'
  BY <1>2, <1>3, <1>4 DEF NewsInv, NewsTypes, RowTypes, RowsApart
<1>6. Stages'
  BY <1>2, <1>3, <1>4, WriterIs DEF NewsInv, NewsTypes, Stages
<1>7. AllTold'
  <2>1. pc = "update" => Told(w, u)'
    BY <1>1, <1>2 DEF Inbox!Unread, Told, HasRow, Inbox!Key
  <2>. QED BY <1>2, <1>3, <1>4, <2>1 DEF NewsInv, NewsTypes, AllTold, TellsAll, Told, HasRow,
     Inbox!Key
<1>. QED BY <1>5, <1>6, <1>7 DEF NewsInv

\* A dispatch goes on to its next recipient: the one it had has a row, or met an error.
LEMMA NewsNextUser ==
    ASSUME NewsInv, NEW w \in Inbox!Writers, NEW u, u = writer[w].user,
           writer[w].pc \in {"update", "create"}, Inbox!NextUser(w), RowTypes', rows \subseteq rows', failed \subseteq failed',
           UNCHANGED <<kind, people, api, tries, audience, seen>>,
           <<w, u>> \in failed' \/ Told(w, u)'
    PROVE  NewsInv'
<1>. DEFINE left == writer[w].todo \ {u}
            more == [Inbox!Resting EXCEPT !.pc = "find", !.todo = left]
            next == IF left = {} THEN Inbox!Resting ELSE more
<1>1. writer[w] \in WriterType /\ w[1] \in News /\ w = <<w[1], w[2]>> /\ w[2] \in {"direct", "queued"}
  BY WriterIs DEF NewsInv, NewsTypes
<1>2. left \in SUBSET Inbox!Users
  BY <1>1 DEF WriterType
<1>3. /\ writer' = [writer EXCEPT ![w] = next]
      /\ app' = app \/ (left = {} /\ w[2] = "queued" /\ app' = [app EXCEPT ![w[1]] = "done"])
  BY DEF Inbox!NextUser, Inbox!Finished
<1>. DEFINE T == WriterType
<1>4. next \in T /\ next.todo = left /\ next.pc = IF left = {} THEN "idle" ELSE "find"
  <2>. HIDE DEF left
  <2>1. more \in T /\ more.todo = left /\ more.pc = "find"
    BY <1>2, RestingType DEF WriterType, Pcs
  <2>2. Inbox!Resting.todo = {} /\ Inbox!Resting.pc = "idle"
    BY DEF Inbox!Resting
  <2>. HIDE DEF more
  <2>. QED BY <2>1, <2>2, RestingType
<1>. HIDE DEF next
<1>5. NewsTypes'
  BY <1>1, <1>3, <1>4 DEF NewsInv, NewsTypes
<1>6. Stages'
  <2>. HIDE DEF left
  <2>1. next.pc # "idle" => left # {}
    BY <1>4
  <2>2. next.pc \in {"idle", "find"} /\ (next.pc = "idle" => next.todo = {})
    BY <1>4
  <2>. QED BY <1>1, <1>3, <2>1, <2>2, WriterIs DEF NewsInv, NewsTypes, Stages
<1>7. AllTold'
  <2>. SUFFICES ASSUME NEW v \in Inbox!Writers PROVE TellsAll(v)'
    BY DEF AllTold, Inbox!Writers
  <2>1. \A x : Told(v, x) => Told(v, x)'
    BY DEF Told, HasRow, Inbox!Key
  <2>2. CASE v # w
    BY <1>3, <2>1, <2>2 DEF NewsInv, NewsTypes, AllTold, TellsAll
  <2>3. CASE v = w
    BY <1>3, <1>4, <2>1, <2>3 DEF NewsInv, NewsTypes, AllTold, TellsAll
  <2>. QED BY <2>2, <2>3
<1>. QED BY <1>5, <1>6, <1>7 DEF NewsInv

\* A writer refreshes the row it found, or finds it read since.
LEMMA NewsRefresh ==
    ASSUME NewsInv, NEW w \in Inbox!Writers, Inbox!Refresh(w)
    PROVE  NewsInv'
<1>. PICK u : u = writer[w].user
  OBVIOUS
<1>1. /\ writer[w].pc = "update" /\ Inbox!NextUser(w)
      /\ UNCHANGED <<kind, people, api, tries, rows, audience, failed, seen>>
  BY DEF Inbox!Refresh, Inbox!history
<1>2. RowTypes' /\ Told(w, u)'
  BY <1>1 DEF NewsInv, RowTypes, RowsApart, AllTold, TellsAll, Told, HasRow, Inbox!Key
<1>. QED BY <1>1, <1>2, NewsNextUser

\* A writer makes a row of its own.
LEMMA NewsCreate ==
    ASSUME NewsInv, NEW w \in Inbox!Writers, Inbox!Create(w)
    PROVE  NewsInv'
<1>. PICK u : u = writer[w].user
  OBVIOUS
<1>. DEFINE key == Inbox!Key(w[1])
            new == [id |-> Inbox!Lowest(Inbox!FreeIds), user |-> u, key |-> key, read |-> FALSE]
<1>1. /\ writer[w].pc = "create" /\ (Inbox!Taken(u, key) \/ Inbox!FreeIds # {})
      /\ rows' = IF Inbox!Taken(u, key) THEN rows ELSE rows \union {new}
      /\ Inbox!NextUser(w)
      /\ UNCHANGED <<kind, people, api, tries, audience, failed, seen>>
  BY DEF Inbox!Create, Inbox!history, Inbox!Event
<1>2. CASE Inbox!Taken(u, key)
  <2>1. RowTypes' /\ Told(w, u)'
    BY <1>1, <1>2 DEF NewsInv, RowTypes, RowsApart, Inbox!Taken, Told, HasRow, Inbox!Key
  <2>. QED BY <1>1, <1>2, <2>1, NewsNextUser
<1>3. CASE ~Inbox!Taken(u, key)
  <2>1. Inbox!Lowest(Inbox!FreeIds) \in Inbox!FreeIds
    <3>1. Inbox!FreeIds \subseteq Nat /\ Inbox!FreeIds # {}
      BY <1>1, <1>3, NewsAssumption DEF Inbox!FreeIds
    <3>2. \E i \in Inbox!FreeIds : \A j \in Inbox!FreeIds : i <= j
      BY <3>1, LeastExists
    <3>. QED BY <3>2 DEF Inbox!Lowest
  <2>2. u \in Inbox!Users
    BY <1>1 DEF NewsInv, NewsTypes, WriterType, Stages
  <2>3. key \in {"ticket"} \union Inbox!Statuses
    BY DEF Inbox!Key
  <2>4. new \in Inbox!Row
    BY <2>1, <2>2, <2>3 DEF Inbox!Row, Inbox!FreeIds
  <2>5. \A r \in rows : r.id # new.id
    BY <2>1 DEF Inbox!FreeIds
  <2>6. new.user = u /\ new.key = key
    OBVIOUS
  <2>. HIDE DEF new
  <2>7. RowTypes'
    BY <1>1, <1>3, <2>4, <2>5, FS_AddElement DEF NewsInv, RowTypes, RowsApart
  <2>8. Told(w, u)'
    BY <1>1, <1>3, <2>6 DEF Told, HasRow, Inbox!Key
  <2>. QED BY <1>1, <1>3, <2>7, <2>8, NewsNextUser
<1>. QED BY <1>2, <1>3

\* The write for a user fails.
LEMMA NewsWriteFails ==
    ASSUME NewsInv, NEW w \in Inbox!Writers, Inbox!WriteFails(w)
    PROVE  NewsInv'
<1>1. /\ writer[w].pc \in {"update", "create"} /\ Inbox!NextUser(w)
      /\ failed' = failed \union {<<w, writer[w].user>>}
      /\ UNCHANGED <<kind, people, api, tries, rows, audience, seen>>
  BY DEF Inbox!WriteFails
<1>2. RowTypes'
  BY <1>1 DEF NewsInv, RowTypes, RowsApart
<1>. PICK u : u = writer[w].user
  OBVIOUS
<1>. QED BY <1>1, <1>2, NewsNextUser

\* The worker takes a job.
LEMMA NewsTake ==
    ASSUME NewsInv, NEW n \in News, Inbox!TakeApp(n)
    PROVE  NewsInv'
<1>. DEFINE q == <<n, "queued">>
<1>1. /\ app[n] = "waiting" /\ app' = [app EXCEPT ![n] = "taken"]
      /\ writer' = [writer EXCEPT ![q].pc = "lookup"]
      /\ UNCHANGED <<kind, people, api, tries, rows, audience, failed, seen>>
  BY DEF Inbox!TakeApp, Inbox!history
<1>2. NewsTypes' /\ RowTypes'
  BY <1>1, WriterIs DEF NewsInv, NewsTypes, RowTypes, RowsApart, WriterType, Pcs
<1>3. Stages'
  <2>1. writer[q].todo = {}
    BY <1>1, WriterIs DEF NewsInv, Stages
  <2>2. /\ writer'[q].pc = "lookup" /\ writer'[q].todo = {}
        /\ \A w \in Inbox!Writers : w # q => writer'[w] = writer[w]
    <3>1. writer[q] \in WriterType /\ q \in Inbox!Writers /\ DOMAIN writer = Inbox!Writers
      BY WriterIs DEF NewsInv, NewsTypes
    <3>2. writer'[q] = [writer[q] EXCEPT !.pc = "lookup"]
      BY <1>1, <3>1
    <3>. HIDE DEF q
    <3>. QED BY <1>1, <2>1, <3>1, <3>2 DEF WriterType
  <2>3. app'[n] = "taken" /\ \A m \in News : m # n => app'[m] = app[m]
    BY <1>1 DEF NewsInv, NewsTypes
  <2>. QED BY <1>1, <2>2, <2>3, WriterIs DEF NewsInv, Stages
<1>4. AllTold'
  BY <1>1, WriterIs DEF NewsInv, NewsTypes, WriterType, AllTold, TellsAll, Told, HasRow, Inbox!Key
<1>. QED BY <1>2, <1>3, <1>4 DEF NewsInv

\* The job fails, and is tried again or given up.
LEMMA NewsAppFails ==
    ASSUME NewsInv, NEW n \in News, Inbox!AppFails(n)
    PROVE  NewsInv'
<1>. DEFINE q == <<n, "queued">>
<1>1. /\ writer[q].pc = "thrown" /\ tries' = [tries EXCEPT ![n] = @ + 1]
      /\ writer' = [writer EXCEPT ![q] = Inbox!Resting]
      /\ UNCHANGED <<kind, people, api, rows, audience, failed, seen>>
  BY DEF Inbox!AppFails, Inbox!history
<1>2. app' = [app EXCEPT ![n] = IF tries[n] + 1 < MaxAttempts THEN "waiting" ELSE "failed"]
  BY DEF Inbox!AppFails, Inbox!Attempt
<1>3. /\ app[n] = "taken" /\ tries[n] < MaxAttempts /\ writer[q].todo = {} /\ api[n] = "done"
      /\ tries[n] \in Nat
  BY <1>1, WriterIs DEF NewsInv, NewsTypes, Stages
<1>4. NewsTypes' /\ RowTypes'
  <2>1. tries' \in [News -> Nat] /\ \A m \in News : tries'[m] <= MaxAttempts
    BY <1>1, <1>3, NewsAssumption DEF NewsInv, NewsTypes
  <2>2. app' \in [News -> {"none", "waiting", "taken", "done", "failed"}]
    BY <1>2 DEF NewsInv, NewsTypes
  <2>. QED BY <1>1, <2>1, <2>2, RestingType DEF NewsInv, NewsTypes, RowTypes, RowsApart
<1>5. Stages'
  BY <1>1, <1>2, <1>3, WriterIs DEF NewsInv, NewsTypes, Stages, Inbox!Resting
<1>6. AllTold'
  BY <1>1, <1>3 DEF NewsInv, NewsTypes, AllTold, TellsAll, Told, HasRow, Inbox!Key, Inbox!Resting
<1>. QED BY <1>4, <1>5, <1>6 DEF NewsInv

\* The worker dies, and the job is tried again or given up.
LEMMA NewsWorkerDies ==
    ASSUME NewsInv, Inbox!WorkerDies
    PROVE  NewsInv'
<1>1. /\ app' = [n \in News |-> IF app[n] = "taken" THEN "waiting" ELSE app[n]]
      /\ writer' = [w \in Inbox!Writers |-> IF w[2] = "queued" THEN Inbox!Resting ELSE writer[w]]
      /\ audience' = [w \in Inbox!Writers |-> IF w[2] = "queued" THEN audience[w] \ writer[w].todo
                                              ELSE audience[w]]
      /\ UNCHANGED <<kind, people, api, tries, rows, failed, seen>>
  BY DEF Inbox!WorkerDies, Inbox!Busy
<1>2. NewsTypes' /\ RowTypes'
  BY <1>1, RestingType DEF NewsInv, NewsTypes, RowTypes, RowsApart
<1>3. Stages'
  BY <1>1, WriterIs DEF NewsInv, NewsTypes, Stages, Inbox!Resting
<1>4. AllTold'
  BY <1>1 DEF NewsInv, NewsTypes, AllTold, TellsAll, Told, HasRow, Inbox!Key, Inbox!Resting
<1>. QED BY <1>2, <1>3, <1>4 DEF NewsInv

\* A user reads what is in view.
LEMMA NewsMarkRead ==
    ASSUME NewsInv, NEW u \in Inbox!Users, NEW S \in SUBSET rows, Inbox!MarkRead(u, S)
    PROVE  NewsInv'
<1>. DEFINE marked == {[r EXCEPT !.read = TRUE] : r \in S}
<1>1. /\ rows' = (rows \ S) \union marked
      /\ seen' = Inbox!Shown(u, {r.key : r \in S})
      /\ UNCHANGED <<kind, people, api, app, tries, writer, audience, failed>>
  BY DEF Inbox!MarkRead
<1>2. \A r \in S : LET m == [r EXCEPT !.read = TRUE]
                   IN m \in Inbox!Row /\ m.id = r.id /\ m.user = r.user /\ m.key = r.key
  BY DEF NewsInv, RowTypes, Inbox!Row
<1>3. IsFiniteSet(marked)
  <2>1. IsFiniteSet(S)
    BY FS_Subset DEF NewsInv, RowTypes
  <2>. DEFINE f == [r \in S |-> [r EXCEPT !.read = TRUE]]
  <2>2. f \in Surjection(S, marked)
    BY DEF Surjection
  <2>. HIDE DEF f, marked
  <2>. QED BY <2>1, <2>2, FS_Surjection
<1>4. RowTypes'
  <2>1. rows' \subseteq Inbox!Row
    BY <1>1, <1>2 DEF NewsInv, RowTypes
  <2>2. IsFiniteSet(rows')
    <3>1. IsFiniteSet(rows \ S)
      BY FS_Subset DEF NewsInv, RowTypes
    <3>. HIDE DEF marked
    <3>. QED BY <1>1, <1>3, <3>1, FS_Union
  <2>3. RowsApart'
    <3>. SUFFICES ASSUME NEW r \in rows', NEW s \in rows', r.id = s.id PROVE r = s
      BY DEF RowsApart
    <3>1. PICK a \in rows : r.id = a.id /\ r = IF a \in S THEN [a EXCEPT !.read = TRUE] ELSE a
      BY <1>1, <1>2
    <3>2. PICK b \in rows : s.id = b.id /\ s = IF b \in S THEN [b EXCEPT !.read = TRUE] ELSE b
      BY <1>1, <1>2
    <3>. QED BY <3>1, <3>2 DEF NewsInv, RowTypes, RowsApart
  <2>. QED BY <2>1, <2>2, <2>3 DEF RowTypes
<1>5. seen' \in [Inbox!Users -> SUBSET News] /\ \A v \in Inbox!Users : seen[v] \subseteq seen'[v]
  BY <1>1 DEF Inbox!Shown, NewsInv, NewsTypes
<1>6. NewsTypes' /\ Stages'
  BY <1>1, <1>5 DEF NewsInv, NewsTypes, Stages
<1>7. AllTold'
  <2>1. \A r \in rows : \E m \in rows' : m.user = r.user /\ m.key = r.key
    BY <1>1, <1>2
  <2>2. \A w \in Inbox!Writers, v \in Inbox!Users : Told(w, v) => Told(w, v)'
    <3>. SUFFICES ASSUME NEW w \in Inbox!Writers, NEW v \in Inbox!Users, Told(w, v) PROVE Told(w, v)'
      OBVIOUS
    <3>1. CASE w[1] \in seen[v]
      BY <1>5, <3>1 DEF Told
    <3>2. CASE HasRow(w, v)
      BY <1>1, <2>1, <3>2 DEF Told, HasRow, Inbox!Key
    <3>. QED BY <3>1, <3>2 DEF Told
  <2>3. \A w \in Inbox!Writers : writer[w].pc = "update" => writer[w].user \in Inbox!Users
    BY DEF NewsInv, NewsTypes, WriterType, Stages
  <2>4. \A w \in Inbox!Writers : audience[w] \subseteq Inbox!Users
    BY DEF NewsInv, NewsTypes
  <2>. QED BY <1>1, <2>2, <2>3, <2>4 DEF NewsInv, AllTold, TellsAll
<1>. QED BY <1>4, <1>6, <1>7 DEF NewsInv

\* A read row is removed when its time is over.
LEMMA NewsExpire ==
    ASSUME NewsInv, NEW r \in rows, Inbox!Expire(r)
    PROVE  NewsInv'
<1>1. /\ \A w \in Inbox!Writers : writer[w].pc = "idle"
      /\ rows' = rows \ {r} /\ seen' = Inbox!Shown(r.user, {r.key})
      /\ UNCHANGED <<kind, people, api, app, tries, writer, audience, failed>>
  BY DEF Inbox!Expire
<1>2. RowTypes'
  BY <1>1, FS_RemoveElement DEF NewsInv, RowTypes, RowsApart
<1>3. /\ seen' \in [Inbox!Users -> SUBSET News]
      /\ \A v \in Inbox!Users : seen[v] \subseteq seen'[v]
      /\ \A n \in News : kind[n] # "none" /\ Inbox!Key(n) = r.key => n \in seen'[r.user]
  <2>1. r.user \in Inbox!Users
    BY DEF NewsInv, RowTypes, Inbox!Row
  <2>. QED BY <1>1, <2>1 DEF Inbox!Shown, NewsInv, NewsTypes
<1>4. NewsTypes' /\ Stages'
  BY <1>1, <1>3 DEF NewsInv, NewsTypes, Stages
<1>5. AllTold'
  <2>1. \A w \in Inbox!Writers, v \in Inbox!Users : kind[w[1]] # "none" /\ Told(w, v) => Told(w, v)'
    BY <1>1, <1>3, WriterIs DEF Told, HasRow, Inbox!Key
  <2>2. \A w \in Inbox!Writers : audience[w] \subseteq Inbox!Users /\ (audience[w] # {} => kind[w[1]] # "none")
    BY DEF NewsInv, NewsTypes, Stages
  <2>. QED BY <1>1, <2>1, <2>2 DEF NewsInv, AllTold, TellsAll
<1>. QED BY <1>2, <1>4, <1>5 DEF NewsInv

\* Every step of the notifications keeps their invariant.
LEMMA NewsStep == NewsInv /\ [Inbox!Next]_(Inbox!vars) => NewsInv'
<1>. SUFFICES ASSUME NewsInv, [Inbox!Next]_(Inbox!vars) PROVE NewsInv'
  OBVIOUS
<1>1. CASE UNCHANGED Inbox!vars
  <2>1. UNCHANGED <<kind, people, api, app, tries, writer, rows, audience, failed, seen>>
    BY <1>1 DEF Inbox!vars, Inbox!history
  <2>2. NewsTypes' /\ RowTypes' /\ Stages'
    BY <2>1 DEF NewsInv, NewsTypes, RowTypes, RowsApart, Stages
  <2>3. AllTold'
    BY <2>1 DEF NewsInv, AllTold, TellsAll, Told, HasRow, Inbox!Key
  <2>. QED BY <2>2, <2>3 DEF NewsInv
<1>2. ASSUME NEW n \in News, Inbox!Request(n) \/ Inbox!Work(n) \/ Inbox!ApiDies(n)
      PROVE  NewsInv'
  BY <1>2, NewsEnqueue, NewsTake, NewsAppFails, NewsApiDies DEF Inbox!Request, Inbox!Work
<1>3. ASSUME NEW n \in News, NEW k \in Kinds, Inbox!Happen(n, k) PROVE NewsInv'
  BY <1>3, NewsHappen
<1>4. ASSUME NEW w \in Inbox!Writers, Inbox!Dispatch(w) \/ Inbox!LookUpFails(w) \/ Inbox!WriteFails(w)
      PROVE  NewsInv'
  BY <1>4, NewsLookUp, NewsRefresh, NewsCreate, NewsFind, NewsLookUpFails, NewsWriteFails
     DEF Inbox!Dispatch
<1>5. CASE Inbox!WorkerDies
  BY <1>5, NewsWorkerDies
<1>6. ASSUME NEW u \in Inbox!Users, NEW S \in SUBSET rows, Inbox!MarkRead(u, S) PROVE NewsInv'
  BY <1>6, NewsMarkRead
<1>7. ASSUME NEW r \in rows, Inbox!Expire(r) PROVE NewsInv'
  BY <1>7, NewsExpire
<1>. QED BY <1>1, <1>2, <1>3, <1>4, <1>5, <1>6, <1>7 DEF Inbox!Next

\* The invariant of the notifications implies their types, and that news is in view.
LEMMA NewsEnds == NewsInv => Inbox!TypeOK /\ Inbox!NewsInView
<1>. SUFFICES ASSUME NewsInv PROVE Inbox!TypeOK /\ Inbox!NewsInView
  OBVIOUS
<1>1. Inbox!TypeOK
  <2>. DEFINE ids == {r.id : r \in rows}
              f == [r \in rows |-> r.id]
  <2>1. f \in Surjection(rows, ids)
    BY DEF Surjection
  <2>2. f \in Injection(rows, ids)
    <3>1. f \in [rows -> ids]
      OBVIOUS
    <3>2. \A a, b \in rows : f[a] = f[b] => a = b
      BY DEF NewsInv, RowTypes, RowsApart
    <3>. HIDE DEF f, ids
    <3>. QED BY <3>1, <3>2 DEF Injection, IsInjective
  <2>3. Inbox!Cardinality(ids) = Cardinality(ids) /\ Inbox!Cardinality(rows) = Cardinality(rows)
    BY DEF Inbox!Cardinality, Cardinality
  <2>4. Cardinality(ids) = Cardinality(rows)
    <3>. HIDE DEF ids, f
    <3>. QED BY <2>1, <2>2, FS_Surjection DEF NewsInv, RowTypes
  <2>5. Inbox!Cardinality(ids) = Inbox!Cardinality(rows)
    BY <2>3, <2>4
  <2>. QED BY <2>5 DEF Inbox!TypeOK, NewsInv, NewsTypes, RowTypes, WriterType
<1>2. Inbox!NewsInView
  BY DEF NewsInv, NewsTypes, AllTold, TellsAll, Told, HasRow, Inbox!NewsInView, Inbox!Reached,
     Inbox!InView,
         Inbox!Unread, Inbox!Event
<1>. QED BY <1>1, <1>2

\* A step belongs to the component of the scene, and the scene stays.
LEMMA SceneSteps ==
    ASSUME [Next]_vars
    PROVE  /\ UNCHANGED scene
           /\ scene = "news" => [Inbox!Next]_(Inbox!vars)
           /\ [Cache!Next]_(Cache!vars)
<1>. USE DEF Next, Resting, In, vars
<1>1. UNCHANGED scene
  OBVIOUS
<1>2. scene = "news" => [Inbox!Next]_(Inbox!vars)
  BY DEF Inbox!vars, Inbox!budget, Inbox!history, newsVars
<1>3. [Cache!Next]_(Cache!vars)
  BY DEF Cache!vars, cacheVars
<1>. QED BY <1>1, <1>2, <1>3

\* Whoever a dispatch is done with has an unread row of the event's key, or has read such a row
\* since (or one has expired since), whatever was refreshed or retried on the way.  Two kinds of
\* user may have neither: whom a failed write or the death of the process left out, and whoever
\* had read a row of the same key before, which the unique index counts and the look-up does not:
\* news_blocked shows that loss.
THEOREM NewsCorrect == Spec => []NewsInView
<1>. DEFINE Inv == scene = "news" => NewsInv
<1>1. Init => Inv
  BY NewsStart DEF Init
<1>2. Inv /\ [Next]_vars => Inv'
  BY SceneSteps, NewsStep
<1>3. Inv => NewsInView
  BY NewsEnds DEF NewsInView, In
<1>. QED BY <1>1, <1>2, <1>3, PTL DEF Spec

\* One caller refreshes a dashboard while no lock was lost, in every number of requests.
THEOREM CacheCorrect == Spec => []OneCallerRefreshes
<1>1. Init => CacheInv
  BY CacheStart DEF Init
<1>2. CacheInv /\ [Next]_vars => CacheInv'
  BY SceneSteps, CacheStep
<1>. QED BY <1>1, <1>2, CacheEnds, PTL DEF Spec

\* The invariant of the scenes: whoever a dispatch is done with has an unread row of the event's
\* key or has read one since, but for those a failed write or a death left out and those who had
\* read a row of the same key before; and a dashboard has one caller that computes it while no
\* lock was lost.
THEOREM SceneInvariantCorrect == Spec => []InViewAndComputedOnce
<1>1. NewsInView /\ OneCallerRefreshes => InViewAndComputedOnce
  BY DEF InViewAndComputedOnce
<1>. QED BY <1>1, NewsCorrect, CacheCorrect, PTL
=============================================================================
