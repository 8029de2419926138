---------------------------- MODULE SupportThread ----------------------------
(***************************************************************************)
(* Reading a ticket's thread: listMessages, markTicketAsRead and the       *)
(* unread counts of services/support.service.ts, against messages that are *)
(* being written.  The messages have no number: a page is asked for by the *)
(* created_at of the first or last message it has, and read marks are      *)
(* times too.  The time is stamped by the API process that writes the      *)
(* message, before the insert: a message can appear behind one that has    *)
(* been shown.                                                             *)
(*                                                                         *)
(* The panel is not in src/: it opens a thread on its last page, asks for  *)
(* what is after its last message or before its first, and marks as read   *)
(* up to its last message, or up to now.                                   *)
(*                                                                         *)
(* Left out: bodies, attachments, status and the rest of the ticket        *)
(* (SupportTicket), who may see the ticket at all, a ticket the staff have *)
(* opened for a customer, and one that is closed under a reply, whose      *)
(* preview then stays as it was.                                           *)
(***************************************************************************)
EXTENDS Integers, FiniteSets, FiniteSetsExt

CONSTANTS Customers, Staff,
          Writers, Readers,   \* of the customers and the staff, those that write and read here
          StaffKinds,     \* what staff write: of {"reply", "note", "event", "change"}
          MaxTime,        \* bound of the clock, in ms
          MaxMessages,    \* bound of the messages, the first one included
          PageSize        \* limit

Users == Customers \union Staff
isStaff(u) == u \in Staff
Author == CHOOSE c \in Customers : TRUE

VARIABLES clock, thread, writing, preview,
          last_read_at, role_read_at,     \* per user, and staff_read_at, customer_read_at; 0: unset
          shown, blind, late

vars == <<clock, thread, writing, preview, last_read_at, role_read_at, shown, blind, late>>

Roles == {"staff", "customer"}
role(u) == IF isStaff(u) THEN "staff" ELSE "customer"
created == 1
None == [id |-> 0]

\* A message as stored.  A change of priority, assignment or attachments is an event too,
\* but internal like a note.  sent is the time createTicket or addMessage takes for the
\* ticket before the message is stamped.
Message(id, u, kind, sent, at) ==
    LET event == kind \in {"event", "change"} IN
    [id |-> id, by |-> u, kind |-> IF event THEN "event" ELSE kind, sender |-> IF event THEN "system" ELSE u,
     is_internal |-> kind \in {"note", "change"}, sent |-> sent, created_at |-> at]

Kinds(u) == IF isStaff(u) THEN StaffKinds ELSE {"reply"}

Init ==
    /\ clock = 2 /\ writing = [u \in Users |-> None]
    /\ \E at \in created..2 : thread = {Message(1, Author, "reply", created, at)}
    /\ preview = [at |-> created, of |-> 1]
    /\ last_read_at = [u \in Users |-> IF u = Author THEN created ELSE 0]
    /\ role_read_at = [r \in Roles |-> IF r = "customer" THEN created ELSE 0]
    /\ shown = [u \in Users |-> {}]
    /\ blind = {} /\ late = {}

\* TIME passes.
Tick ==
    /\ clock < MaxTime /\ clock' = clock + 1
    /\ UNCHANGED <<thread, writing, preview, last_read_at, role_read_at, shown, blind, late>>

-----------------------------------------------------------------------------
(* Writing.                                                                *)

InFlight == {u \in Users : writing[u] # None}

\* addMessage, addNote or writeEvent: the message gets its id and its times.
Stamp(u, kind, sent) ==
    LET id == 1 + Cardinality(thread) + Cardinality({v \in InFlight : writing[v].id \notin {m.id : m \in thread}})
    IN /\ writing[u] = None /\ kind \in Kinds(u) /\ id <= MaxMessages
       /\ sent \in clock - 1..clock
       /\ writing' = [writing EXCEPT ![u] = Message(id, u, kind, sent, clock)]
       /\ UNCHANGED <<clock, thread, preview, last_read_at, role_read_at, shown, blind, late>>

\* The insert; late collects the messages that appear behind another one.
Insert(u) ==
    LET m == writing[u]
    IN /\ m # None /\ m \notin thread
       /\ thread' = thread \union {m}
       /\ late' = IF \E n \in thread : n.created_at > m.created_at THEN late \union {m.id} ELSE late
       /\ writing' = IF m.kind = "reply" THEN writing ELSE [writing EXCEPT ![u] = None]
       /\ UNCHANGED <<clock, preview, last_read_at, role_read_at, shown, blind>>

\* addMessage sets last_public_message on the ticket, with its own time.
Publish(u) ==
    LET m == writing[u]
    IN /\ m # None /\ m \in thread
       /\ preview' = [at |-> m.sent, of |-> m.id]
       /\ writing' = [writing EXCEPT ![u] = None]
       /\ UNCHANGED <<clock, thread, last_read_at, role_read_at, shown, blind, late>>

-----------------------------------------------------------------------------
(* Reading.                                                                *)

Visible(u) == {m \in thread : isStaff(u) \/ ~m.is_internal}
Newer(m, n) == m.created_at > n.created_at \/ (m.created_at = n.created_at /\ m.id > n.id)

\* The first PageSize of some messages in the order of the query: ascending with
\* `after', descending without.
FirstOf(messages, ascending) ==
    {m \in messages :
       Cardinality({n \in messages : IF ascending THEN Newer(m, n) ELSE Newer(n, m)}) < PageSize}

(* Mutant: a poll is answered with the newest messages. *)
NewestAfter(u, params) ==
    LET matching == {m \in Visible(u) : /\ params.after # 0 => m.created_at > params.after
                                        /\ params.before # 0 /\ params.after = 0 => m.created_at < params.before}
    IN [results |-> FirstOf(matching, FALSE), has_more |-> Cardinality(matching) > PageSize]

\* `after' wins over `before'; 0 is neither.
listMessages(u, params) ==
    LET matching == {m \in Visible(u) : /\ params.after # 0 => m.created_at > params.after
                                        /\ params.before # 0 /\ params.after = 0 => m.created_at < params.before}
    IN [results |-> FirstOf(matching, params.after # 0), has_more |-> Cardinality(matching) > PageSize]

Times(messages) == {m.created_at : m \in messages}

\* The panel asks for the last page, the messages after its last one, or those before
\* its first one.
Ask(u) ==
    \E params \in IF shown[u] = {} THEN {[after |-> 0, before |-> 0]}
                  ELSE {[after |-> Max(Times(shown[u])), before |-> 0],
                        [after |-> 0, before |-> Min(Times(shown[u]))]} :
        /\ shown' = [shown EXCEPT ![u] = @ \union listMessages(u, params).results]
        /\ shown'[u] # shown[u]
        /\ UNCHANGED <<clock, thread, writing, preview, last_read_at, role_read_at, blind, late>>

Later(a, b) == IF a > b THEN a ELSE b

\* markTicketAsRead: $max of the viewer's mark and of the side's, never beyond now; now
\* is what a request without `up_to' gets.
Mark(u, up_to) ==
    LET cursor == IF up_to = 0 \/ up_to > clock THEN clock ELSE up_to
    IN /\ last_read_at' = [last_read_at EXCEPT ![u] = Later(@, cursor)]
       /\ role_read_at' = [role_read_at EXCEPT ![role(u)] = Later(@, cursor)]
       /\ blind' = IF up_to = 0 THEN blind \union {u} ELSE blind
       /\ UNCHANGED <<clock, thread, writing, preview, shown, late>>

MarkShown(u) == shown[u] # {} /\ Mark(u, Max(Times(shown[u])))

(* Mutant: a viewer without a mark of its own has read everything to now. *)
CursorNow(u) == IF last_read_at[u] # 0 THEN last_read_at[u] ELSE clock

\* The viewer's own mark, else the one of its side, else the ticket's creation.
CursorOf(u) ==
    CASE last_read_at[u] # 0 -> last_read_at[u]
      [] last_read_at[u] = 0 /\ role_read_at[role(u)] # 0 -> role_read_at[role(u)]
      [] OTHER -> created

computeUnread(u) ==
    {m \in Visible(u) : m.created_at > CursorOf(u) /\ m.kind # "event" /\ m.sender # u}

\* serializeLastPublicMessage: is the last message read by the other side.
read(r) == LET other == role_read_at[IF r = "staff" THEN "customer" ELSE "staff"]
           IN other # 0 /\ preview.at <= other

Next ==
    \/ Tick
    \/ \E u \in Writers :
        \/ \E kind \in Kinds(u), sent \in 1..MaxTime : Stamp(u, kind, sent)
        \/ Insert(u) \/ Publish(u)
    \/ \E u \in Readers : Ask(u) \/ MarkShown(u) \/ Mark(u, 0)

Spec == Init /\ [][Next]_vars

-----------------------------------------------------------------------------
(* Properties.                                                             *)

\* Type invariant: times are not later than now, and a panel shows its user's messages.
TypeOK ==
    /\ clock \in 1..MaxTime /\ preview.at \in 1..MaxTime /\ preview.of \in 1..MaxMessages
    /\ \A m \in thread : m.id \in 1..MaxMessages /\ m.created_at \in m.sent..clock
    /\ last_read_at \in [Users -> 0..MaxTime] /\ role_read_at \in [Roles -> 0..MaxTime]
    /\ \A u \in Users : shown[u] \subseteq Visible(u)
    /\ blind \subseteq Users

\* A message appeared behind another one, or shares its time with one.
Overtaken(m) == m.id \in late \/ \E n \in thread : n # m /\ n.created_at = m.created_at

\* However it polls and scrolls, a panel misses no message between its first and its
\* last one, internal ones of the staff's apart: only one that was inserted behind
\* another or in the same millisecond.
PanelMissesNothing ==
    \A u \in Users : \A m \in Visible(u) \ shown[u] :
        (\E n, o \in shown[u] : Newer(m, n) /\ Newer(o, m)) => Overtaken(m)

\* A message nobody has shown a viewer is counted as unread, so that the panel knows to
\* ask for it: unless it is the viewer's own, was overtaken, is older than the page the
\* thread was opened on, or the viewer has marked everything as read unseen.
UnseenIsUnread ==
    \A u \in Users \ blind : \A m \in Visible(u) \ shown[u] :
        (m.kind # "event" /\ m.sender # u /\ last_read_at[u] # 0)
            => \/ m \in computeUnread(u) \/ Overtaken(m)
               \/ \E n \in shown[u] : Newer(n, m)

\* A viewer who has never opened a ticket is told what its own side has not read.
NewcomerIsTold ==
    \A u \in Users : last_read_at[u] = 0 =>
        \A m \in Visible(u) :
            (m.sender \notin {u, "system"} /\ m.created_at > Later(created, role_read_at[role(u)]))
                => m \in computeUnread(u)

\* The sender is shown a read receipt only for what was on a screen of the other side,
\* if that side marks what it shows: but for a message that took its time before
\* another one, which was read, and its place behind it.
ReceiptsAreTrue ==
    \A r \in Roles :
        LET side == {u \in Users : role(u) # r}
            m == CHOOSE n \in thread : n.id = preview.of
        IN (read(r) /\ side \intersect blind = {} /\ m.by \notin side) =>
               \/ \E u \in side : \E n \in shown[u] : n = m \/ Newer(n, m)
               \/ \E n \in thread : n # m /\ n.created_at \in m.sent..m.created_at
=============================================================================
