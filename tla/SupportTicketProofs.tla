------------------------- MODULE SupportTicketProofs -------------------------
(***************************************************************************)
(* Theorems about SupportTicket, for any finite sets of tickets, requests  *)
(* and files, any cap, and any bounds.                                     *)
(***************************************************************************)
EXTENDS SupportTicket, FiniteSetTheorems, TLAPS

\* What a request or the job is doing, and to what.
Stages == {"idle", "counted", "uploaded", "ticketed", "loaded", "inserted", "telling",
           "closing", "updating", "removing"}
OnTicket == {"ticketed", "loaded", "inserted", "telling", "closing", "updating", "removing"}
WithFile == {"uploaded", "ticketed", "loaded"}

MessageRow == [cid : ClientIds \union {None}, file : Files \union {None},
               note : BOOLEAN, gone : BOOLEAN]
RequestRow == [pc : Stages, by : Roles, t : Tickets \union {None}, snap : TicketRow,
               cid : ClientIds \union {None}, file : Files \union {None}, at : 0..MaxLog,
               to : Statuses \union {"none"}, flip : BOOLEAN, raced : BOOLEAN]
JobRow == [pc : {"idle", "closing", "telling"}, stale : SUBSET Tickets,
           t : Tickets \union {None}]

\* A request on a ticket names it, one that writes a status has one to write,
\* one that has a message at hand names a message that exists.
Fits(r) ==
    /\ req[r].pc \in OnTicket <=> req[r].t # None
    /\ req[r].pc \in {"telling", "updating"} => req[r].to \in Statuses
    /\ req[r].pc \in {"inserted", "removing"} => req[r].at \in MessagesOf(req[r].t)
    /\ req[r].pc = "removing" => log[req[r].t][req[r].at].file # None
    /\ req[r].file # None => req[r].pc \in WithFile

Types ==
    /\ ticket \in [Tickets -> TicketRow]
    /\ log \in [Tickets -> Seq(MessageRow)]
    /\ \A t \in Tickets : Len(log[t]) <= MaxLog
    /\ trail \in [Tickets -> Statuses]
    /\ req \in [Requests -> RequestRow]
    /\ job \in JobRow
    /\ job.pc = "telling" <=> job.t # None
    /\ disk \subseteq Files /\ lost \subseteq Files
    /\ disturbed \subseteq Tickets /\ expired \subseteq Tickets /\ excess \in BOOLEAN
    /\ \A r \in Requests : Fits(r)

\* A ticket without a row, or whose creator is not done with it, is in nobody
\* else's hands: it has no messages, no events, and the job did not find it.
Untouched(t) == log[t] = <<>> /\ trail[t] = "open" /\ t \notin job.stale /\ job.t # t

Births ==
    /\ \A t \in Tickets : ticket[t].status = "none" =>
          Untouched(t) /\ \A r \in Requests : req[r].t # t
    /\ \A r \in Requests : req[r].pc = "ticketed" =>
          /\ Untouched(req[r].t)
          /\ ticket[req[r].t] = [NoTicket EXCEPT !.status = "open", !.preview = 1, !.customer = 1]
          /\ \A x \in Requests \ {r} : req[x].t # req[r].t

\* An update writes a status the workflow allows from the one it read, so one
\* that read a closed ticket changes at most its assignee; a reply read a ticket
\* that was not closed.
Readings ==
    \A r \in Requests :
        /\ req[r].pc = "updating" =>
              /\ req[r].snap.status \in Statuses
              /\ req[r].to = req[r].snap.status \/ req[r].to \in StaffTransitions[req[r].snap.status]
        /\ req[r].pc \in {"loaded", "inserted"} => req[r].snap.status # "closed"

\* Whose a file is: a request's or a message's and never two's, in the store
\* while a request has it, and out of it while its message is being emptied.
Carries(t, i, f) == i \in MessagesOf(t) /\ log[t][i].file = f

FileFacts(f) ==
    /\ \A r, x \in Requests : req[r].file = f /\ req[x].file = f => r = x
    /\ Held(f) => f \in disk \union lost /\ \A t \in Tickets : \A i : ~Carries(t, i, f)
    /\ \A t, u \in Tickets : \A i, j : Carries(t, i, f) /\ Carries(u, j, f) => t = u /\ i = j
    /\ Removing(f) => f \notin disk
    /\ f \in lost \/ Removing(f) \/ (f \in disk <=> Attached(f) \/ Held(f))

Owned == \A f \in Files : FileFacts(f)

\* A creation that counted the tickets and was not overtaken since still finds
\* room for its own.
Room ==
    ~excess =>
        /\ Cardinality(Active) <= MaxActive
        /\ \A r \in Requests : req[r].pc \in {"counted", "uploaded"} /\ ~req[r].raced => BelowCap

\* Of an undisturbed ticket: the messages the preview does not know yet are
\* those of replies that were inserted and not applied.
Inserted(r, t) == req[r].pc = "inserted" /\ req[r].t = t

PreviewedOf(t) ==
    /\ ticket[t].preview \in PublicOf(t) \/ BeingBorn(t)
    /\ \A i \in PublicOf(t) :
          i <= ticket[t].preview \/ \E r \in Requests : Inserted(r, t) /\ req[r].at = i
    /\ \A r \in Requests : Inserted(r, t) =>
          req[r].at \in PublicOf(t) /\ req[r].at > ticket[t].preview

Previewed == \A t \in Tickets \ disturbed : ticket[t].status # "none" => PreviewedOf(t)

\* Of an undisturbed ticket: a status event that is still to be written names
\* the status, and without one the trail does.
Telling(r, t) == req[r].pc = "telling" /\ req[r].t = t

ToldOf(t) ==
    /\ \A r \in Requests : Telling(r, t) => req[r].to = ticket[t].status
    /\ job.t = t => ticket[t].status = "closed"
    /\ job.t # t /\ (\A r \in Requests : ~Telling(r, t)) => trail[t] = ticket[t].status

Told == \A t \in Tickets \ disturbed : ticket[t].status # "none" => ToldOf(t)

-----------------------------------------------------------------------------
(* Types.                                                                  *)

\* The empty ticket and the idle request are well formed.
LEMMA Blanks == NoTicket \in TicketRow /\ Idle \in RequestRow /\ Idle.t = None
<1>1. NoTicket \in TicketRow
  BY SupportAssumption DEF SupportAssumption, NoTicket, TicketRow
<1>2. Idle \in RequestRow
  BY <1>1, SupportAssumption DEF SupportAssumption, Idle, RequestRow, Stages, Roles
<1>. QED BY <1>1, <1>2 DEF Idle

\* Messages are only added, within the bound, and keep the file they came with.
Extended ==
    /\ log' \in [Tickets -> Seq(MessageRow)]
    /\ \A t \in Tickets : /\ Len(log'[t]) \in Len(log[t]) .. MaxLog
                         /\ \A i \in MessagesOf(t) : log'[t][i].file = log[t][i].file

\* What appending a message does to the log.
LEMMA Grown ==
    ASSUME Types, NEW t \in Tickets, NEW m \in MessageRow, Len(log[t]) < MaxLog,
           log' = [log EXCEPT ![t] = Append(@, m)]
    PROVE  /\ Extended
           /\ \A u \in Tickets : u # t => log'[u] = log[u]
           /\ Len(log'[t]) = Len(log[t]) + 1 /\ log'[t][Len(log[t]) + 1] = m
           /\ \A i \in MessagesOf(t) : log'[t][i] = log[t][i]
<1>1. log \in [Tickets -> Seq(MessageRow)] /\ \A u \in Tickets : Len(log[u]) <= MaxLog
  BY DEF Types
<1>2. log[t] \in Seq(MessageRow) /\ Len(log[t]) \in Nat /\ MaxLog \in Nat
  BY <1>1, SupportAssumption DEF SupportAssumption
<1>3. log'[t] = Append(log[t], m) /\ \A u \in Tickets : u # t => log'[u] = log[u]
  BY <1>1
<1>4. /\ Append(log[t], m) \in Seq(MessageRow)
      /\ Len(Append(log[t], m)) = Len(log[t]) + 1
      /\ Append(log[t], m)[Len(log[t]) + 1] = m
      /\ \A i \in 1..Len(log[t]) : Append(log[t], m)[i] = log[t][i]
  BY <1>2
<1>5. log' \in [Tickets -> Seq(MessageRow)]
  BY <1>1, <1>4
<1>6. \A u \in Tickets : Len(log'[u]) \in Len(log[u]) .. MaxLog
  <2>. SUFFICES ASSUME NEW u \in Tickets PROVE Len(log'[u]) \in Len(log[u]) .. MaxLog
    OBVIOUS
  <2>1. Len(log[u]) \in Nat
    BY <1>1
  <2>2. CASE u = t
    BY <1>2, <1>3, <1>4, <2>2
  <2>3. CASE u # t
    BY <1>1, <1>2, <1>3, <2>1, <2>3
  <2>. QED BY <2>2, <2>3
<1>7. \A u \in Tickets : \A i \in MessagesOf(u) : log'[u][i].file = log[u][i].file
  BY <1>3, <1>4 DEF MessagesOf
<1>. QED BY <1>3, <1>4, <1>5, <1>6, <1>7 DEF MessagesOf, Extended

\* A log that did not change is extended by nothing.
LEMMA LogStays == Types /\ log' = log => Extended
<1>. SUFFICES ASSUME Types, log' = log PROVE Extended
  OBVIOUS
<1>1. \A t \in Tickets : Len(log[t]) \in Nat /\ Len(log[t]) <= MaxLog /\ MaxLog \in Nat
  BY SupportAssumption DEF SupportAssumption, Types
<1>. QED BY <1>1 DEF Extended, Types

\* A step of one request keeps the types, if what it leaves is well formed.
LEMMA Moved ==
    ASSUME Types, NEW r \in Requests, NEW row \in RequestRow, req' = [req EXCEPT ![r] = row],
           ticket' \in [Tickets -> TicketRow], Extended,
           trail' \in [Tickets -> Statuses], job' = job, disk' \subseteq Files, lost' \subseteq Files,
           disturbed' \subseteq Tickets, expired' = expired, excess' \in BOOLEAN,
           row.pc \in OnTicket <=> row.t # None,
           row.pc \in {"telling", "updating"} => row.to \in Statuses,
           row.pc \in {"inserted", "removing"} => row.at \in 1 .. Len(log'[row.t]),
           row.pc = "removing" => log'[row.t][row.at].file # None,
           row.file # None => row.pc \in WithFile
    PROVE  Types'
<1>1. req' \in [Requests -> RequestRow] /\ req'[r] = row /\ \A x \in Requests : x # r => req'[x] = req[x]
  BY DEF Types
<1>2. /\ \A t \in Tickets : Len(log[t]) \in Nat /\ Len(log'[t]) \in Nat /\ Len(log'[t]) >= Len(log[t])
      /\ \A t \in Tickets : \A i \in MessagesOf(t) : log'[t][i].file = log[t][i].file
  BY DEF Types, Extended
<1>3. Fits(r)'
  BY <1>1 DEF Fits, MessagesOf
<1>4. ASSUME NEW x \in Requests, x # r PROVE Fits(x)'
  <2>1. req[x] \in RequestRow /\ req'[x] = req[x] /\ Fits(x)
    BY <1>1, <1>4 DEF Types
  <2>2. CASE req[x].t \in Tickets
    BY <2>1, <2>2, <1>2 DEF Fits, MessagesOf
  <2>3. CASE req[x].t = None
    BY <2>1, <2>3 DEF Fits, OnTicket
  <2>. QED BY <2>1, <2>2, <2>3 DEF RequestRow
<1>5. \A t \in Tickets : Len(log'[t]) <= MaxLog
  BY <1>2, SupportAssumption DEF SupportAssumption, Extended
<1>. QED BY <1>1, <1>3, <1>4, <1>5 DEF Types, Extended

\* The ticket's new row is well formed.
LEMMA Rows ==
    ASSUME Types, NEW r \in Requests
    PROVE  /\ req[r].pc = "inserted" => \A row \in TicketRow : Answered(row, r) \in TicketRow
           /\ req[r].pc = "updating" => \A row \in TicketRow : Updated(row, r) \in TicketRow
           /\ \A row \in TicketRow : Closed(row) \in TicketRow
           /\ NextStatus(req[r].by, req[r].snap) # req[r].snap.status =>
                 NextStatus(req[r].by, req[r].snap) \in Statuses
<1>1. /\ req[r] \in RequestRow /\ Fits(r) /\ MaxLog \in Nat
      /\ req[r].snap \in TicketRow /\ req[r].at \in 0 .. MaxLog /\ req[r].by \in Roles
  BY SupportAssumption DEF SupportAssumption, Types, RequestRow
<1>2. NextStatus(req[r].by, req[r].snap) # req[r].snap.status =>
                 NextStatus(req[r].by, req[r].snap) \in Statuses
  BY DEF NextStatus, Statuses, ActiveStatuses
<1>3. ASSUME NEW row \in TicketRow PROVE Answered(row, r) \in TicketRow
  <2>2. /\ row.staff \in 0 .. MaxLog /\ row.customer \in 0 .. MaxLog /\ row.answered \in BOOLEAN
        /\ row.status \in Statuses \union {"none"} /\ row.resolved \in 0 .. (MaxLog + 1)
        /\ row.aged \in BOOLEAN
    BY DEF TicketRow
  <2>. DEFINE next == NextStatus(req[r].by, req[r].snap)
              staff == IF req[r].by = "staff" THEN req[r].at ELSE row.staff
              customer == IF req[r].by = "customer" THEN req[r].at ELSE row.customer
              answered == row.answered \/ req[r].by = "staff"
              status == IF next # req[r].snap.status THEN next ELSE row.status
              resolved == IF req[r].snap.status = "resolved" THEN 0 ELSE row.resolved
              aged == IF req[r].snap.status = "resolved" THEN FALSE ELSE row.aged
  <2>3. /\ staff \in 0 .. MaxLog /\ customer \in 0 .. MaxLog /\ answered \in BOOLEAN
        /\ status \in Statuses \union {"none"} /\ resolved \in 0 .. (MaxLog + 1)
    BY <1>1, <1>2, <2>2
  <2>4. aged \in BOOLEAN
    BY <2>2
  <2>5. Answered(row, r) = [row EXCEPT !.preview = req[r].at, !.staff = staff, !.customer = customer,
                                       !.answered = answered, !.status = status,
                                       !.resolved = resolved, !.aged = aged]
    BY DEF Answered
  <2>. HIDE DEF next, staff, customer, answered, status, resolved, aged
  <2>. QED BY <1>1, <2>3, <2>4, <2>5 DEF TicketRow
<1>4. ASSUME NEW row \in TicketRow, req[r].pc = "updating" PROVE Updated(row, r) \in TicketRow
  <2>2. /\ row.status \in Statuses \union {"none"} /\ row.resolved \in 0 .. (MaxLog + 1)
        /\ row.aged \in BOOLEAN /\ row.closed \in BOOLEAN /\ row.assigned \in BOOLEAN
    BY DEF TicketRow
  <2>3. req[r].t \in Tickets /\ req[r].to \in Statuses /\ Len(log[req[r].t]) + 1 \in 0 .. (MaxLog + 1)
    <3>1. req[r].t \in Tickets /\ req[r].to \in Statuses
      BY <1>1, <1>4 DEF Fits, OnTicket, RequestRow
    <3>. QED BY <1>1, <3>1 DEF Types
  <2>. DEFINE moved == req[r].to # req[r].snap.status
              reopen == moved /\ req[r].to \in {"in_progress", "open"}
              status == IF moved THEN req[r].to ELSE row.status
              resolved == CASE moved /\ req[r].to = "resolved" -> Len(log[req[r].t]) + 1
                            [] reopen -> 0
                            [] OTHER -> row.resolved
              aged == IF reopen \/ (moved /\ req[r].to = "resolved") THEN FALSE ELSE row.aged
              closed == CASE moved /\ req[r].to = "closed" -> TRUE
                          [] reopen -> FALSE
                          [] OTHER -> row.closed
              assigned == IF req[r].flip THEN ~req[r].snap.assigned ELSE row.assigned
  <2>4. status \in Statuses \union {"none"} /\ resolved \in 0 .. (MaxLog + 1)
    BY <1>1, <2>2, <2>3
  <2>5. aged \in BOOLEAN
    BY <2>2
  <2>6. closed \in BOOLEAN
    BY <2>2
  <2>7. assigned \in BOOLEAN
    BY <2>2
  <2>8. Updated(row, r) = [row EXCEPT !.status = status, !.resolved = resolved, !.aged = aged,
                                      !.closed = closed, !.assigned = assigned]
    BY DEF Updated
  <2>. HIDE DEF moved, reopen, status, resolved, aged, closed, assigned
  <2>. QED BY <2>4, <2>5, <2>6, <2>7, <2>8 DEF TicketRow
<1>5. ASSUME NEW row \in TicketRow PROVE Closed(row) \in TicketRow
  BY DEF Closed, TicketRow, Statuses
<1>. QED BY <1>2, <1>3, <1>4, <1>5

\* Init establishes the types.
LEMMA TypesInit == Init => Types
<1>. SUFFICES ASSUME Init PROVE Types
  OBVIOUS
<1>1. /\ ticket \in [Tickets -> TicketRow] /\ req \in [Requests -> RequestRow]
      /\ \A r \in Requests : req[r] = Idle
  BY Blanks DEF Init
<1>2. log \in [Tickets -> Seq(MessageRow)] /\ \A t \in Tickets : Len(log[t]) <= MaxLog
  BY SupportAssumption DEF SupportAssumption, Init
<1>3. job \in JobRow /\ (job.pc = "telling" <=> job.t # None)
  BY DEF Init, JobRow
<1>4. \A r \in Requests : Fits(r)
  BY <1>1 DEF Fits, Idle, OnTicket, WithFile
<1>. QED BY <1>1, <1>2, <1>3, <1>4 DEF Init, Types, Statuses, ActiveStatuses

\* A request that ends, or that has only a status event left to write, keeps the
\* types.
LEMMA Ended ==
    ASSUME Types, NEW r \in Requests, req[r].pc \in OnTicket \/ req'[r] = Idle,
           Finish(r) \/ \E from \in Statuses \union {"none"} :
                           \E to \in Statuses \union {"none"} :
                              Tell(r, from, to) /\ (to # from => to \in Statuses),
           ticket' \in [Tickets -> TicketRow], Extended,
           trail' \in [Tickets -> Statuses], job' = job, disk' \subseteq Files, lost' \subseteq Files,
           disturbed' \subseteq Tickets, expired' = expired, excess' \in BOOLEAN
    PROVE  Types'
<1>1. Idle.pc = "idle" /\ Idle.file = None /\ Idle.t = None /\ Idle \in RequestRow
  BY Blanks DEF Idle
<1>2. CASE req' = [req EXCEPT ![r] = Idle]
  BY <1>1, <1>2, Moved DEF OnTicket
<1>3. CASE \E to \in Statuses : /\ req[r].pc \in OnTicket
                                /\ req' = [req EXCEPT ![r] = [Idle EXCEPT !.pc = "telling",
                                                                          !.t = req[r].t, !.to = to]]
  <2>1. PICK to \in Statuses :
            req' = [req EXCEPT ![r] = [Idle EXCEPT !.pc = "telling", !.t = req[r].t, !.to = to]]
    BY <1>3
  <2>2. req[r].t \in Tickets
    BY <1>3 DEF Types, Fits, RequestRow
  <2>. DEFINE row == [Idle EXCEPT !.pc = "telling", !.t = req[r].t, !.to = to]
  <2>3. row \in RequestRow /\ row.pc = "telling" /\ row.t = req[r].t /\ row.to = to /\ row.file = None
    BY <1>1, <2>2 DEF RequestRow, Stages, Idle
  <2>4. req' = [req EXCEPT ![r] = row]
    BY <2>1
  <2>. HIDE DEF row
  <2>5. None \notin Tickets
    BY SupportAssumption DEF SupportAssumption
  <2>. QED BY <2>2, <2>3, <2>4, <2>5, Moved DEF OnTicket
<1>. QED BY <1>1, <1>2, <1>3 DEF Finish, Tell, Types

\* What the types say of one request and its ticket.
LEMMA Request ==
    ASSUME Types, NEW r \in Requests
    PROVE  /\ req[r] \in RequestRow /\ Fits(r)
           /\ req[r].pc \in OnTicket => req[r].t \in Tickets
           /\ None \notin Tickets /\ None \notin Files /\ MaxLog \in Nat \ {0}
           /\ \A t \in Tickets : Len(log[t]) \in 0 .. MaxLog /\ Len(log[t]) \in Len(log[t]) .. MaxLog
BY SupportAssumption DEF SupportAssumption, Types, Fits, RequestRow

\* The files a request may store are files.
LEMMA Storage ==
    ASSUME Types
    PROVE  /\ FreshFiles \subseteq Files \union {None}
           /\ \A f \in FreshFiles : Stored(f) \subseteq Files
           /\ \A f : Unlinked(f) \subseteq Files
BY DEF FreshFiles, Stored, Unlinked, Types

\* The steps of createTicket keep the types.
LEMMA TypesCreate ==
    ASSUME Types, Births, NEW r \in Requests,
           \/ CountActive(r) \/ InsertFirstMessage(r) \/ FailFirstMessage(r)
           \/ \E cid \in ClientIds \union {None}, f \in Files \union {None} : Submit(r, cid, f)
           \/ \E t \in Tickets : InsertTicket(r, t)
    PROVE  Types'
<1>. USE Request, Blanks DEF history, budget
<1>1. CASE CountActive(r)
  <2>. DEFINE row == [Idle EXCEPT !.pc = "counted"]
  <2>1. row \in RequestRow /\ row.pc = "counted" /\ row.t = None /\ row.file = None
    BY DEF RequestRow, Stages, Idle
  <2>2. req' = [req EXCEPT ![r] = row]
    BY <1>1 DEF CountActive, Begin
  <2>. HIDE DEF row
  <2>. QED BY <1>1, <2>1, <2>2, LogStays, Moved DEF CountActive, Types, OnTicket
<1>2. CASE InsertFirstMessage(r)
  <2>1. req[r].t \in Tickets /\ req[r].file \in Files \union {None}
    BY <1>2 DEF InsertFirstMessage, OnTicket, RequestRow
  <2>2. Message(None, req[r].file) \in MessageRow
    BY <2>1 DEF Message, MessageRow
  <2>3. Len(log[req[r].t]) < MaxLog
    BY <1>2 DEF InsertFirstMessage, Births, Untouched
  <2>. QED BY <1>2, <2>1, <2>2, <2>3, Grown, LogStays, Ended DEF InsertFirstMessage, OnTicket, Types
<1>3. CASE FailFirstMessage(r)
  BY <1>3, Storage, LogStays, Ended DEF FailFirstMessage, OnTicket, Types
<1>4. ASSUME NEW cid, NEW f \in Files \union {None}, Submit(r, cid, f) PROVE Types'
  <2>1. CASE Finish(r)
    <3>1. disk' = disk \/ disk' = Stored(f)
      BY <1>4 DEF Submit
    <3>. QED BY <1>4, <2>1, <3>1, Storage, LogStays, Ended DEF Submit, Types, Finish
  <2>2. CASE req' = [req EXCEPT ![r].pc = "uploaded", ![r].file = f] /\ req[r].pc = "counted"
    <3>. DEFINE row == [req[r] EXCEPT !.pc = "uploaded", !.file = f]
    <3>1. row \in RequestRow /\ row.pc = "uploaded" /\ row.t = req[r].t /\ row.file = f
      BY DEF RequestRow, Stages
    <3>2. req' = [req EXCEPT ![r] = row]
      BY <2>2
    <3>3. row.t = None
      BY <2>2, <3>1 DEF Fits, OnTicket
    <3>. HIDE DEF row
    <3>. QED BY <1>4, <3>1, <3>2, <3>3, Storage, LogStays, Moved DEF Submit, Types, OnTicket, WithFile
  <2>. QED BY <1>4, <2>1, <2>2 DEF Submit
<1>5. ASSUME NEW t \in Tickets, InsertTicket(r, t) PROVE Types'
  <2>0. 0 \in 0 .. MaxLog /\ 1 \in 0 .. MaxLog /\ 0 \in 0 .. (MaxLog + 1) /\ "open" \in Statuses
    BY SupportAssumption DEF SupportAssumption, Statuses, ActiveStatuses
  <2>1. [NoTicket EXCEPT !.status = "open", !.preview = 1, !.customer = 1] \in TicketRow
    BY ONLY <2>0 DEF NoTicket, TicketRow
  <2>2. ticket' \in [Tickets -> TicketRow] /\ excess' \in BOOLEAN
    BY <1>5, <2>1 DEF InsertTicket, Types, RequestRow
  <2>3. [req[r] EXCEPT !.pc = "ticketed", !.t = t] \in RequestRow
    BY DEF RequestRow, Stages
  <2>4. \A x \in Requests : [req[x] EXCEPT !.raced = TRUE] \in RequestRow
    BY DEF RequestRow
  <2>5. \A x \in Requests :
            /\ x = r => req'[x] = [req[r] EXCEPT !.pc = "ticketed", !.t = t]
            /\ x # r => req'[x] \in {req[x], [req[x] EXCEPT !.raced = TRUE]}
    BY <1>5 DEF InsertTicket
  <2>6. req' \in [Requests -> RequestRow]
    BY <1>5, <2>3, <2>4 DEF InsertTicket
  <2>7. ASSUME NEW x \in Requests PROVE Fits(x)'
    <3>1. CASE x = r
      BY <1>5, <2>5, <3>1 DEF InsertTicket, RequestRow, Fits, OnTicket, WithFile
    <3>2. CASE x # r /\ req'[x] = req[x]
      BY <1>5, <3>2 DEF InsertTicket, Fits, MessagesOf
    <3>3. CASE x # r /\ req'[x] = [req[x] EXCEPT !.raced = TRUE]
      BY <1>5, <3>3 DEF InsertTicket, Fits, MessagesOf, RequestRow
    <3>. QED BY <2>5, <3>1, <3>2, <3>3
  <2>. QED BY <1>5, <2>2, <2>6, <2>7 DEF InsertTicket, Types
<1>. QED BY <1>1, <1>2, <1>3, <1>4, <1>5

\* The steps of addMessage keep the types.
LEMMA TypesReply ==
    ASSUME Types, NEW r \in Requests,
           \/ InsertReply(r) \/ FailReply(r) \/ ApplyReply(r) \/ WriteEvent(r)
           \/ \E t \in Tickets, by \in Roles, cid \in ClientIds \union {None},
                 f \in Files \union {None} : BeginReply(r, by, t, cid, f)
    PROVE  Types'
<1>. USE Request, Blanks DEF history, budget
<1>1. CASE InsertReply(r)
  <2>1. /\ req[r].t \in Tickets /\ req[r].file \in Files \union {None}
        /\ req[r].cid \in ClientIds \union {None} /\ Len(log[req[r].t]) < MaxLog
    BY <1>1 DEF InsertReply, OnTicket, RequestRow
  <2>2. CASE Finish(r) /\ log' = log
    <3>1. disk' = Unlinked(req[r].file) \/ disk' = disk
      BY <1>1, <2>2 DEF InsertReply
    <3>. QED BY <1>1, <2>2, <3>1, Storage, LogStays, Ended DEF InsertReply, OnTicket, Types
  <2>3. CASE /\ log' = [log EXCEPT ![req[r].t] = Append(@, Message(req[r].cid, req[r].file))]
             /\ req' = [req EXCEPT ![r].pc = "inserted", ![r].at = Len(log[req[r].t]) + 1,
                                   ![r].file = None, ![r].cid = None]
             /\ disk' = disk
    <3>1. Message(req[r].cid, req[r].file) \in MessageRow
      BY <2>1 DEF Message, MessageRow
    <3>2. /\ Extended
          /\ Len(log'[req[r].t]) = Len(log[req[r].t]) + 1
      BY <2>1, <2>3, <3>1, Grown
    <3>. DEFINE row == [req[r] EXCEPT !.pc = "inserted", !.at = Len(log[req[r].t]) + 1,
                                      !.file = None, !.cid = None]
    <3>3. Len(log[req[r].t]) + 1 \in 0 .. MaxLog
      BY <2>1
    <3>4. /\ row \in RequestRow /\ row.pc = "inserted" /\ row.t = req[r].t /\ row.file = None
          /\ row.at = Len(log[req[r].t]) + 1
      BY <3>3 DEF RequestRow, Stages
    <3>5. req' = [req EXCEPT ![r] = row]
      BY <2>3
    <3>. HIDE DEF row
    <3>6. row.at \in 1 .. Len(log'[row.t])
      BY <2>1, <3>2, <3>4
    <3>7. UNCHANGED <<ticket, trail, disk, job, lost, disturbed, expired, excess>>
      BY <1>1, <2>3 DEF InsertReply
    <3>. QED BY <2>1, <3>2, <3>4, <3>5, <3>6, <3>7, LogStays, Moved DEF Types, OnTicket
  <2>. QED BY <1>1, <2>2, <2>3 DEF InsertReply
<1>2. CASE FailReply(r)
  BY <1>2, Storage, LogStays, Ended DEF FailReply, OnTicket, Types
<1>3. CASE ApplyReply(r)
  <2>1. /\ req[r].t \in Tickets /\ req[r].pc = "inserted" /\ req[r].snap.status \in Statuses \union {"none"}
    BY <1>3 DEF ApplyReply, OnTicket, RequestRow, TicketRow
  <2>2. ticket' \in [Tickets -> TicketRow]
    BY <1>3, <2>1, Rows DEF ApplyReply, Types
  <2>3. disturbed' \subseteq Tickets
    BY <1>3, <2>1 DEF ApplyReply, Overlap, Types
  <2>4. excess' \in BOOLEAN
    BY <1>3 DEF ApplyReply, Reactivates, Types
  <2>. DEFINE next == NextStatus(req[r].by, req[r].snap)
  <2>5. Tell(r, req[r].snap.status, next) /\ UNCHANGED <<log, trail, disk, job, expired, lost>>
    BY <1>3 DEF ApplyReply
  <2>6. next \in Statuses \union {"none"} /\ (next # req[r].snap.status => next \in Statuses)
    BY <2>1, Rows
  <2>. HIDE DEF next
  <2>. QED BY <2>1, <2>2, <2>3, <2>4, <2>5, <2>6, LogStays, Ended DEF OnTicket, Types
<1>4. CASE WriteEvent(r)
  <2>1. req[r].to \in Statuses /\ req[r].t \in Tickets
    BY <1>4 DEF WriteEvent, Fits, OnTicket
  <2>. QED BY <1>4, <2>1, LogStays, Ended DEF WriteEvent, OnTicket, Types
<1>5. ASSUME NEW t \in Tickets, NEW by \in Roles, NEW cid \in ClientIds \union {None},
             NEW f \in Files \union {None}, BeginReply(r, by, t, cid, f)
      PROVE  Types'
  <2>. DEFINE row == [Idle EXCEPT !.pc = "loaded", !.by = by, !.t = t, !.snap = ticket[t],
                                  !.cid = cid, !.file = f]
  <2>1. row \in RequestRow /\ row.pc = "loaded" /\ row.t = t /\ row.file = f
    BY DEF RequestRow, Stages, Idle, Types
  <2>2. req' = [req EXCEPT ![r] = row]
    BY <1>5 DEF BeginReply, Begin
  <2>. HIDE DEF row
  <2>. QED BY <1>5, <2>1, <2>2, Storage, LogStays, Moved DEF BeginReply, Types, OnTicket, WithFile
<1>. QED BY <1>1, <1>2, <1>3, <1>4, <1>5

\* A tombstone changes one field of one message.
LEMMA TombstoneLog ==
    ASSUME Types, NEW r \in Requests, Tombstone(r)
    PROVE  /\ Extended
           /\ \A t \in Tickets : Len(log'[t]) = Len(log[t])
           /\ \A t \in Tickets : \A i \in MessagesOf(t) :
                 /\ t # req[r].t \/ i # req[r].at => log'[t][i] = log[t][i]
                 /\ t = req[r].t /\ i = req[r].at => log'[t][i] = [log[t][i] EXCEPT !.gone = TRUE]
<1>. DEFINE u == req[r].t
            k == req[r].at
<1>1. u \in Tickets /\ k \in 1..Len(log[u]) /\ log[u] \in Seq(MessageRow)
  BY Request DEF Tombstone, OnTicket, Fits, MessagesOf, Types
<1>2. log[u][k] \in MessageRow
  BY <1>1
<1>. DEFINE m == [log[u][k] EXCEPT !.gone = TRUE]
<1>3. m \in MessageRow
  BY <1>2 DEF MessageRow
<1>4. log' = [log EXCEPT ![u] = [log[u] EXCEPT ![k] = m]]
  BY DEF Tombstone
<1>. HIDE DEF m
<1>5. /\ [log[u] EXCEPT ![k] = m] \in Seq(MessageRow)
      /\ Len([log[u] EXCEPT ![k] = m]) = Len(log[u])
  BY <1>1, <1>3
<1>6. log' \in [Tickets -> Seq(MessageRow)] /\ \A t \in Tickets : Len(log'[t]) = Len(log[t])
  BY <1>1, <1>4, <1>5 DEF Types
<1>7. log'[u] = [log[u] EXCEPT ![k] = m] /\ \A t \in Tickets : t # u => log'[t] = log[t]
  BY <1>1, <1>4 DEF Types
<1>8. \A t \in Tickets : \A i \in MessagesOf(t) : t # u \/ i # k => log'[t][i] = log[t][i]
  BY <1>1, <1>7 DEF MessagesOf
<1>9. log'[u][k] = m
  BY <1>1, <1>7
<1>10. \A t \in Tickets : \A i \in MessagesOf(t) :
            t = u /\ i = k => log'[t][i] = [log[t][i] EXCEPT !.gone = TRUE]
  BY <1>9 DEF m
<1>11. \A t \in Tickets : \A i \in MessagesOf(t) : log'[t][i].file = log[t][i].file
  <2>. SUFFICES ASSUME NEW t \in Tickets, NEW i \in MessagesOf(t) PROVE log'[t][i].file = log[t][i].file
    OBVIOUS
  <2>1. CASE t = u /\ i = k
    BY <1>2, <1>9, <2>1 DEF m, MessageRow
  <2>. QED BY <1>8, <2>1
<1>12. Extended
  BY <1>6, <1>11, Request DEF Extended
<1>. QED BY <1>6, <1>8, <1>10, <1>12

\* The file of a message that is being removed is one.
LEMMA LostFiles ==
    ASSUME Types, NEW r \in Requests
    PROVE  /\ req[r].file \in Files \union {None}
           /\ req[r].pc = "removing" => log[req[r].t][req[r].at].file \in Files
<1>1. CASE req[r].pc = "removing"
  <2>1. req[r].t \in Tickets /\ req[r].at \in 1..Len(log[req[r].t])
    BY <1>1, Request DEF OnTicket, Fits, MessagesOf
  <2>2. log[req[r].t][req[r].at] \in MessageRow
    BY <2>1 DEF Types
  <2>. QED BY <1>1, <2>2, Request DEF MessageRow, RequestRow, Fits
<1>. QED BY <1>1, Request DEF RequestRow

\* The steps of the other requests keep the types.
LEMMA TypesOther ==
    ASSUME Types, NEW r \in Requests,
           \/ WriteClose(r) \/ WriteUpdate(r) \/ Tombstone(r) \/ Die(r)
           \/ \E t \in Tickets :
                 \/ BeginClose(r, t)
                 \/ \E to \in Statuses, flip \in BOOLEAN : BeginUpdate(r, t, to, flip)
                 \/ \E i \in MessagesOf(t) : RemoveFile(r, t, i)
    PROVE  Types'
<1>. USE Request, Blanks DEF history, budget
<1>1. CASE WriteClose(r)
  <2>1. req[r].t \in Tickets /\ req[r].pc = "closing" /\ req[r].snap.status \in Statuses \union {"none"}
    BY <1>1 DEF WriteClose, OnTicket, RequestRow, TicketRow
  <2>2. ticket' \in [Tickets -> TicketRow]
    BY <1>1, <2>1, Rows DEF WriteClose, Types
  <2>3. disturbed' \subseteq Tickets
    BY <1>1, <2>1 DEF WriteClose, Overlap, Types
  <2>. QED BY <1>1, <2>1, <2>2, <2>3, LogStays, Ended DEF WriteClose, OnTicket, Types, Statuses
<1>2. CASE WriteUpdate(r)
  <2>1. /\ req[r].t \in Tickets /\ req[r].pc = "updating" /\ req[r].to \in Statuses
        /\ req[r].snap.status \in Statuses \union {"none"}
    BY <1>2 DEF WriteUpdate, OnTicket, RequestRow, TicketRow, Fits
  <2>2. ticket' \in [Tickets -> TicketRow]
    BY <1>2, <2>1, Rows DEF WriteUpdate, Types
  <2>3. disturbed' \subseteq Tickets
    BY <1>2, <2>1 DEF WriteUpdate, Overlap, Types
  <2>4. excess' \in BOOLEAN
    BY <1>2 DEF WriteUpdate, Reactivates, Types
  <2>. QED BY <1>2, <2>1, <2>2, <2>3, <2>4, LogStays, Ended DEF WriteUpdate, OnTicket, Types
<1>3. CASE Tombstone(r)
  <2>. QED BY <1>3, TombstoneLog, LogStays, Ended DEF Tombstone, OnTicket, Types
<1>4. CASE Die(r)
  <2>1. disturbed' \subseteq Tickets
    BY <1>4 DEF Die, HalfDone, OnTicket, Types
  <2>2. lost' \subseteq Files
    <3>1. CASE req[r].pc = "removing"
      BY <1>4, <3>1, LostFiles DEF Die, Types
    <3>2. CASE req[r].pc # "removing"
      BY <1>4, <3>2, LostFiles DEF Die, Types
    <3>. QED BY <3>1, <3>2
  <2>3. req' = [req EXCEPT ![r] = Idle]
    BY <1>4 DEF Die, Finish
  <2>. QED BY <1>4, <2>1, <2>2, <2>3, LogStays, Ended DEF Die, Finish, Types
<1>5. ASSUME NEW t \in Tickets, NEW pc \in {"closing", "updating"}, NEW to \in Statuses,
             NEW flip \in BOOLEAN, Load(r, t, pc, to, flip),
             UNCHANGED <<ticket, log, trail, disk, job, history>>
      PROVE  Types'
  <2>. DEFINE row == [Idle EXCEPT !.pc = pc, !.t = t, !.snap = ticket[t], !.to = to, !.flip = flip]
  <2>1. row \in RequestRow /\ row.pc = pc /\ row.t = t /\ row.file = None /\ row.to = to
    BY DEF RequestRow, Stages, Idle, Types
  <2>2. req' = [req EXCEPT ![r] = row]
    BY <1>5 DEF Load, Begin
  <2>. HIDE DEF row
  <2>. QED BY <1>5, <2>1, <2>2, LogStays, Moved DEF Types, OnTicket
<1>6. ASSUME NEW t \in Tickets, BeginClose(r, t) PROVE Types'
  BY <1>5, <1>6 DEF BeginClose, Statuses
<1>7. ASSUME NEW t \in Tickets, NEW to \in Statuses, NEW flip \in BOOLEAN, BeginUpdate(r, t, to, flip)
      PROVE  Types'
  BY <1>5, <1>7 DEF BeginUpdate
<1>8. ASSUME NEW t \in Tickets, NEW i \in MessagesOf(t), RemoveFile(r, t, i) PROVE Types'
  <2>. DEFINE row == [Idle EXCEPT !.pc = "removing", !.t = t, !.at = i]
  <2>1. row \in RequestRow /\ row.pc = "removing" /\ row.t = t /\ row.file = None /\ row.at = i
    <3>1. i \in 0 .. MaxLog
      BY DEF MessagesOf
    <3>. QED BY <3>1 DEF RequestRow, Stages, Idle
  <2>2. req' = [req EXCEPT ![r] = row]
    BY <1>8 DEF RemoveFile, Begin
  <2>. HIDE DEF row
  <2>3. log' = log /\ log[t][i].file # None
    BY <1>8 DEF RemoveFile, CarriedBy
  <2>4. i \in 1 .. Len(log'[t])
    BY <2>3 DEF MessagesOf
  <2>. QED BY <1>8, <2>1, <2>2, <2>3, <2>4, LogStays, Storage, Moved DEF RemoveFile, Types, OnTicket
<1>. QED BY <1>1, <1>2, <1>3, <1>4, <1>6, <1>7, <1>8

\* Notes, the passing of time and the job keep the types.
LEMMA TypesJob ==
    ASSUME Types,
           \/ \E t \in Tickets : AddNote(t) \/ Age(t) \/ CloseStale(t)
           \/ FindStale \/ TellStale \/ WorkerDies
    PROVE  Types'
<1>. USE DEF history, budget
<1>0. ASSUME req' = req, ticket' \in [Tickets -> TicketRow], Extended, trail' \in [Tickets -> Statuses],
             job' \in JobRow, job'.pc = "telling" <=> job'.t # None, disk' = disk, lost' = lost,
             disturbed' \subseteq Tickets, expired' \subseteq Tickets, excess' = excess
      PROVE  Types'
  <2>1. ASSUME NEW x \in Requests PROVE Fits(x)'
    <3>1. Fits(x) /\ (req[x].pc \in OnTicket => req[x].t \in Tickets)
      BY Request
    <3>2. ASSUME req[x].pc \in {"inserted", "removing"} PROVE MessagesOf(req[x].t) \subseteq MessagesOf(req[x].t)'
      BY <1>0, <3>1, <3>2, Request DEF Extended, MessagesOf, OnTicket
    <3>3. ASSUME req[x].pc = "removing"
          PROVE  log'[req[x].t][req[x].at].file = log[req[x].t][req[x].at].file
      BY <1>0, <3>1, <3>3 DEF Extended, Fits, OnTicket
    <3>. QED BY <1>0, <3>1, <3>2, <3>3 DEF Fits
  <2>2. \A t \in Tickets : Len(log'[t]) <= MaxLog
    BY <1>0, Request, SupportAssumption DEF SupportAssumption, Extended, Types
  <2>. QED BY <1>0, <2>1, <2>2 DEF Types, Extended
<1>1. ASSUME NEW t \in Tickets, AddNote(t) PROVE Types'
  <2>1. [Message(None, None) EXCEPT !.note = TRUE] \in MessageRow
    BY DEF Message, MessageRow
  <2>. QED BY <1>0, <1>1, <2>1, Grown DEF AddNote, Types
<1>2. ASSUME NEW t \in Tickets, Age(t) PROVE Types'
  <2>1. ticket' \in [Tickets -> TicketRow]
    BY <1>2 DEF Age, Types, TicketRow
  <2>. QED BY <1>0, <1>2, <2>1, LogStays DEF Age, Types
<1>3. ASSUME NEW t \in Tickets, CloseStale(t) PROVE Types'
  <2>1. ticket' \in [Tickets -> TicketRow]
    BY <1>3 DEF CloseStale, Types, Closed, TicketRow, Statuses
  <2>2. job' \in JobRow /\ job'.pc = "telling" /\ job'.t = t /\ t # None
    BY <1>3, SupportAssumption DEF SupportAssumption, CloseStale, Types, JobRow
  <2>. QED BY <1>0, <1>3, <2>1, <2>2, LogStays DEF CloseStale, Types
<1>4. CASE FindStale
  <2>1. job' \in JobRow /\ job'.pc = "closing" /\ job'.t = None
    BY <1>4 DEF FindStale, JobRow
  <2>. QED BY <1>0, <1>4, <2>1, LogStays DEF FindStale, Types
<1>5. CASE TellStale
  <2>1. job' \in JobRow /\ job'.pc # "telling" /\ job'.t = None
    BY <1>5 DEF TellStale, Types, JobRow
  <2>2. job.t \in Tickets
    BY <1>5 DEF TellStale, Types, JobRow
  <2>. QED BY <1>0, <1>5, <2>1, <2>2, LogStays DEF TellStale, Types, Statuses
<1>6. CASE WorkerDies
  <2>1. job' \in JobRow /\ job'.pc = "idle" /\ job'.t = None
    BY <1>6 DEF WorkerDies, JobRow
  <2>2. disturbed' \subseteq Tickets
    BY <1>6 DEF WorkerDies, Types, JobRow
  <2>. QED BY <1>0, <1>6, <2>1, <2>2, LogStays DEF WorkerDies, Types
<1>. QED BY <1>1, <1>2, <1>3, <1>4, <1>5, <1>6

\* Every step keeps the types, as long as a ticket being born is in nobody
\* else's hands.
LEMMA TypesNext == Types /\ Births /\ [Next]_vars => Types'
<1>. SUFFICES ASSUME Types, Births, [Next]_vars PROVE Types'
  OBVIOUS
<1>1. CASE UNCHANGED vars
  BY <1>1 DEF vars, history, Types, Fits, MessagesOf
<1>2. CASE Next
  BY <1>2, TypesCreate, TypesReply, TypesOther, TypesJob DEF Next
<1>. QED BY <1>1, <1>2

-----------------------------------------------------------------------------
(* Tickets that are being created.                                         *)

\* The row InsertTicket writes.
NewTicket == [NoTicket EXCEPT !.status = "open", !.preview = 1, !.customer = 1]

\* Has no row, or its creator is not done with it.
Fresh(t) == ticket[t].status = "none" \/ BeingBorn(t)

\* A fresh ticket is in the hands of its creator only.
LEMMA FreshTicket ==
    ASSUME Types, Births, NEW t \in Tickets, Fresh(t)
    PROVE  /\ Untouched(t)
           /\ \A x \in Requests : req[x].t = t => req[x].pc = "ticketed"
           /\ \A x, y \in Requests : req[x].t = t /\ req[y].t = t => x = y
           /\ ticket[t].status = "none" \/ ticket[t] = NewTicket
           /\ ~Addressable(t)
<1>1. CASE ticket[t].status = "none"
  BY <1>1 DEF Births, Addressable
<1>2. CASE BeingBorn(t)
  <2>1. PICK r \in Requests : req[r].pc = "ticketed" /\ req[r].t = t
    BY <1>2 DEF BeingBorn
  <2>2. Untouched(t) /\ ticket[t] = NewTicket /\ \A x \in Requests \ {r} : req[x].t # t
    BY <2>1 DEF Births, NewTicket
  <2>. QED BY <1>2, <2>1, <2>2 DEF Addressable
<1>. QED BY <1>1, <1>2 DEF Fresh

\* A request on a ticket that it did not create keeps the ticket from being fresh.
LEMMA NotFresh ==
    ASSUME Types, Births, NEW r \in Requests, req[r].pc \in OnTicket \ {"ticketed"}
    PROVE  req[r].t \in Tickets /\ ~Fresh(req[r].t)
BY Request, FreshTicket

\* A step of one request on tickets that are not fresh, or on the one it created.
LEMMA BirthMoved ==
    ASSUME Types, Births, NEW r \in Requests, \A x \in Requests : x # r => req'[x] = req[x],
           req'[r].pc # "ticketed",
           req'[r].t # None => ~Fresh(req'[r].t),
           \A t \in Tickets :
              /\ ~Fresh(t) \/ t = req[r].t => ticket'[t].status # "none"
              /\ Fresh(t) /\ t # req[r].t =>
                    ticket'[t] = ticket[t] /\ log'[t] = log[t] /\ trail'[t] = trail[t],
           job' = job
    PROVE  Births'
<1>1. ASSUME NEW t \in Tickets, ticket'[t].status = "none"
      PROVE  Untouched(t)' /\ \A x \in Requests : req'[x].t # t
  <2>1. /\ Fresh(t) /\ t # req[r].t /\ ticket'[t] = ticket[t] /\ log'[t] = log[t] /\ trail'[t] = trail[t]
    BY <1>1
  <2>2. Untouched(t)' /\ ticket[t].status = "none"
    BY <1>1, <2>1, FreshTicket DEF Untouched
  <2>3. \A x \in Requests : req[x].t # t
    BY <2>2 DEF Births
  <2>4. req'[r].t # t
    BY <2>1, SupportAssumption DEF SupportAssumption
  <2>. QED BY <2>2, <2>3, <2>4
<1>2. ASSUME NEW x \in Requests, req'[x].pc = "ticketed"
      PROVE  /\ Untouched(req[x].t)' /\ req'[x] = req[x]
             /\ ticket'[req[x].t] = NewTicket
             /\ \A y \in Requests \ {x} : req'[y].t # req[x].t
  <2>1. x # r /\ req'[x] = req[x] /\ req[x].pc = "ticketed"
    BY <1>2
  <2>2. req[x].t \in Tickets /\ Fresh(req[x].t) /\ req[x].t # req[r].t
    BY <2>1, Request DEF OnTicket, Births, Fresh, BeingBorn
  <2>3. /\ Untouched(req[x].t) /\ ticket[req[x].t] = NewTicket
        /\ \A y \in Requests \ {x} : req[y].t # req[x].t
    BY <2>1 DEF Births, NewTicket
  <2>4. Untouched(req[x].t)'
    BY <2>2, <2>3, <2>1 DEF Untouched
  <2>5. req'[r].t # req[x].t
    BY <2>2, SupportAssumption DEF SupportAssumption
  <2>. QED BY <2>1, <2>2, <2>3, <2>4, <2>5
<1>3. \A x \in Requests : req'[x].pc = "ticketed" => Untouched(req[x].t)' /\ req'[x] = req[x]
  BY <1>2
<1>. QED BY <1>1, <1>2, <1>3 DEF Births, NewTicket, Untouched

\* A step of a request that writes only on its own ticket or none keeps Births.
LEMMA BirthWrites ==
    ASSUME Types, Births, NEW r \in Requests,
           \/ CountActive(r) \/ InsertFirstMessage(r)
           \/ InsertReply(r) \/ FailReply(r) \/ ApplyReply(r) \/ WriteEvent(r)
           \/ WriteClose(r) \/ WriteUpdate(r) \/ Tombstone(r) \/ Die(r)
           \/ \E cid \in ClientIds \union {None}, f \in Files \union {None} : Submit(r, cid, f)
    PROVE  Births'
<1>. USE Request, Blanks DEF history, budget
<1>1. /\ req \in [Requests -> RequestRow] /\ ticket \in [Tickets -> TicketRow]
      /\ DOMAIN log = Tickets /\ DOMAIN trail = Tickets
  BY DEF Types
<1>2. \A x \in Requests : x # r => req'[x] = req[x]
  BY <1>1 DEF CountActive, Begin, InsertFirstMessage, Finish, InsertReply, FailReply, ApplyReply, Tell,
     WriteEvent, WriteClose, WriteUpdate, Tombstone, Die, Submit
<1>3. job' = job
  BY DEF CountActive, Begin, InsertFirstMessage, InsertReply, FailReply, ApplyReply,
     WriteEvent, WriteClose, WriteUpdate, Tombstone, Die, Submit
<1>4. Idle.pc = "idle"
  BY DEF Idle
<1>5. CASE CountActive(r)
  <2>1. req'[r].pc = "counted" /\ req'[r].t = None /\ req[r].t = None /\ None \notin Tickets
    BY <1>1, <1>5, SupportAssumption DEF SupportAssumption, CountActive, Begin, Idle, Fits, OnTicket
  <2>. QED BY <1>2, <1>3, <1>5, <2>1, BirthMoved DEF CountActive, Fresh, BeingBorn
<1>6. CASE InsertFirstMessage(r)
  <2>1. req'[r] = Idle /\ ticket' = ticket /\ trail' = trail /\ req[r].t \in Tickets
        /\ \A t \in Tickets : t # req[r].t => log'[t] = log[t]
    BY <1>1, <1>6 DEF InsertFirstMessage, Finish, OnTicket
  <2>2. ticket[req[r].t].status # "none"
    BY <1>6 DEF InsertFirstMessage, Births, OnTicket
  <2>. QED BY <1>2, <1>3, <1>4, <2>1, <2>2, BirthMoved DEF Fresh
<1>7. ASSUME NEW cid, NEW f, Submit(r, cid, f) PROVE Births'
  <2>0. UNCHANGED <<ticket, log, trail>> /\ req[r].t = None /\ req[r].pc = "counted"
    BY <1>7 DEF Submit, Fits, OnTicket
  <2>1. req'[r].t = None /\ req'[r].pc # "ticketed"
    <3>1. CASE req' = [req EXCEPT ![r] = Idle]
      BY <1>1, <1>4, <3>1
    <3>2. CASE req' = [req EXCEPT ![r].pc = "uploaded", ![r].file = f]
      BY <1>1, <2>0, <3>2 DEF RequestRow
    <3>. QED BY <1>7, <3>1, <3>2 DEF Submit, Finish
  <2>2. None \notin Tickets
    BY SupportAssumption DEF SupportAssumption
  <2>. QED BY <1>2, <1>3, <2>0, <2>1, <2>2, BirthMoved DEF Fresh
<1>8. CASE Die(r)
  <2>1. req'[r] = Idle /\ UNCHANGED <<ticket, log, trail>>
    BY <1>1, <1>8 DEF Die, Finish
  <2>2. req[r].t \in Tickets => ticket[req[r].t].status # "none"
    BY <1>8 DEF Births
  <2>. QED BY <1>2, <1>3, <1>4, <2>1, <2>2, BirthMoved DEF Fresh
<1>9. CASE \/ InsertReply(r) \/ FailReply(r) \/ ApplyReply(r) \/ WriteEvent(r)
           \/ WriteClose(r) \/ WriteUpdate(r) \/ Tombstone(r)
  <2>1. req[r].pc \in OnTicket \ {"ticketed"}
    BY <1>9 DEF OnTicket, InsertReply, FailReply, ApplyReply, WriteEvent, WriteClose, WriteUpdate, Tombstone
  <2>2. req[r].t \in Tickets /\ ~Fresh(req[r].t)
    BY <2>1, NotFresh
  <2>3. req'[r].t \in {req[r].t, None} /\ req'[r].pc # "ticketed"
    <3>1. CASE req' = [req EXCEPT ![r] = Idle]
      BY <1>1, <1>4, <3>1
    <3>2. CASE \E to : req' = [req EXCEPT ![r] = [Idle EXCEPT !.pc = "telling", !.t = req[r].t, !.to = to]]
      BY <1>1, <3>2 DEF Idle
    <3>3. CASE req' = [req EXCEPT ![r].pc = "inserted", ![r].at = Len(log[req[r].t]) + 1, ![r].file = None,
                                  ![r].cid = None]
      BY <1>1, <3>3 DEF RequestRow
    <3>. QED BY <1>9, <3>1, <3>2, <3>3 DEF InsertReply, FailReply, ApplyReply, WriteEvent, WriteClose,
         WriteUpdate, Tombstone, Finish, Tell
  <2>4. \A t \in Tickets : t # req[r].t =>
            ticket'[t] = ticket[t] /\ log'[t] = log[t] /\ trail'[t] = trail[t]
    BY <1>1, <1>9, <2>2 DEF InsertReply, FailReply, ApplyReply, WriteEvent, WriteClose, WriteUpdate, Tombstone
  <2>5. ticket'[req[r].t].status # "none"
    <3>1. CASE InsertReply(r) \/ FailReply(r) \/ WriteEvent(r) \/ Tombstone(r)
      BY <2>2, <3>1 DEF InsertReply, FailReply, WriteEvent, Tombstone, Fresh
    <3>2. CASE ApplyReply(r)
      <4>1. /\ ticket[req[r].t].status # "none" /\ ticket[req[r].t] \in TicketRow
            /\ NextStatus(req[r].by, req[r].snap) # req[r].snap.status =>
                  NextStatus(req[r].by, req[r].snap) # "none"
        BY <1>1, <2>2, Rows DEF Fresh, Statuses, ActiveStatuses
      <4>2. Answered(ticket[req[r].t], r).status # "none"
        BY <4>1 DEF Answered, TicketRow
      <4>. QED BY <1>1, <2>2, <3>2, <4>1, <4>2 DEF ApplyReply
    <3>3. CASE WriteClose(r)
      BY <1>1, <2>2, <3>3 DEF WriteClose, Closed, TicketRow
    <3>4. CASE WriteUpdate(r)
      <4>1. ticket[req[r].t].status # "none" /\ ticket[req[r].t] \in TicketRow /\ req[r].to \in Statuses
        BY <1>1, <2>2, <3>4 DEF Fresh, WriteUpdate, Fits
      <4>2. Updated(ticket[req[r].t], r).status # "none"
        BY <4>1 DEF Updated, TicketRow, Statuses, ActiveStatuses
      <4>. QED BY <1>1, <2>2, <3>4, <4>2 DEF WriteUpdate
    <3>. QED BY <1>9, <3>1, <3>2, <3>3, <3>4
  <2>. QED BY <1>2, <1>3, <2>2, <2>3, <2>4, <2>5, BirthMoved DEF Fresh
<1>. QED BY <1>5, <1>6, <1>7, <1>8, <1>9

\* A request that takes a ticket up takes none that is fresh.
LEMMA BirthLoads ==
    ASSUME Types, Births, NEW r \in Requests, NEW t \in Tickets,
           \/ BeginClose(r, t)
           \/ \E by \in Roles, cid \in ClientIds \union {None},
                 f \in Files \union {None} : BeginReply(r, by, t, cid, f)
           \/ \E to \in Statuses, flip \in BOOLEAN : BeginUpdate(r, t, to, flip)
           \/ \E i \in MessagesOf(t) : RemoveFile(r, t, i)
    PROVE  Births'
<1>1. req \in [Requests -> RequestRow] /\ None \notin Tickets
  BY SupportAssumption DEF SupportAssumption, Types
<1>2. ~Fresh(t)
  <2>1. Addressable(t) => ~Fresh(t)
    BY DEF Addressable, Fresh
  <2>2. MessagesOf(t) # {} => ~Fresh(t)
    <3>1. log[t] = <<>> => MessagesOf(t) = {}
      BY DEF MessagesOf
    <3>. QED BY <3>1, FreshTicket DEF Untouched
  <2>. QED BY <2>1, <2>2 DEF BeginClose, BeginReply, BeginUpdate
<1>3. /\ req[r].pc = "idle" /\ UNCHANGED <<ticket, log, trail, job>>
      /\ \E row : req' = [req EXCEPT ![r] = row] /\ row.t = t /\ row.pc # "ticketed"
  <2>1. Idle.t = None /\ Idle.pc = "idle" /\ Idle \in RequestRow
    BY Blanks DEF Idle
  <2>2. ASSUME NEW pc \in {"closing", "updating"}, NEW to, NEW flip, Load(r, t, pc, to, flip)
        PROVE  /\ req[r].pc = "idle"
               /\ \E row : req' = [req EXCEPT ![r] = row] /\ row.t = t /\ row.pc # "ticketed"
    <3>. DEFINE row == [Idle EXCEPT !.pc = pc, !.t = t, !.snap = ticket[t], !.to = to, !.flip = flip]
    <3>1. row.t = t /\ row.pc # "ticketed"
      BY <2>1 DEF RequestRow
    <3>2. req[r].pc = "idle" /\ req' = [req EXCEPT ![r] = row]
      BY <2>2 DEF Load, Begin
    <3>. HIDE DEF row
    <3>. QED BY <3>1, <3>2
  <2>3. CASE BeginClose(r, t)
    BY <2>2, <2>3 DEF BeginClose, history
  <2>4. CASE \E to \in Statuses, flip \in BOOLEAN : BeginUpdate(r, t, to, flip)
    BY <2>2, <2>4 DEF BeginUpdate, history
  <2>5. ASSUME NEW by, NEW cid, NEW f, BeginReply(r, by, t, cid, f)
        PROVE  /\ req[r].pc = "idle" /\ UNCHANGED <<ticket, log, trail, job>>
               /\ \E row : req' = [req EXCEPT ![r] = row] /\ row.t = t /\ row.pc # "ticketed"
    <3>. DEFINE row == [Idle EXCEPT !.pc = "loaded", !.by = by, !.t = t, !.snap = ticket[t],
                                    !.cid = cid, !.file = f]
    <3>1. row.t = t /\ row.pc # "ticketed"
      BY <2>1 DEF RequestRow
    <3>2. req[r].pc = "idle" /\ req' = [req EXCEPT ![r] = row] /\ UNCHANGED <<ticket, log, trail, job>>
      BY <2>5 DEF BeginReply, Begin
    <3>. HIDE DEF row
    <3>. QED BY <3>1, <3>2
  <2>6. ASSUME NEW i, RemoveFile(r, t, i)
        PROVE  /\ req[r].pc = "idle" /\ UNCHANGED <<ticket, log, trail, job>>
               /\ \E row : req' = [req EXCEPT ![r] = row] /\ row.t = t /\ row.pc # "ticketed"
    <3>. DEFINE row == [Idle EXCEPT !.pc = "removing", !.t = t, !.at = i]
    <3>1. row.t = t /\ row.pc # "ticketed"
      BY <2>1 DEF RequestRow
    <3>2. req[r].pc = "idle" /\ req' = [req EXCEPT ![r] = row] /\ UNCHANGED <<ticket, log, trail, job>>
      BY <2>6 DEF RemoveFile, Begin
    <3>. HIDE DEF row
    <3>. QED BY <3>1, <3>2
  <2>. QED BY <2>3, <2>4, <2>5, <2>6
<1>4. req'[r].t = t /\ req'[r].pc # "ticketed" /\ \A x \in Requests : x # r => req'[x] = req[x]
  BY <1>1, <1>3
<1>5. req[r].t = None
  BY <1>3, Request DEF Fits, OnTicket
<1>. QED BY <1>1, <1>2, <1>3, <1>4, <1>5, BirthMoved DEF Fresh

\* A ticket's row is inserted by one request, and removed by it if the first
\* message fails.
LEMMA BirthAndDeath ==
    ASSUME Types, Births, NEW r \in Requests,
           FailFirstMessage(r) \/ \E t \in Tickets : InsertTicket(r, t)
    PROVE  Births'
<1>. USE DEF history, budget
<1>1. /\ req \in [Requests -> RequestRow] /\ ticket \in [Tickets -> TicketRow]
      /\ None \notin Tickets /\ Idle.pc = "idle" /\ Idle.t = None
  BY SupportAssumption, Blanks DEF SupportAssumption, Types, Idle
<1>2. ASSUME NEW t \in Tickets, InsertTicket(r, t) PROVE Births'
  <2>1. /\ ticket'[t] = NewTicket /\ \A u \in Tickets : u # t => ticket'[u] = ticket[u]
        /\ UNCHANGED <<log, trail, job>>
        /\ ticket[t].status = "none" /\ req[r].pc = "uploaded"
    BY <1>1, <1>2 DEF InsertTicket, NewTicket
  <2>2. NewTicket.status = "open"
    BY DEF NewTicket, NoTicket
  <2>3. /\ req'[r].pc = "ticketed" /\ req'[r].t = t
        /\ \A x \in Requests : x # r => req'[x].pc = req[x].pc /\ req'[x].t = req[x].t
    <3>1. req'[r] = [req[r] EXCEPT !.pc = "ticketed", !.t = t]
      BY <1>2 DEF InsertTicket
    <3>2. \A x \in Requests : x # r => req'[x] \in {req[x], [req[x] EXCEPT !.raced = TRUE]}
      BY <1>2 DEF InsertTicket
    <3>. QED BY <1>1, <3>1, <3>2 DEF RequestRow
  <2>4. Untouched(t) /\ \A x \in Requests : req[x].t # t
    BY <2>1 DEF Births
  <2>5. ASSUME NEW u \in Tickets, ticket'[u].status = "none"
        PROVE  Untouched(u)' /\ \A x \in Requests : req'[x].t # u
    <3>1. u # t /\ ticket[u].status = "none"
      BY <2>1, <2>2, <2>5
    <3>2. Untouched(u) /\ \A x \in Requests : req[x].t # u
      BY <3>1 DEF Births
    <3>. QED BY <2>1, <2>3, <3>1, <3>2 DEF Untouched
  <2>6. ASSUME NEW x \in Requests, req'[x].pc = "ticketed"
        PROVE  /\ Untouched(req[x].t)' \/ x = r
               /\ ticket'[req'[x].t] = NewTicket
               /\ \A y \in Requests \ {x} : req'[y].t # req'[x].t
    <3>1. CASE x = r
      BY <2>1, <2>3, <2>4, <3>1
    <3>2. CASE x # r
      <4>1. /\ req[x].pc = "ticketed" /\ req[x].t \in Tickets /\ req'[x].t = req[x].t /\ req[x].t # t
        BY <2>3, <2>4, <2>6, <3>2, Request DEF OnTicket
      <4>2. /\ Untouched(req[x].t) /\ ticket[req[x].t] = NewTicket
            /\ \A y \in Requests \ {x} : req[y].t # req[x].t
        BY <4>1 DEF Births, NewTicket
      <4>. QED BY <2>1, <2>3, <3>2, <4>1, <4>2 DEF Untouched
    <3>. QED BY <3>1, <3>2
  <2>7. \A x \in Requests : req'[x].pc = "ticketed" =>
            log'[req'[x].t] = <<>> /\ trail'[req'[x].t] = "open" /\ req'[x].t \notin job'.stale
            /\ job'.t # req'[x].t
    <3>1. \A x \in Requests : req'[x].pc = "ticketed" /\ x # r =>
              req[x].pc = "ticketed" /\ req'[x].t = req[x].t
      BY <2>3
    <3>2. \A x \in Requests : req[x].pc = "ticketed" => Untouched(req[x].t)
      BY DEF Births
    <3>. QED BY <2>1, <2>3, <2>4, <3>1, <3>2 DEF Untouched
  <2>. QED BY <2>5, <2>6, <2>7 DEF Births, NewTicket, Untouched
<1>3. CASE FailFirstMessage(r)
  <2>a. PICK u \in Tickets : u = req[r].t
    BY <1>3, Request DEF FailFirstMessage, OnTicket
  <2>1. u = req[r].t /\ Fresh(u) /\ req[r].pc = "ticketed"
    BY <1>3, <2>a DEF FailFirstMessage, Fresh, BeingBorn
  <2>2. /\ ticket' = [ticket EXCEPT ![u] = NoTicket] /\ UNCHANGED <<log, trail, job>>
        /\ req' = [req EXCEPT ![r] = Idle]
    BY <1>3, <2>a DEF FailFirstMessage, Finish
  <2>3. /\ Untouched(u)' /\ \A x \in Requests : req'[x].t # u
    <3>1. Untouched(u) /\ \A x \in Requests : req[x].t = u => x = r
      BY <2>1, FreshTicket
    <3>2. req'[r] = Idle /\ \A x \in Requests : x # r => req'[x] = req[x]
      BY <1>1, <2>2
    <3>3. \A x \in Requests : req'[x].t # u
      BY <1>1, <2>1, <3>1, <3>2
    <3>. QED BY <2>2, <3>1, <3>3 DEF Untouched
  <2>4. \A t \in Tickets : t # u => ticket'[t] = ticket[t]
    BY <1>1, <2>2
  <2>5. req'[r] = Idle /\ \A x \in Requests : x # r => req'[x] = req[x]
    BY <1>1, <2>2
  <2>6. ASSUME NEW t \in Tickets, t # u, ticket'[t].status = "none"
        PROVE  Untouched(t)' /\ \A x \in Requests : req'[x].t # t
    <3>1. Untouched(t) /\ \A x \in Requests : req[x].t # t
      BY <2>4, <2>6 DEF Births
    <3>. QED BY <1>1, <2>2, <2>5, <3>1 DEF Untouched
  <2>7. ASSUME NEW x \in Requests, req'[x].pc = "ticketed"
        PROVE  /\ x # r /\ req'[x] = req[x] /\ Untouched(req[x].t)
               /\ ticket'[req[x].t] = NewTicket
               /\ \A y \in Requests \ {x} : req'[y].t # req[x].t
    <3>1. x # r /\ req'[x] = req[x] /\ req[x].pc = "ticketed"
      BY <1>1, <2>5, <2>7
    <3>2. /\ req[x].t \in Tickets /\ req[x].t # u
      BY <2>1, <3>1, Request DEF OnTicket, Births
    <3>3. /\ Untouched(req[x].t) /\ ticket[req[x].t] = NewTicket
          /\ \A y \in Requests \ {x} : req[y].t # req[x].t
      BY <3>1 DEF Births, NewTicket
    <3>. QED BY <1>1, <2>4, <2>5, <3>1, <3>2, <3>3
  <2>8. \A t \in Tickets : ticket'[t].status = "none" =>
            Untouched(t)' /\ \A x \in Requests : req'[x].t # t
    BY <2>3, <2>6
  <2>9. \A x \in Requests : req'[x].pc = "ticketed" =>
            /\ Untouched(req[x].t)' /\ ticket'[req'[x].t] = NewTicket
            /\ \A y \in Requests \ {x} : req'[y].t # req'[x].t
    <3>. SUFFICES ASSUME NEW x \in Requests, req'[x].pc = "ticketed"
                  PROVE  /\ Untouched(req[x].t)' /\ ticket'[req'[x].t] = NewTicket
                         /\ \A y \in Requests \ {x} : req'[y].t # req'[x].t
      OBVIOUS
    <3>1. /\ req'[x] = req[x] /\ Untouched(req[x].t) /\ ticket'[req[x].t] = NewTicket
          /\ \A y \in Requests \ {x} : req'[y].t # req[x].t
      BY <2>7
    <3>. QED BY <2>2, <3>1 DEF Untouched
  <2>. QED BY <2>8, <2>9 DEF Births, NewTicket
<1>. QED BY <1>2, <1>3

\* Notes, the passing of time and the job leave fresh tickets alone.
LEMMA BirthJob ==
    ASSUME Types, Births,
           \/ \E t \in Tickets : AddNote(t) \/ Age(t) \/ CloseStale(t)
           \/ FindStale \/ TellStale \/ WorkerDies
    PROVE  Births'
<1>. USE DEF history, budget
<1>1. /\ ticket \in [Tickets -> TicketRow] /\ job \in JobRow /\ None \notin Tickets
      /\ DOMAIN log = Tickets /\ DOMAIN trail = Tickets
  BY SupportAssumption DEF SupportAssumption, Types
<1>2. \A x \in Requests : req[x].pc = "ticketed" => req[x].t \in Tickets /\ Fresh(req[x].t)
  BY Request DEF OnTicket, Fresh, BeingBorn
<1>3. ASSUME req' = req,
             \A t \in Tickets : ~Fresh(t) => ticket'[t].status # "none",
             \A t \in Tickets : Fresh(t) =>
                /\ ticket'[t] = ticket[t] \/ (ticket[t].status = "none" /\ ticket'[t].status = "none")
                /\ log'[t] = log[t] /\ trail'[t] = trail[t] /\ t \notin job'.stale /\ job'.t # t
      PROVE  Births'
  <2>1. ASSUME NEW t \in Tickets, ticket'[t].status = "none"
        PROVE  Untouched(t)' /\ \A x \in Requests : req'[x].t # t
    <3>1. Fresh(t) /\ ticket[t].status = "none"
      BY <1>3, <2>1
    <3>. QED BY <1>3, <3>1 DEF Births, Untouched
  <2>2. ASSUME NEW x \in Requests, req[x].pc = "ticketed"
        PROVE  /\ Untouched(req[x].t)' /\ ticket'[req[x].t] = NewTicket
               /\ \A y \in Requests \ {x} : req[y].t # req[x].t
    <3>1. /\ Untouched(req[x].t) /\ ticket[req[x].t] = NewTicket
          /\ \A y \in Requests \ {x} : req[y].t # req[x].t
      BY <2>2 DEF Births, NewTicket
    <3>2. NewTicket.status = "open"
      BY DEF NewTicket, NoTicket
    <3>. QED BY <1>2, <1>3, <2>2, <3>1, <3>2 DEF Untouched
  <2>. QED BY <1>3, <2>1, <2>2 DEF Births, NewTicket
<1>4. \A t \in Tickets : Fresh(t) =>
          /\ ticket[t].status \in {"none", "open"} /\ t \notin job.stale /\ job.t # t /\ ~Addressable(t)
          /\ ticket[t].status = "open" => ticket[t].resolved = 0
  <2>. SUFFICES ASSUME NEW t \in Tickets, Fresh(t)
                PROVE  /\ ticket[t].status \in {"none", "open"} /\ t \notin job.stale /\ job.t # t
                       /\ ~Addressable(t)
                       /\ ticket[t].status = "open" => ticket[t].resolved = 0
    OBVIOUS
  <2>1. /\ Untouched(t) /\ ~Addressable(t)
        /\ ticket[t].status = "none" \/ ticket[t] = NewTicket
    BY FreshTicket
  <2>2. NewTicket.status = "open" /\ NewTicket.resolved = 0
    BY DEF NewTicket, NoTicket
  <2>. QED BY <2>1, <2>2 DEF Untouched
<1>5. \A t \in Tickets : ~Fresh(t) => ticket[t].status # "none"
  BY DEF Fresh
<1>6. ASSUME NEW t \in Tickets, AddNote(t) PROVE Births'
  BY <1>1, <1>3, <1>4, <1>5, <1>6 DEF AddNote
<1>7. ASSUME NEW t \in Tickets, Age(t) PROVE Births'
  <2>1. /\ \A u \in Tickets : u # t => ticket'[u] = ticket[u]
        /\ ticket'[t].status = ticket[t].status /\ ticket[t].resolved > 0
        /\ UNCHANGED <<req, log, trail, job>>
    BY <1>1, <1>7 DEF Age, TicketRow
  <2>2. Fresh(t) => ticket[t].status = "none"
    BY <1>4, <2>1
  <2>. QED BY <1>3, <1>4, <1>5, <2>1, <2>2
<1>8. ASSUME NEW t \in Tickets, CloseStale(t) PROVE Births'
  <2>1. /\ \A u \in Tickets : u # t => ticket'[u] = ticket[u]
        /\ ticket'[t].status = "closed" /\ t \in job.stale
        /\ UNCHANGED <<req, log, trail>> /\ job'.stale = job.stale \ {t} /\ job'.t = t
    <3>1. /\ ticket' = [ticket EXCEPT ![t] = Closed(ticket[t])] /\ t \in job.stale
          /\ job' = [job EXCEPT !.pc = "telling", !.stale = job.stale \ {t}, !.t = t]
          /\ UNCHANGED <<req, log, trail>>
      BY <1>8 DEF CloseStale
    <3>2. Closed(ticket[t]).status = "closed"
      BY <1>1 DEF Closed, TicketRow
    <3>3. job'.stale = job.stale \ {t} /\ job'.t = t
      BY <1>1, <3>1 DEF JobRow
    <3>. QED BY <1>1, <3>1, <3>2, <3>3
  <2>. QED BY <1>3, <1>4, <1>5, <2>1
<1>9. CASE FindStale
  <2>1. /\ UNCHANGED <<req, ticket, log, trail>> /\ job'.t = None
        /\ \A t \in job'.stale : ticket[t].status = "resolved"
    BY <1>9 DEF FindStale, Expirable
  <2>. QED BY <1>1, <1>3, <1>4, <1>5, <2>1
<1>10. CASE TellStale
  <2>1. /\ UNCHANGED <<req, ticket, log>> /\ job'.t = None /\ job'.stale = job.stale
        /\ \A t \in Tickets : t # job.t => trail'[t] = trail[t]
    BY <1>1, <1>10 DEF TellStale, JobRow
  <2>. QED BY <1>1, <1>3, <1>4, <1>5, <2>1
<1>11. CASE WorkerDies
  <2>1. UNCHANGED <<req, ticket, log, trail>> /\ job'.t = None /\ job'.stale = {}
    BY <1>11 DEF WorkerDies
  <2>. QED BY <1>1, <1>3, <1>4, <1>5, <2>1
<1>. QED BY <1>6, <1>7, <1>8, <1>9, <1>10, <1>11

\* Types and Births are inductive.
LEMMA BirthsNext == Types /\ Births /\ [Next]_vars => Types' /\ Births'
<1>. SUFFICES ASSUME Types, Births, [Next]_vars PROVE Births'
  BY TypesNext
<1>1. CASE UNCHANGED vars
  BY <1>1 DEF vars, history, Births, Untouched
<1>2. CASE Next
  BY <1>2, BirthWrites, BirthLoads, BirthAndDeath, BirthJob DEF Next
<1>. QED BY <1>1, <1>2

\* Before the first request nothing has been born.
LEMMA BirthsInit == Init => Types /\ Births
<1>1. Init => Births
  BY SupportAssumption, Blanks DEF SupportAssumption, Init, Births, Untouched, Idle
<1>. QED BY <1>1, TypesInit

\* Every state has the types of TypeOK: rows and requests are well formed, and
\* every time on a ticket is that of a message its log can hold.
THEOREM TypeCorrect == Spec => []TypeOK
<1>1. Types => TypeOK
  BY Request DEF Types, TypeOK, RequestRow, JobRow
<1>. QED BY <1>1, BirthsInit, BirthsNext, PTL DEF Spec

-----------------------------------------------------------------------------
(* Replies, and who reopens a ticket.                                      *)

\* A step leaves the log alone, stores one message whose client id the ticket
\* does not have yet, or writes a tombstone.
LEMMA LogMoves ==
    ASSUME Types, Births, [Next]_vars
    PROVE  \/ log' = log
           \/ \E t \in Tickets, m \in MessageRow :
                 /\ Len(log[t]) < MaxLog /\ ~Find(t, m.cid)
                 /\ log' = [log EXCEPT ![t] = Append(@, m)]
           \/ \E r \in Requests : Tombstone(r)
<1>. DEFINE Stores(t, m) == /\ Len(log[t]) < MaxLog /\ ~Find(t, m.cid)
                            /\ log' = [log EXCEPT ![t] = Append(@, m)]
<1>. DEFINE Goal == \/ log' = log
                    \/ \E t \in Tickets, m \in MessageRow : Stores(t, m)
                    \/ \E r \in Requests : Tombstone(r)
<1>. SUFFICES Goal
  OBVIOUS
<1>1. ASSUME NEW r \in Requests, InsertFirstMessage(r)
      PROVE  \E t \in Tickets, m \in MessageRow : Stores(t, m)
  <2>1. /\ req[r].t \in Tickets /\ req[r].file \in Files \union {None}
        /\ Len(log[req[r].t]) < MaxLog
    BY <1>1, Request DEF InsertFirstMessage, OnTicket, RequestRow, Births, Untouched
  <2>. DEFINE m == Message(None, req[r].file)
  <2>2. m \in MessageRow /\ m.cid = None
    BY <2>1 DEF Message, MessageRow
  <2>3. log' = [log EXCEPT ![req[r].t] = Append(@, m)]
    BY <1>1 DEF InsertFirstMessage
  <2>. HIDE DEF m
  <2>. QED BY <2>1, <2>2, <2>3 DEF Find
<1>2. ASSUME NEW r \in Requests, InsertReply(r), log' # log
      PROVE  \E t \in Tickets, m \in MessageRow : Stores(t, m)
  <2>1. /\ req[r].t \in Tickets /\ req[r].file \in Files \union {None}
        /\ req[r].cid \in ClientIds \union {None} /\ Len(log[req[r].t]) < MaxLog
    BY <1>2, Request DEF InsertReply, OnTicket, RequestRow
  <2>. DEFINE m == Message(req[r].cid, req[r].file)
  <2>2. m \in MessageRow /\ m.cid = req[r].cid
    BY <2>1 DEF Message, MessageRow
  <2>3. log' = [log EXCEPT ![req[r].t] = Append(@, m)] /\ ~Find(req[r].t, req[r].cid)
    BY <1>2 DEF InsertReply
  <2>. HIDE DEF m
  <2>. QED BY <2>1, <2>2, <2>3
<1>3. ASSUME NEW t \in Tickets, AddNote(t)
      PROVE  \E u \in Tickets, m \in MessageRow : Stores(u, m)
  <2>. DEFINE m == [Message(None, None) EXCEPT !.note = TRUE]
  <2>1. m \in MessageRow /\ m.cid = None
    BY DEF Message, MessageRow
  <2>2. log' = [log EXCEPT ![t] = Append(@, m)] /\ Len(log[t]) < MaxLog
    BY <1>3 DEF AddNote
  <2>. HIDE DEF m
  <2>. QED BY <2>1, <2>2 DEF Find
<1>4. CASE UNCHANGED vars
  BY <1>4 DEF vars
<1>5. CASE \E r \in Requests : \/ CountActive(r) \/ FailFirstMessage(r) \/ FailReply(r) \/ ApplyReply(r)
                               \/ WriteEvent(r) \/ WriteClose(r) \/ WriteUpdate(r) \/ Die(r)
  BY <1>5 DEF CountActive, FailFirstMessage, FailReply, ApplyReply, WriteEvent, WriteClose, WriteUpdate, Die
<1>6. CASE \/ \E r \in Requests, t \in Tickets :
                 \/ InsertTicket(r, t) \/ BeginClose(r, t)
                 \/ \E by \in Roles, cid \in ClientIds \union {None},
                       f \in Files \union {None} : BeginReply(r, by, t, cid, f)
                 \/ \E to \in Statuses, flip \in BOOLEAN : BeginUpdate(r, t, to, flip)
                 \/ \E i \in 1..MaxLog : i \in MessagesOf(t) /\ RemoveFile(r, t, i)
           \/ \E r \in Requests, cid \in ClientIds \union {None}, f \in Files \union {None} : Submit(r, cid, f)
  <2>1. \A r, t, to, flip : InsertTicket(r, t) \/ BeginClose(r, t) \/ BeginUpdate(r, t, to, flip) => log' = log
    BY DEF InsertTicket, BeginClose, BeginUpdate
  <2>2. \A r, by, t, cid, f, i : BeginReply(r, by, t, cid, f) \/ RemoveFile(r, t, i) \/ Submit(r, cid, f) => log' = log
    BY DEF BeginReply, RemoveFile, Submit
  <2>. QED BY <1>6, <2>1, <2>2
<1>7. CASE (\E t \in Tickets : Age(t) \/ CloseStale(t)) \/ FindStale \/ TellStale \/ WorkerDies
  BY <1>7 DEF Age, CloseStale, FindStale, TellStale, WorkerDies
<1>. HIDE DEF Stores
<1>8. ASSUME NEW r \in Requests,
             \/ CountActive(r) \/ InsertFirstMessage(r) \/ FailFirstMessage(r)
             \/ InsertReply(r) \/ FailReply(r) \/ ApplyReply(r) \/ WriteEvent(r)
             \/ WriteClose(r) \/ WriteUpdate(r) \/ Tombstone(r) \/ Die(r)
      PROVE  Goal
  BY <1>1, <1>2, <1>5, <1>8
<1>9. CASE \E t \in Tickets : AddNote(t) \/ Age(t) \/ CloseStale(t)
  BY <1>3, <1>7, <1>9
<1>. HIDE DEF Goal
<1>. QED BY <1>4, <1>6, <1>7, <1>8, <1>9 DEF Next

\* No step stores a second message with a client id of its ticket.
LEMMA OneReplyNext ==
    ASSUME Types, Births, OneReplyPerClientId, [Next]_vars
    PROVE  OneReplyPerClientId'
<1>1. CASE log' = log
  BY <1>1 DEF OneReplyPerClientId, MessagesOf
<1>2. ASSUME NEW t \in Tickets, NEW m \in MessageRow, Len(log[t]) < MaxLog, ~Find(t, m.cid),
             log' = [log EXCEPT ![t] = Append(@, m)]
      PROVE  OneReplyPerClientId'
  <2>1. /\ \A u \in Tickets : u # t => log'[u] = log[u]
        /\ Len(log'[t]) = Len(log[t]) + 1 /\ log'[t][Len(log[t]) + 1] = m
        /\ \A i \in MessagesOf(t) : log'[t][i] = log[t][i]
    BY <1>2, Grown
  <2>2. SUFFICES ASSUME NEW u \in Tickets, NEW i \in 1 .. Len(log'[u]), NEW j \in 1 .. Len(log'[u]),
                        i # j, log'[u][i].cid # None
                 PROVE  log'[u][i].cid # log'[u][j].cid
    BY DEF OneReplyPerClientId, MessagesOf
  <2>3. CASE u # t
    BY <2>1, <2>2, <2>3 DEF OneReplyPerClientId, MessagesOf
  <2>4. CASE u = t
    <3>1. Len(log[t]) \in Nat
      BY Request DEF Types
    <3>2. \A k \in 1 .. Len(log'[t]) : k \in MessagesOf(t) \/ k = Len(log[t]) + 1
      BY <2>1, <3>1 DEF MessagesOf
    <3>3. CASE i \in MessagesOf(t) /\ j \in MessagesOf(t)
      BY <2>1, <2>2, <2>4, <3>3 DEF OneReplyPerClientId
    <3>4. CASE i = Len(log[t]) + 1 /\ j \in MessagesOf(t)
      BY <1>2, <2>1, <2>2, <2>4, <3>4 DEF Find
    <3>5. CASE j = Len(log[t]) + 1 /\ i \in MessagesOf(t)
      BY <1>2, <2>1, <2>2, <2>4, <3>5 DEF Find
    <3>. QED BY <2>2, <2>4, <3>2, <3>3, <3>4, <3>5
  <2>. QED BY <2>3, <2>4
<1>3. ASSUME NEW r \in Requests, Tombstone(r) PROVE OneReplyPerClientId'
  <2>1. \A t \in Tickets : MessagesOf(t)' = MessagesOf(t)
    BY <1>3, TombstoneLog DEF MessagesOf
  <2>2. \A t \in Tickets : \A i \in MessagesOf(t) : log'[t][i].cid = log[t][i].cid
    <3>. SUFFICES ASSUME NEW t \in Tickets, NEW i \in MessagesOf(t) PROVE log'[t][i].cid = log[t][i].cid
      OBVIOUS
    <3>1. log[t][i] \in MessageRow
      BY DEF Types, MessagesOf
    <3>2. log'[t][i] = log[t][i] \/ log'[t][i] = [log[t][i] EXCEPT !.gone = TRUE]
      BY <1>3, TombstoneLog
    <3>. QED BY <3>1, <3>2 DEF MessageRow
  <2>. QED BY <2>1, <2>2 DEF OneReplyPerClientId
<1>. QED BY <1>1, <1>2, <1>3, LogMoves

\* A reply that is retried is stored once, however its attempts interleave: the
\* unique index refuses what the look-up before it let through.
THEOREM RepliesOnce == Spec => []OneReplyPerClientId
<1>1. Init => OneReplyPerClientId
  BY DEF Init, OneReplyPerClientId, MessagesOf
<1>. QED BY <1>1, BirthsInit, BirthsNext, OneReplyNext, PTL DEF Spec

-----------------------------------------------------------------------------
(* What a step does to the requests.                                       *)

\* A request that is about to write a status event, or is done.
Leaves(r, from, to) ==
    /\ from = to => req'[r] = Idle
    /\ from # to => req'[r] = [Idle EXCEPT !.pc = "telling", !.t = req[r].t, !.to = to]

\* How a request continues after it wrote.
LEMMA Continues ==
    ASSUME Types, NEW r \in Requests
    PROVE  /\ InsertFirstMessage(r) \/ FailFirstMessage(r) \/ FailReply(r) \/ WriteEvent(r)
                 \/ Tombstone(r) \/ Die(r) => req' = [req EXCEPT ![r] = Idle] /\ req'[r] = Idle
           /\ InsertReply(r) =>
                 \/ req'[r] = Idle /\ log' = log /\ disk' = Unlinked(req[r].file)
                 \/ /\ req'[r] = [req[r] EXCEPT !.pc = "inserted", !.at = Len(log[req[r].t]) + 1,
                                                !.file = None, !.cid = None]
                    /\ log' = [log EXCEPT ![req[r].t] = Append(@, Message(req[r].cid, req[r].file))]
                    /\ disk' = disk
           /\ ApplyReply(r) => Leaves(r, req[r].snap.status, NextStatus(req[r].by, req[r].snap))
           /\ WriteClose(r) => Leaves(r, req[r].snap.status, "closed")
           /\ WriteUpdate(r) => Leaves(r, req[r].snap.status, req[r].to)
           /\ \/ InsertFirstMessage(r) \/ FailFirstMessage(r) \/ InsertReply(r) \/ FailReply(r)
              \/ ApplyReply(r) \/ WriteEvent(r) \/ WriteClose(r) \/ WriteUpdate(r) \/ Tombstone(r) \/ Die(r)
              => \A x \in Requests : x # r => req'[x] = req[x]
<1>. DEFINE row == [req[r] EXCEPT !.pc = "inserted", !.at = Len(log[req[r].t]) + 1,
                                  !.file = None, !.cid = None]
            Told1(to) == [Idle EXCEPT !.pc = "telling", !.t = req[r].t, !.to = to]
<1>1. req \in [Requests -> RequestRow]
  BY DEF Types
<1>2. InsertFirstMessage(r) \/ FailFirstMessage(r) \/ FailReply(r) \/ WriteEvent(r)
         \/ Tombstone(r) \/ Die(r) => req' = [req EXCEPT ![r] = Idle] /\ req'[r] = Idle
  BY <1>1 DEF InsertFirstMessage, FailFirstMessage, FailReply, WriteEvent, Tombstone, Die, Finish
<1>3. InsertReply(r) =>
         \/ req' = [req EXCEPT ![r] = Idle] /\ log' = log /\ disk' = Unlinked(req[r].file)
         \/ /\ req' = [req EXCEPT ![r] = row]
            /\ log' = [log EXCEPT ![req[r].t] = Append(@, Message(req[r].cid, req[r].file))]
            /\ disk' = disk
  BY <1>1 DEF InsertReply, Finish
<1>4. \A from, to : Tell(r, from, to) => req' = [req EXCEPT ![r] = IF to = from THEN Idle ELSE Told1(to)]
  BY DEF Tell
<1>. HIDE DEF row, Told1
<1>5. \A from, to : Tell(r, from, to) =>
         /\ from = to => req'[r] = Idle
         /\ from # to => req'[r] = Told1(to)
         /\ \A x \in Requests : x # r => req'[x] = req[x]
  BY <1>1, <1>4
<1>6. /\ ApplyReply(r) => Tell(r, req[r].snap.status, NextStatus(req[r].by, req[r].snap))
      /\ WriteClose(r) => Tell(r, req[r].snap.status, "closed")
      /\ WriteUpdate(r) => Tell(r, req[r].snap.status, req[r].to)
  BY DEF ApplyReply, WriteClose, WriteUpdate
<1>7. \A from, to : Tell(r, from, to) => Leaves(r, from, to)
  BY <1>5 DEF Leaves, Told1
<1>8. InsertReply(r) =>
         \/ req'[r] = Idle /\ log' = log /\ disk' = Unlinked(req[r].file)
         \/ /\ req'[r] = row
            /\ log' = [log EXCEPT ![req[r].t] = Append(@, Message(req[r].cid, req[r].file))]
            /\ disk' = disk
  BY <1>1, <1>3
<1>9. \/ InsertFirstMessage(r) \/ FailFirstMessage(r) \/ InsertReply(r) \/ FailReply(r)
      \/ ApplyReply(r) \/ WriteEvent(r) \/ WriteClose(r) \/ WriteUpdate(r) \/ Tombstone(r) \/ Die(r)
      => \A x \in Requests : x # r => req'[x] = req[x]
  BY <1>1, <1>2, <1>3, <1>5, <1>6
<1>. QED BY <1>2, <1>6, <1>7, <1>8, <1>9 DEF row

\* A request starts, and no other moves.
LEMMA Begins ==
    ASSUME Types, NEW r \in Requests, NEW state, Begin(r, state)
    PROVE  req[r].pc = "idle" /\ req'[r] = state /\ \A x \in Requests : x # r => req'[x] = req[x]
BY DEF Types, Begin

\* How the requests start.
LEMMA StartsCount ==
    ASSUME Types, NEW r \in Requests, CountActive(r)
    PROVE  /\ req'[r].pc = "counted" /\ req'[r].t = None /\ req'[r].file = None
           /\ req[r].pc = "idle" /\ req'[r].raced = FALSE
           /\ \A x \in Requests : x # r => req'[x] = req[x]
<1>1. Begin(r, [Idle EXCEPT !.pc = "counted"])
  BY DEF CountActive
<1>. QED BY <1>1, Begins DEF Idle

\* A creation that goes on has its file at hand.
LEMMA StartsSubmit ==
    ASSUME Types, NEW r \in Requests, NEW cid, NEW f, Submit(r, cid, f)
    PROVE  /\ \/ req'[r] = Idle /\ disk' = disk
              \/ req'[r] = [req[r] EXCEPT !.pc = "uploaded", !.file = f] /\ disk' = Stored(f)
           /\ \A x \in Requests : x # r => req'[x] = req[x]
<1>. DEFINE row == [req[r] EXCEPT !.pc = "uploaded", !.file = f]
<1>1. \/ req' = [req EXCEPT ![r] = Idle] /\ disk' = disk
      \/ req' = [req EXCEPT ![r] = row] /\ disk' = Stored(f)
  BY DEF Submit, Finish, Types
<1>. HIDE DEF row
<1>2. /\ (req'[r] = Idle /\ disk' = disk) \/ (req'[r] = row /\ disk' = Stored(f))
      /\ \A x \in Requests : x # r => req'[x] = req[x]
  BY <1>1 DEF Types
<1>. QED BY <1>2 DEF row

\* A reply has read the ticket and has its file at hand.
LEMMA StartsReply ==
    ASSUME Types, NEW r \in Requests, NEW by, NEW t, NEW cid, NEW f, BeginReply(r, by, t, cid, f)
    PROVE  /\ req'[r].pc = "loaded" /\ req'[r].t = t /\ req'[r].file = f
           /\ req'[r].snap = ticket[t] /\ req[r].pc = "idle"
           /\ \A x \in Requests : x # r => req'[x] = req[x]
<1>. DEFINE row == [Idle EXCEPT !.pc = "loaded", !.by = by, !.t = t, !.snap = ticket[t],
                              !.cid = cid, !.file = f]
<1>1. row.pc = "loaded" /\ row.t = t /\ row.file = f /\ row.snap = ticket[t]
  BY DEF Idle
<1>2. Begin(r, row)
  BY DEF BeginReply
<1>. HIDE DEF row
<1>. QED BY <1>1, <1>2, Begins

\* A close has read the ticket.
LEMMA StartsClose ==
    ASSUME Types, NEW r \in Requests, NEW t, BeginClose(r, t)
    PROVE  /\ req'[r].pc = "closing" /\ req'[r].t = t /\ req'[r].file = None
           /\ req'[r].snap = ticket[t] /\ req[r].pc = "idle"
           /\ \A x \in Requests : x # r => req'[x] = req[x]
<1>. DEFINE row == [Idle EXCEPT !.pc = "closing", !.t = t, !.snap = ticket[t],
                              !.to = "closed", !.flip = FALSE]
<1>1. row.pc = "closing" /\ row.t = t /\ row.file = None /\ row.snap = ticket[t]
  BY DEF Idle
<1>2. Begin(r, row)
  BY DEF BeginClose, Load
<1>. HIDE DEF row
<1>. QED BY <1>1, <1>2, Begins

\* An update has read the ticket and knows what it will write.
LEMMA StartsUpdate ==
    ASSUME Types, NEW r \in Requests, NEW t, NEW to, NEW flip, BeginUpdate(r, t, to, flip)
    PROVE  /\ req'[r].pc = "updating" /\ req'[r].t = t /\ req'[r].file = None
           /\ req'[r].snap = ticket[t] /\ req'[r].to = to /\ req[r].pc = "idle"
           /\ \A x \in Requests : x # r => req'[x] = req[x]
<1>. DEFINE row == [Idle EXCEPT !.pc = "updating", !.t = t, !.snap = ticket[t],
                              !.to = to, !.flip = flip]
<1>1. row.pc = "updating" /\ row.t = t /\ row.file = None /\ row.snap = ticket[t] /\ row.to = to
  BY DEF Idle
<1>2. Begin(r, row)
  BY DEF BeginUpdate, Load
<1>. HIDE DEF row
<1>. QED BY <1>1, <1>2, Begins

\* A removal knows the message whose file it takes.
LEMMA StartsRemove ==
    ASSUME Types, NEW r \in Requests, NEW t, NEW i, RemoveFile(r, t, i)
    PROVE  /\ req'[r].pc = "removing" /\ req'[r].t = t /\ req'[r].file = None
           /\ req'[r].at = i /\ req[r].pc = "idle"
           /\ \A x \in Requests : x # r => req'[x] = req[x]
<1>. DEFINE row == [Idle EXCEPT !.pc = "removing", !.t = t, !.at = i]
<1>1. row.pc = "removing" /\ row.t = t /\ row.file = None /\ row.at = i
  BY DEF Idle
<1>2. Begin(r, row)
  BY DEF RemoveFile
<1>. HIDE DEF row
<1>. QED BY <1>1, <1>2, Begins

\* The requests a ticket's creation overtakes keep everything but their mark.
LEMMA Raced ==
    ASSUME Types, NEW r \in Requests, NEW t, InsertTicket(r, t), NEW x \in Requests
    PROVE  /\ x # r => /\ req'[x].pc = req[x].pc /\ req'[x].t = req[x].t
                       /\ req'[x].snap = req[x].snap /\ req'[x].to = req[x].to
                       /\ req'[x].file = req[x].file /\ req'[x].at = req[x].at
                       /\ req[x].pc \in {"counted", "uploaded"} => req'[x].raced
           /\ x = r => req[x].pc = "uploaded" /\ req'[x] = [req[x] EXCEPT !.pc = "ticketed", !.t = t]
<1>1. req[x] \in RequestRow
  BY DEF Types
<1>2. CASE x = r
  BY <1>2 DEF InsertTicket
<1>3. CASE x # r /\ req'[x] = req[x] /\ req[x].pc \notin {"counted", "uploaded"}
  BY <1>3
<1>4. CASE x # r /\ req'[x] = [req[x] EXCEPT !.raced = TRUE]
  BY <1>1, <1>4 DEF RequestRow
<1>. QED BY <1>2, <1>3, <1>4 DEF InsertTicket

\* Steps that do not touch the requests.
LEMMA ReqStays ==
    ASSUME \/ UNCHANGED vars \/ (\E t \in Tickets : AddNote(t) \/ Age(t) \/ CloseStale(t))
           \/ FindStale \/ TellStale \/ WorkerDies
    PROVE  req' = req
<1>1. CASE UNCHANGED vars
  BY <1>1 DEF vars
<1>2. \A t : AddNote(t) \/ Age(t) \/ CloseStale(t) => req' = req
  BY DEF AddNote, Age, CloseStale
<1>3. FindStale \/ TellStale \/ WorkerDies => req' = req
  BY DEF FindStale, TellStale, WorkerDies
<1>. QED BY <1>1, <1>2, <1>3

\* An update keeps what it read until it writes.
LEMMA ReadingsNext ==
    ASSUME Types, Births, Readings, [Next]_vars
    PROVE  Readings'
<1>1. Idle.pc = "idle"
  BY DEF Idle
<1>2. ASSUME NEW r \in Requests, \A x \in Requests : x # r => req'[x] = req[x],
             req'[r].pc \notin {"updating", "loaded", "inserted"}
      PROVE  Readings'
  BY <1>2 DEF Readings
<1>3. ASSUME NEW r \in Requests,
             \/ InsertFirstMessage(r) \/ FailFirstMessage(r) \/ InsertReply(r) \/ FailReply(r)
             \/ ApplyReply(r) \/ WriteEvent(r) \/ WriteClose(r) \/ WriteUpdate(r) \/ Tombstone(r) \/ Die(r)
      PROVE  Readings'
  <2>1. CASE ~InsertReply(r)
    <3>1. \A from, to : Leaves(r, from, to) => req'[r].pc \in {"idle", "telling"}
      <4>. SUFFICES ASSUME NEW from, NEW to, Leaves(r, from, to) PROVE req'[r].pc \in {"idle", "telling"}
        OBVIOUS
      <4>. DEFINE row == [Idle EXCEPT !.pc = "telling", !.t = req[r].t, !.to = to]
      <4>1. row.pc = "telling"
        BY DEF Idle
      <4>2. req'[r] = Idle \/ req'[r] = row
        BY DEF Leaves
      <4>. HIDE DEF row
      <4>. QED BY <1>1, <4>1, <4>2
    <3>2. req'[r].pc \in {"idle", "telling"}
      BY <1>1, <1>3, <2>1, <3>1, Continues
    <3>. QED BY <1>2, <1>3, <3>2, Continues
  <2>2. CASE InsertReply(r)
    <3>1. \A x \in Requests : x # r => req'[x] = req[x]
      BY <2>2, Continues
    <3>2. CASE req'[r] = Idle
      BY <1>1, <1>2, <3>1, <3>2
    <3>3. CASE req'[r] = [req[r] EXCEPT !.pc = "inserted", !.at = Len(log[req[r].t]) + 1,
                                        !.file = None, !.cid = None]
      <4>1. req'[r].pc = "inserted" /\ req'[r].snap = req[r].snap /\ req[r].pc = "loaded"
        BY <2>2, <3>3, Request DEF RequestRow, InsertReply
      <4>. QED BY <3>1, <4>1 DEF Readings
    <3>. QED BY <2>2, <3>2, <3>3, Continues
  <2>. QED BY <2>1, <2>2
<1>4. ASSUME NEW r \in Requests, NEW t \in Tickets, NEW to \in Statuses, NEW flip \in BOOLEAN,
             BeginUpdate(r, t, to, flip)
      PROVE  Readings'
  <2>1. /\ ticket[t].status \in Statuses
        /\ to = ticket[t].status \/ to \in StaffTransitions[ticket[t].status]
    BY <1>4 DEF BeginUpdate, Addressable, Types, TicketRow
  <2>. QED BY <1>4, <2>1, StartsUpdate DEF Readings
<1>5. ASSUME NEW r \in Requests, CountActive(r) PROVE Readings'
  BY <1>2, <1>5, StartsCount
<1>6. ASSUME NEW r \in Requests, NEW cid, NEW f, Submit(r, cid, f) PROVE Readings'
  <2>1. req[r] \in RequestRow
    BY Request
  <2>2. req'[r].pc \notin {"updating", "loaded", "inserted"}
    BY <1>1, <1>6, <2>1, StartsSubmit DEF RequestRow
  <2>. QED BY <1>2, <1>6, <2>2, StartsSubmit
<1>7. ASSUME NEW r \in Requests, NEW t, NEW by, NEW cid, NEW f, BeginReply(r, by, t, cid, f) PROVE Readings'
  <2>1. /\ \A x \in Requests : x # r => req'[x] = req[x]
        /\ req'[r].pc = "loaded" /\ req'[r].snap = ticket[t]
    BY <1>7, StartsReply
  <2>2. ticket[t].status # "closed"
    BY <1>7 DEF BeginReply
  <2>. QED BY <2>1, <2>2 DEF Readings
<1>8. ASSUME NEW r \in Requests, NEW t, BeginClose(r, t) PROVE Readings'
  BY <1>2, <1>8, StartsClose
<1>9. ASSUME NEW r \in Requests, NEW t, NEW i, RemoveFile(r, t, i) PROVE Readings'
  BY <1>2, <1>9, StartsRemove
<1>10. ASSUME NEW r \in Requests, NEW t \in Tickets, InsertTicket(r, t) PROVE Readings'
  <2>0. req[r] \in RequestRow /\ req'[r] = [req[r] EXCEPT !.pc = "ticketed", !.t = t]
    BY <1>10 DEF InsertTicket, Types
  <2>1. req'[r].pc = "ticketed"
    BY <2>0 DEF RequestRow
  <2>2. \A x \in Requests : x # r =>
            req'[x].pc = req[x].pc /\ req'[x].snap = req[x].snap /\ req'[x].to = req[x].to
    BY <1>10, Raced
  <2>. QED BY <2>1, <2>2 DEF Readings
<1>11. req' = req => Readings'
  BY DEF Readings
<1>. HIDE DEF Readings
<1>12. ASSUME Next PROVE Readings'
  BY <1>12, <1>3, <1>4, <1>5, <1>6, <1>7, <1>8, <1>9, <1>10, <1>11, ReqStays DEF Next
<1>. QED BY <1>11, <1>12, ReqStays

\* Which steps give a ticket another status.
LEMMA StatusMoves ==
    ASSUME Types, Births, Readings, [Next]_vars, NEW t \in Tickets,
           ticket[t].status = "closed", ticket'[t].status # "closed"
    PROVE  \E r \in Requests : /\ req[r].pc = "updating" /\ req[r].t = t
                               /\ req[r].snap.status # "closed" /\ req'[r].pc # "updating"
<1>. DEFINE Goal == \E r \in Requests : /\ req[r].pc = "updating" /\ req[r].t = t
                                        /\ req[r].snap.status # "closed" /\ req'[r].pc # "updating"
<1>. SUFFICES Goal
  OBVIOUS
<1>0. ticket \in [Tickets -> TicketRow] /\ ticket' # ticket
  BY DEF Types
<1>1. ASSUME NEW r \in Requests, WriteUpdate(r) PROVE Goal
  <2>1. /\ req[r].pc = "updating" /\ ticket' = [ticket EXCEPT ![req[r].t] = Updated(ticket[req[r].t], r)]
    BY <1>1 DEF WriteUpdate
  <2>2. t = req[r].t /\ ticket'[t] = Updated(ticket[t], r)
    BY <1>0, <2>1
  <2>3. req[r].snap.status # "closed"
    <3>1. ASSUME req[r].snap.status = "closed" PROVE FALSE
      <4>1. req[r].to = req[r].snap.status
        BY <2>1, <3>1 DEF Readings, StaffTransitions
      <4>2. Updated(ticket[t], r).status = ticket[t].status
        BY <1>0, <4>1 DEF Updated, TicketRow
      <4>. QED BY <2>2, <4>2
    <3>. QED BY <3>1
  <2>4. req'[r].pc # "updating"
    <3>1. Leaves(r, req[r].snap.status, req[r].to)
      BY <1>1, Continues
    <3>2. Idle.pc # "updating" /\ [Idle EXCEPT !.pc = "telling", !.t = req[r].t, !.to = req[r].to].pc # "updating"
      BY DEF Idle
    <3>. QED BY <3>1, <3>2 DEF Leaves
  <2>. QED BY <2>1, <2>2, <2>3, <2>4
<1>2. ASSUME NEW r \in Requests, ApplyReply(r) PROVE FALSE
  BY <1>0, <1>2 DEF ApplyReply
<1>3. ASSUME NEW r \in Requests, WriteClose(r) PROVE FALSE
  BY <1>0, <1>3 DEF WriteClose, Closed, TicketRow
<1>4. ASSUME NEW r \in Requests, FailFirstMessage(r) PROVE FALSE
  <2>1. NewTicket.status = "open"
    BY DEF NewTicket, NoTicket
  <2>. QED BY <1>0, <1>4, <2>1 DEF FailFirstMessage, Births, NewTicket
<1>5. ASSUME NEW r \in Requests, NEW u \in Tickets, InsertTicket(r, u) PROVE FALSE
  BY <1>0, <1>5 DEF InsertTicket
<1>6. ASSUME NEW u \in Tickets, CloseStale(u) PROVE FALSE
  BY <1>0, <1>6 DEF CloseStale, Closed, TicketRow
<1>7. ASSUME NEW u \in Tickets, Age(u) PROVE FALSE
  BY <1>0, <1>7 DEF Age, TicketRow
<1>8. ASSUME NEW r \in Requests,
             \/ CountActive(r) \/ InsertFirstMessage(r) \/ InsertReply(r) \/ FailReply(r)
             \/ WriteEvent(r) \/ Tombstone(r) \/ Die(r)
      PROVE  FALSE
  BY <1>0, <1>8 DEF CountActive, InsertFirstMessage, InsertReply, FailReply, WriteEvent, Tombstone, Die
<1>9. ASSUME NEW r, NEW u, NEW by, NEW cid, NEW f, NEW to, NEW flip, NEW i,
             \/ Submit(r, cid, f) \/ BeginReply(r, by, u, cid, f) \/ BeginClose(r, u)
             \/ BeginUpdate(r, u, to, flip) \/ RemoveFile(r, u, i) \/ AddNote(u)
      PROVE  FALSE
  <2>1. Submit(r, cid, f) \/ BeginReply(r, by, u, cid, f) \/ RemoveFile(r, u, i) => ticket' = ticket
    BY DEF Submit, BeginReply, RemoveFile
  <2>2. BeginClose(r, u) \/ BeginUpdate(r, u, to, flip) \/ AddNote(u) => ticket' = ticket
    BY DEF BeginClose, BeginUpdate, AddNote
  <2>. QED BY <1>0, <1>9, <2>1, <2>2
<1>10. ASSUME FindStale \/ TellStale \/ WorkerDies \/ UNCHANGED vars PROVE FALSE
  BY <1>0, <1>10 DEF FindStale, TellStale, WorkerDies, vars
<1>. HIDE DEF Goal
<1>. QED BY <1>1, <1>2, <1>3, <1>4, <1>5, <1>6, <1>7, <1>8, <1>9, <1>10 DEF Next

\* No reply and no job reopens a closed ticket, whatever they read and when:
\* only an update that read the ticket before it was closed does.
THEOREM ReopeningCorrect == Spec => ClosedReopensOnlyByStaleUpdate
<1>1. Init => Readings
  BY DEF Init, Readings, Idle
<1>2. Types /\ Births /\ Readings /\ [Next]_vars => Readings'
  BY ReadingsNext
<1>3. Types /\ Births /\ Readings /\ [Next]_vars =>
        [\A t \in Tickets :
            ticket[t].status = "closed" /\ ticket'[t].status # "closed" =>
               \E r \in Requests : /\ req[r].pc = "updating" /\ req[r].t = t
                                   /\ req[r].snap.status # "closed"
                                   /\ req'[r].pc # "updating"]_vars
  BY StatusMoves
<1>. QED BY <1>1, <1>2, <1>3, BirthsInit, BirthsNext, PTL DEF Spec, ClosedReopensOnlyByStaleUpdate

-----------------------------------------------------------------------------
(* The trail.                                                              *)

\* A ticket once disturbed stays so.
LEMMA DisturbedGrows == [Next]_vars => disturbed \subseteq disturbed'
<1>. SUFFICES ASSUME [Next]_vars PROVE disturbed \subseteq disturbed'
  OBVIOUS
<1>. USE DEF history, budget
<1>1. \A r : CountActive(r) \/ InsertFirstMessage(r) \/ FailFirstMessage(r) \/ InsertReply(r) \/ FailReply(r)
             \/ WriteEvent(r) \/ Tombstone(r) => disturbed' = disturbed
  BY DEF CountActive, InsertFirstMessage, FailFirstMessage, InsertReply, FailReply, WriteEvent, Tombstone
<1>2. \A r : ApplyReply(r) \/ WriteClose(r) \/ WriteUpdate(r) \/ Die(r) => disturbed \subseteq disturbed'
  BY DEF ApplyReply, WriteClose, WriteUpdate, Die, Overlap
<1>3. \A r, t, cid, f : Submit(r, cid, f) \/ InsertTicket(r, t) \/ BeginClose(r, t) => disturbed' = disturbed
  BY DEF Submit, InsertTicket, BeginClose
<1>4. \A r, by, t, cid, f : BeginReply(r, by, t, cid, f) => disturbed' = disturbed
  BY DEF BeginReply
<1>5. \A r, t, to, flip : BeginUpdate(r, t, to, flip) => disturbed' = disturbed
  BY DEF BeginUpdate
<1>6. \A r, t, i : RemoveFile(r, t, i) => disturbed' = disturbed
  BY DEF RemoveFile
<1>7. \A t : AddNote(t) \/ Age(t) \/ CloseStale(t) => disturbed \subseteq disturbed'
  BY DEF AddNote, Age, CloseStale
<1>8. FindStale \/ TellStale \/ WorkerDies \/ UNCHANGED vars => disturbed \subseteq disturbed'
  BY DEF FindStale, TellStale, WorkerDies, vars
<1>. QED BY <1>1, <1>2, <1>3, <1>4, <1>5, <1>6, <1>7, <1>8 DEF Next

\* A step that leaves a ticket's status, its trail and those who will write an
\* event to it alone.
LEMMA ToldStays ==
    ASSUME NEW t \in Tickets, ToldOf(t), ticket'[t].status = ticket[t].status, trail'[t] = trail[t],
           job'.t = t <=> job.t = t,
           \A x \in Requests : /\ Telling(x, t)' <=> Telling(x, t)
                               /\ Telling(x, t) => req'[x].to = req[x].to
    PROVE  ToldOf(t)'
BY DEF ToldOf

\* What the write of a request on an undisturbed ticket finds.
LEMMA Undisturbed ==
    ASSUME Types, NEW r \in Requests, Overlap(r), req[r].t \notin disturbed'
    PROVE  /\ ticket[req[r].t] = req[r].snap /\ job.t # req[r].t
           /\ \A x \in Requests : x # r => ~Telling(x, req[r].t)
           /\ \A x \in Requests : x # r => ~(req[x].pc = "inserted" /\ req[x].t = req[r].t)
<1>1. ticket[req[r].t] = req[r].snap /\ Others(req[r].t, r) = {} /\ job.t # req[r].t
  BY DEF Overlap
<1>. QED BY <1>1 DEF Others, HalfDone, Telling

\* The steps of requests that write no status and no event.
LEMMA ToldQuiet ==
    ASSUME Types, Births, NEW r \in Requests, NEW t \in Tickets, ticket[t].status # "none" => ToldOf(t),
           \/ CountActive(r) \/ InsertFirstMessage(r) \/ FailFirstMessage(r)
           \/ InsertReply(r) \/ FailReply(r) \/ Tombstone(r) \/ Die(r)
           \/ \E cid, f : Submit(r, cid, f)
           \/ \E u : \/ BeginClose(r, u) \/ \E by, cid, f : BeginReply(r, by, u, cid, f)
                     \/ \E to, flip : BeginUpdate(r, u, to, flip)
                     \/ \E i : RemoveFile(r, u, i),
           t \notin disturbed', ticket'[t].status # "none"
    PROVE  ToldOf(t)'
<1>. USE DEF history, budget
<1>1. ticket'[t] = ticket[t] /\ trail' = trail /\ job' = job
  <2>1. CASE FailFirstMessage(r)
    <3>1. ticket' = [ticket EXCEPT ![req[r].t] = NoTicket] /\ trail' = trail /\ job' = job
      BY <2>1 DEF FailFirstMessage
    <3>2. t # req[r].t
      BY <3>1 DEF Types, NoTicket
    <3>. QED BY <3>1, <3>2 DEF Types
  <2>2. CASE CountActive(r) \/ InsertFirstMessage(r) \/ InsertReply(r) \/ FailReply(r) \/ Tombstone(r) \/ Die(r)
    BY <2>2 DEF CountActive, InsertFirstMessage, InsertReply, FailReply, Tombstone, Die
  <2>3. CASE \E cid, f : Submit(r, cid, f)
    BY <2>3 DEF Submit
  <2>4. CASE \E u : \/ BeginClose(r, u) \/ \E by, cid, f : BeginReply(r, by, u, cid, f)
                    \/ \E to, flip : BeginUpdate(r, u, to, flip)
                    \/ \E i : RemoveFile(r, u, i)
    BY <2>4 DEF BeginClose, BeginReply, BeginUpdate, RemoveFile
  <2>. QED BY <2>1, <2>2, <2>3, <2>4
<1>2. req[r].pc # "telling" \/ req[r].t # t
  <2>1. CASE Die(r)
    BY <2>1 DEF Die, HalfDone
  <2>2. CASE CountActive(r) \/ InsertFirstMessage(r) \/ FailFirstMessage(r) \/ InsertReply(r) \/ FailReply(r)
             \/ Tombstone(r)
    BY <2>2, StartsCount DEF InsertFirstMessage, FailFirstMessage, InsertReply, FailReply, Tombstone
  <2>3. CASE \E cid, f : Submit(r, cid, f)
    BY <2>3 DEF Submit
  <2>4. CASE \E u : \/ BeginClose(r, u) \/ \E by, cid, f : BeginReply(r, by, u, cid, f)
                    \/ \E to, flip : BeginUpdate(r, u, to, flip)
                    \/ \E i : RemoveFile(r, u, i)
    BY <2>4, StartsClose, StartsReply, StartsUpdate, StartsRemove
  <2>. QED BY <2>1, <2>2, <2>3, <2>4
<1>3. req'[r].pc # "telling" /\ \A x \in Requests : x # r => req'[x] = req[x]
  <2>0. Idle.pc = "idle" /\ req[r] \in RequestRow
    BY Request DEF Idle
  <2>1. CASE InsertReply(r)
    BY <2>0, <2>1, Continues DEF RequestRow
  <2>2. CASE InsertFirstMessage(r) \/ FailFirstMessage(r) \/ FailReply(r) \/ Tombstone(r) \/ Die(r)
    BY <2>0, <2>2, Continues
  <2>3. CASE \E cid, f : Submit(r, cid, f)
    BY <2>0, <2>3, StartsSubmit DEF RequestRow
  <2>4. CASE \E u : \/ BeginClose(r, u) \/ \E by, cid, f : BeginReply(r, by, u, cid, f)
                    \/ \E to, flip : BeginUpdate(r, u, to, flip)
                    \/ \E i : RemoveFile(r, u, i)
    BY <2>4, StartsClose, StartsReply, StartsUpdate, StartsRemove
  <2>5. CASE CountActive(r)
    BY <2>5, StartsCount
  <2>. QED BY <2>1, <2>2, <2>3, <2>4, <2>5
<1>4. \A x \in Requests : /\ Telling(x, t)' <=> Telling(x, t)
                          /\ Telling(x, t) => req'[x].to = req[x].to
  BY <1>2, <1>3 DEF Telling
<1>. QED BY <1>1, <1>4, ToldStays

\* A request that writes a status leaves its event to be written, or has none to
\* write.
LEMMA ToldWritten ==
    ASSUME Types, NEW r \in Requests, NEW t \in Tickets, NEW from, NEW to,
           ticket[t].status # "none" => ToldOf(t), t \notin disturbed',
           Overlap(r), Leaves(r, from, to), req[r].pc # "telling",
           \A x \in Requests : x # r => req'[x] = req[x],
           ticket' \in [Tickets -> TicketRow], \A u \in Tickets : u # req[r].t => ticket'[u] = ticket[u],
           from = req[r].snap.status,
           ticket[req[r].t] = req[r].snap => ticket'[req[r].t].status = to,
           UNCHANGED <<trail, job>>, ticket[t].status # "none"
    PROVE  ToldOf(t)'
<1>1. Idle.pc = "idle"
  BY DEF Idle
<1>2. /\ from = to => ~(req'[r].pc = "telling")
      /\ from # to => req'[r].pc = "telling" /\ req'[r].t = req[r].t /\ req'[r].to = to
  <2>. DEFINE row == [Idle EXCEPT !.pc = "telling", !.t = req[r].t, !.to = to]
  <2>1. row.pc = "telling" /\ row.t = req[r].t /\ row.to = to
    BY DEF Idle
  <2>2. from # to => req'[r] = row
    BY DEF Leaves
  <2>. HIDE DEF row
  <2>. QED BY <1>1, <2>1, <2>2 DEF Leaves
<1>3. CASE t # req[r].t
  <2>1. \A x \in Requests : /\ Telling(x, t)' <=> Telling(x, t)
                            /\ Telling(x, t) => req'[x].to = req[x].to
    BY <1>2, <1>3 DEF Telling
  <2>. QED BY <1>3, <2>1, ToldStays
<1>4. CASE t = req[r].t
  <2>1. /\ ticket[t] = req[r].snap /\ job.t # t
        /\ \A x \in Requests : x # r => ~Telling(x, t)
    BY <1>4, Undisturbed
  <2>2. ticket'[t].status = to /\ from = ticket[t].status
    BY <1>4, <2>1
  <2>3. \A x \in Requests : x # r => ~Telling(x, t)'
    BY <2>1 DEF Telling
  <2>4. trail[t] = ticket[t].status
    BY <2>1 DEF ToldOf, Telling
  <2>5. CASE from = to
    <3>1. ~Telling(r, t)'
      BY <1>2, <2>5 DEF Telling
    <3>. QED BY <2>1, <2>2, <2>3, <2>4, <2>5, <3>1 DEF ToldOf
  <2>6. CASE from # to
    <3>1. Telling(r, t)' /\ req'[r].to = to
      BY <1>2, <1>4, <2>6 DEF Telling
    <3>. QED BY <2>1, <2>2, <2>3, <3>1 DEF ToldOf
  <2>. QED BY <2>5, <2>6
<1>. QED BY <1>3, <1>4

\* The writes of a status by a request.
LEMMA ToldRequests ==
    ASSUME Types, Births, NEW r \in Requests, NEW t \in Tickets, ticket[t].status # "none" => ToldOf(t),
           ApplyReply(r) \/ WriteClose(r) \/ WriteUpdate(r) \/ WriteEvent(r),
           t \notin disturbed', ticket'[t].status # "none"
    PROVE  ToldOf(t)'
<1>. USE DEF history, budget
<1>1. /\ req[r].t \in Tickets /\ ~Fresh(req[r].t) /\ ticket \in [Tickets -> TicketRow]
      /\ \A x \in Requests : x # r => req'[x] = req[x]
  <2>1. req[r].pc \in OnTicket \ {"ticketed"}
    BY DEF OnTicket, ApplyReply, WriteClose, WriteUpdate, WriteEvent
  <2>. QED BY <2>1, NotFresh, Continues DEF Types
<1>2. ticket[t].status # "none"
  <2>1. \A u \in Tickets : u # req[r].t => ticket'[u] = ticket[u]
    BY <1>1 DEF ApplyReply, WriteClose, WriteUpdate, WriteEvent
  <2>. QED BY <1>1, <2>1 DEF Fresh
<1>3. CASE ApplyReply(r)
  <2>. DEFINE next == NextStatus(req[r].by, req[r].snap)
  <2>1. /\ req[r].pc = "inserted" /\ Overlap(r) /\ Leaves(r, req[r].snap.status, next)
        /\ UNCHANGED <<trail, job>>
        /\ ticket' = [ticket EXCEPT ![req[r].t] = IF @.status = "closed" THEN @ ELSE Answered(@, r)]
    BY <1>3, Continues DEF ApplyReply
  <2>2. ticket' \in [Tickets -> TicketRow]
    BY <1>1, <2>1, Rows
  <2>3. ASSUME ticket[req[r].t] = req[r].snap PROVE ticket'[req[r].t].status = next
    <3>1. CASE ticket[req[r].t].status = "closed"
      BY <1>1, <2>1, <2>3, <3>1 DEF NextStatus
    <3>2. CASE ticket[req[r].t].status # "closed"
      <4>1. ticket'[req[r].t] = Answered(ticket[req[r].t], r)
        BY <1>1, <2>1, <3>2
      <4>. HIDE DEF next
      <4>2. Answered(ticket[req[r].t], r).status = IF next # req[r].snap.status THEN next
                                                   ELSE ticket[req[r].t].status
        BY <1>1 DEF Answered, TicketRow, next
      <4>. QED BY <2>3, <4>1, <4>2
    <3>. QED BY <3>1, <3>2
  <2>4. \A u \in Tickets : u # req[r].t => ticket'[u] = ticket[u]
    BY <1>1, <2>1
  <2>. HIDE DEF next
  <2>. QED BY <1>1, <1>2, <2>1, <2>2, <2>3, <2>4, ToldWritten
<1>4. CASE WriteClose(r)
  <2>1. /\ req[r].pc = "closing" /\ Overlap(r) /\ Leaves(r, req[r].snap.status, "closed")
        /\ UNCHANGED <<trail, job>>
        /\ ticket' = [ticket EXCEPT ![req[r].t] = Closed(@)]
    BY <1>4, Continues DEF WriteClose
  <2>2. ticket' \in [Tickets -> TicketRow] /\ ticket'[req[r].t].status = "closed"
    BY <1>1, <2>1, Rows DEF Closed, TicketRow
  <2>3. \A u \in Tickets : u # req[r].t => ticket'[u] = ticket[u]
    BY <1>1, <2>1
  <2>. QED BY <1>1, <1>2, <2>1, <2>2, <2>3, ToldWritten
<1>5. CASE WriteUpdate(r)
  <2>1. /\ req[r].pc = "updating" /\ Overlap(r) /\ Leaves(r, req[r].snap.status, req[r].to)
        /\ UNCHANGED <<trail, job>>
        /\ ticket' = [ticket EXCEPT ![req[r].t] = Updated(@, r)]
    BY <1>5, Continues DEF WriteUpdate
  <2>2. ticket' \in [Tickets -> TicketRow]
    BY <1>1, <2>1, Rows
  <2>3. ASSUME ticket[req[r].t] = req[r].snap PROVE ticket'[req[r].t].status = req[r].to
    <3>1. Updated(ticket[req[r].t], r).status = IF req[r].to # req[r].snap.status THEN req[r].to
                                                ELSE ticket[req[r].t].status
      BY <1>1 DEF Updated, TicketRow
    <3>. QED BY <1>1, <2>1, <2>3, <3>1
  <2>4. \A u \in Tickets : u # req[r].t => ticket'[u] = ticket[u]
    BY <1>1, <2>1
  <2>. QED BY <1>1, <1>2, <2>1, <2>2, <2>3, <2>4, ToldWritten
<1>6. CASE WriteEvent(r)
  <2>1. /\ req[r].pc = "telling" /\ trail' = [trail EXCEPT ![req[r].t] = req[r].to]
        /\ UNCHANGED <<ticket, job>> /\ req'[r] = Idle /\ Idle.pc = "idle"
    BY <1>6, Continues DEF WriteEvent, Idle
  <2>2. \A x \in Requests : Telling(x, t)' => Telling(x, t) /\ req'[x].to = req[x].to
    BY <1>1, <2>1 DEF Telling
  <2>3. CASE t # req[r].t
    <3>1. \A x \in Requests : Telling(x, t) => Telling(x, t)' /\ req'[x].to = req[x].to
      BY <1>1, <2>1, <2>3 DEF Telling
    <3>2. trail'[t] = trail[t]
      BY <2>1, <2>3 DEF Types
    <3>. QED BY <1>2, <2>1, <2>2, <3>1, <3>2, ToldStays
  <2>4. CASE t = req[r].t
    <3>1. Telling(r, t) /\ trail'[t] = req[r].to
      BY <2>1, <2>4 DEF Telling, Types
    <3>. QED BY <1>2, <2>1, <2>2, <3>1 DEF ToldOf
  <2>. QED BY <2>3, <2>4
<1>. QED BY <1>3, <1>4, <1>5, <1>6

\* The creation of a ticket, and the steps of the job.
LEMMA ToldOthers ==
    ASSUME Types, Births, NEW t \in Tickets, ticket[t].status # "none" => ToldOf(t),
           \/ \E r \in Requests : \E u \in Tickets : InsertTicket(r, u)
           \/ \E u \in Tickets : AddNote(u) \/ Age(u) \/ CloseStale(u)
           \/ FindStale \/ TellStale \/ WorkerDies \/ UNCHANGED vars,
           t \notin disturbed', ticket'[t].status # "none"
    PROVE  ToldOf(t)'
<1>. USE DEF history, budget
<1>0. /\ ticket \in [Tickets -> TicketRow] /\ job \in JobRow /\ None \notin Tickets
      /\ job.pc = "telling" <=> job.t # None
  BY SupportAssumption DEF SupportAssumption, Types
<1>1. ASSUME NEW r \in Requests, NEW u \in Tickets, InsertTicket(r, u) PROVE ToldOf(t)'
  <2>1. /\ UNCHANGED <<trail, job>> /\ ticket[u].status = "none" /\ req[r].pc = "uploaded"
        /\ ticket'[u] = NewTicket /\ \A v \in Tickets : v # u => ticket'[v] = ticket[v]
    BY <1>0, <1>1 DEF InsertTicket, NewTicket
  <2>2. req'[r].pc = "ticketed"
    <3>1. req[r] \in RequestRow /\ req'[r] = [req[r] EXCEPT !.pc = "ticketed", !.t = u]
      BY <1>1 DEF InsertTicket, Types
    <3>. QED BY <3>1 DEF RequestRow
  <2>3. \A x \in Requests : x # r =>
            req'[x].pc = req[x].pc /\ req'[x].t = req[x].t /\ req'[x].to = req[x].to
    BY <1>1, Raced
  <2>4. \A x \in Requests : /\ Telling(x, t)' <=> Telling(x, t)
                            /\ Telling(x, t) => req'[x].to = req[x].to
    <3>1. ~Telling(r, t) /\ ~Telling(r, t)'
      BY <2>1, <2>2 DEF Telling
    <3>2. \A x \in Requests : x # r => /\ Telling(x, t)' <=> Telling(x, t)
                                       /\ req'[x].to = req[x].to
      BY <2>3 DEF Telling
    <3>. QED BY <3>1, <3>2
  <2>5. CASE t # u
    BY <2>1, <2>4, <2>5, ToldStays
  <2>6. CASE t = u
    <3>1. Untouched(t) /\ \A x \in Requests : req[x].t # t
      BY <2>1, <2>6 DEF Births
    <3>2. NewTicket.status = "open"
      BY DEF NewTicket, NoTicket
    <3>. QED BY <2>1, <2>4, <2>6, <3>1, <3>2 DEF ToldOf, Untouched, Telling
  <2>. QED BY <2>5, <2>6
<1>2. \/ UNCHANGED vars \/ (\E u \in Tickets : AddNote(u) \/ Age(u) \/ CloseStale(u))
      \/ FindStale \/ TellStale \/ WorkerDies
      => \A x \in Requests : /\ Telling(x, t)' <=> Telling(x, t)
                             /\ Telling(x, t) => req'[x].to = req[x].to
  BY ReqStays DEF Telling
<1>3. ASSUME NEW u \in Tickets, AddNote(u) PROVE ToldOf(t)'
  BY <1>2, <1>3, ToldStays DEF AddNote
<1>4. ASSUME NEW u \in Tickets, Age(u) PROVE ToldOf(t)'
  <2>1. ticket'[t].status = ticket[t].status /\ UNCHANGED <<trail, job>>
    BY <1>0, <1>4 DEF Age, TicketRow
  <2>. QED BY <1>2, <1>4, <2>1, ToldStays
<1>5. ASSUME NEW u \in Tickets, CloseStale(u) PROVE ToldOf(t)'
  <2>1. /\ ticket' = [ticket EXCEPT ![u] = Closed(ticket[u])] /\ trail' = trail
        /\ job' = [job EXCEPT !.pc = "telling", !.stale = @ \ {u}, !.t = u] /\ job.pc = "closing"
        /\ t = u => Expirable(u) /\ Others(u, None) = {}
    BY <1>5 DEF CloseStale
  <2>2. job'.t = u /\ job.t = None
    BY <1>0, <2>1 DEF JobRow
  <2>3. CASE t # u
    BY <1>0, <1>2, <1>5, <2>1, <2>2, <2>3, ToldStays
  <2>4. CASE t = u
    <3>1. ticket'[t].status = "closed"
      BY <1>0, <2>1, <2>4 DEF Closed, TicketRow
    <3>2. \A x \in Requests : ~Telling(x, t)
      BY <2>1, <2>4, SupportAssumption DEF SupportAssumption, Others, HalfDone, Telling
    <3>. QED BY <1>2, <1>5, <2>2, <2>4, <3>1, <3>2 DEF ToldOf
  <2>. QED BY <2>3, <2>4
<1>6. CASE FindStale
  BY <1>0, <1>2, <1>6, ToldStays DEF FindStale
<1>7. CASE TellStale
  <2>1. /\ UNCHANGED ticket /\ trail' = [trail EXCEPT ![job.t] = "closed"] /\ job'.t = None
    BY <1>0, <1>7 DEF TellStale, JobRow
  <2>2. CASE job.t = t
    BY <1>0, <1>2, <1>7, <2>1, <2>2 DEF ToldOf, Types
  <2>3. CASE job.t # t
    BY <1>0, <1>2, <1>7, <2>1, <2>3, ToldStays DEF Types
  <2>. QED BY <2>2, <2>3
<1>8. CASE WorkerDies
  <2>1. UNCHANGED <<ticket, trail>> /\ job'.t = None /\ job.t # t
    BY <1>0, <1>8 DEF WorkerDies
  <2>. QED BY <1>0, <1>2, <1>8, <2>1, ToldStays
<1>9. CASE UNCHANGED vars
  BY <1>2, <1>9, ToldStays DEF vars
<1>. QED BY <1>1, <1>3, <1>4, <1>5, <1>6, <1>7, <1>8, <1>9

\* Told is inductive with the types.
LEMMA ToldNext ==
    ASSUME Types, Births, Told, [Next]_vars
    PROVE  Told'
<1>. SUFFICES ASSUME NEW t \in Tickets, t \notin disturbed', ticket'[t].status # "none"
              PROVE  ToldOf(t)'
  BY DEF Told
<1>1. ticket[t].status # "none" => ToldOf(t)
  BY DisturbedGrows DEF Told
<1>2. ASSUME NEW r \in Requests,
             \/ CountActive(r) \/ InsertFirstMessage(r) \/ FailFirstMessage(r)
             \/ InsertReply(r) \/ FailReply(r) \/ Tombstone(r) \/ Die(r)
             \/ \E cid, f : Submit(r, cid, f)
             \/ \E u : \/ BeginClose(r, u) \/ \E by, cid, f : BeginReply(r, by, u, cid, f)
                       \/ \E to, flip : BeginUpdate(r, u, to, flip)
                       \/ \E i : RemoveFile(r, u, i)
      PROVE  ToldOf(t)'
  BY <1>1, <1>2, ToldQuiet
<1>3. ASSUME NEW r \in Requests, ApplyReply(r) \/ WriteClose(r) \/ WriteUpdate(r) \/ WriteEvent(r)
      PROVE  ToldOf(t)'
  BY <1>1, <1>3, ToldRequests
<1>4. ASSUME \/ \E r \in Requests : \E u \in Tickets : InsertTicket(r, u)
             \/ \E u \in Tickets : AddNote(u) \/ Age(u) \/ CloseStale(u)
             \/ FindStale \/ TellStale \/ WorkerDies \/ UNCHANGED vars
      PROVE  ToldOf(t)'
  BY <1>1, <1>4, ToldOthers
<1>. QED BY <1>2, <1>3, <1>4 DEF Next

\* Between requests, the last status event of a ticket that no overlap and no
\* death disturbed names the status the ticket has.
THEOREM TrailCorrect == Spec => []TrailTellsStatus
<1>1. Init => Told
  BY DEF Init, Told, NoTicket
<1>2. Types /\ Told => TrailTellsStatus
  BY SupportAssumption DEF SupportAssumption, Told, ToldOf, TrailTellsStatus, Others, HalfDone, Telling
<1>3. Types /\ Births /\ Told /\ [Next]_vars => Told'
  BY ToldNext
<1>. QED BY <1>1, <1>2, <1>3, BirthsInit, BirthsNext, PTL DEF Spec

-----------------------------------------------------------------------------
(* The preview.                                                            *)

\* A step that leaves a ticket's preview, its public messages, and those who
\* have yet to apply one alone.
LEMMA PreviewStays ==
    ASSUME NEW t \in Tickets, PreviewedOf(t), ticket'[t].preview = ticket[t].preview,
           PublicOf(t)' = PublicOf(t), BeingBorn(t) => BeingBorn(t)',
           \A x \in Requests : /\ Inserted(x, t)' <=> Inserted(x, t)
                               /\ Inserted(x, t) => req'[x].at = req[x].at
    PROVE  PreviewedOf(t)'
BY DEF PreviewedOf

\* Which messages are public depends on the log only, and tombstones and notes
\* do not change it.
LEMMA PublicStays ==
    ASSUME Types, NEW t \in Tickets,
           log'[t] = log[t] \/ (\E r \in Requests : Tombstone(r)) \/ \E u \in Tickets : AddNote(u)
    PROVE  PublicOf(t)' = PublicOf(t)
<1>1. CASE log'[t] = log[t]
  BY <1>1 DEF PublicOf, MessagesOf
<1>2. ASSUME NEW r \in Requests, Tombstone(r) PROVE PublicOf(t)' = PublicOf(t)
  <2>1. MessagesOf(t)' = MessagesOf(t)
    BY <1>2, TombstoneLog DEF MessagesOf
  <2>2. \A i \in MessagesOf(t) : log'[t][i].note = log[t][i].note
    <3>. SUFFICES ASSUME NEW i \in MessagesOf(t) PROVE log'[t][i].note = log[t][i].note
      OBVIOUS
    <3>1. log[t][i] \in MessageRow
      BY DEF Types, MessagesOf
    <3>2. log'[t][i] = log[t][i] \/ log'[t][i] = [log[t][i] EXCEPT !.gone = TRUE]
      BY <1>2, TombstoneLog
    <3>. QED BY <3>1, <3>2 DEF MessageRow
  <2>. QED BY <2>1, <2>2 DEF PublicOf
<1>3. ASSUME NEW u \in Tickets, AddNote(u) PROVE PublicOf(t)' = PublicOf(t)
  <2>. DEFINE m == [Message(None, None) EXCEPT !.note = TRUE]
  <2>1. m \in MessageRow /\ m.note
    BY DEF Message, MessageRow
  <2>2. log' = [log EXCEPT ![u] = Append(@, m)] /\ Len(log[u]) < MaxLog
    BY <1>3 DEF AddNote
  <2>. HIDE DEF m
  <2>3. CASE t # u
    BY <2>2, <2>3 DEF PublicOf, MessagesOf, Types
  <2>4. CASE t = u
    <3>1. /\ Len(log'[t]) = Len(log[t]) + 1 /\ log'[t][Len(log[t]) + 1] = m
          /\ \A i \in MessagesOf(t) : log'[t][i] = log[t][i]
      BY <2>1, <2>2, <2>4, Grown
    <3>2. \A i : i \in MessagesOf(t)' <=> i \in MessagesOf(t) \/ i = Len(log[t]) + 1
      <4>1. Len(log[t]) \in Nat
        BY Request
      <4>. QED BY <3>1, <4>1 DEF MessagesOf
    <3>. QED BY <2>1, <3>1, <3>2 DEF PublicOf
  <2>. QED BY <2>3, <2>4
<1>. QED BY <1>1, <1>2, <1>3

\* The steps of one request that apply no reply and store no public message.
LEMMA PreviewQuiet ==
    ASSUME Types, NEW r \in Requests, NEW t \in Tickets, PreviewedOf(t),
           ~Inserted(r, t), ~Inserted(r, t)', req[r].pc = "ticketed" => req[r].t # t,
           \A x \in Requests : x # r => req'[x] = req[x],
           ticket'[t].preview = ticket[t].preview, PublicOf(t)' = PublicOf(t)
    PROVE  PreviewedOf(t)'
<1>1. \A x \in Requests : /\ Inserted(x, t)' <=> Inserted(x, t)
                          /\ Inserted(x, t) => req'[x].at = req[x].at
  BY DEF Inserted
<1>2. BeingBorn(t) => BeingBorn(t)'
  BY DEF BeingBorn
<1>. QED BY <1>1, <1>2, PreviewStays

\* The requests that store no message and write no reply.
LEMMA PreviewRequests ==
    ASSUME Types, Births, NEW r \in Requests, NEW t \in Tickets, ticket[t].status # "none" => PreviewedOf(t),
           \/ CountActive(r) \/ FailFirstMessage(r) \/ FailReply(r) \/ Tombstone(r) \/ Die(r)
           \/ WriteEvent(r) \/ WriteClose(r) \/ WriteUpdate(r)
           \/ \E cid, f : Submit(r, cid, f)
           \/ \E u : \/ BeginClose(r, u) \/ \E by, cid, f : BeginReply(r, by, u, cid, f)
                     \/ \E to, flip : BeginUpdate(r, u, to, flip)
                     \/ \E i : RemoveFile(r, u, i),
           t \notin disturbed', ticket'[t].status # "none"
    PROVE  PreviewedOf(t)'
<1>. USE DEF history, budget
<1>0. Idle.pc = "idle" /\ req[r] \in RequestRow /\ ticket \in [Tickets -> TicketRow]
  BY Request DEF Idle, Types
<1>1. ASSUME NEW row \in TicketRow
      PROVE  Closed(row).preview = row.preview /\ Updated(row, r).preview = row.preview
  BY DEF Closed, Updated, TicketRow
<1>2. ticket'[t].preview = ticket[t].preview /\ ticket[t].status # "none"
  <2>1. CASE FailFirstMessage(r)
    <3>1. ticket' = [ticket EXCEPT ![req[r].t] = NoTicket]
      BY <2>1 DEF FailFirstMessage
    <3>2. t # req[r].t
      BY <1>0, <3>1 DEF NoTicket
    <3>. QED BY <1>0, <3>1, <3>2
  <2>2. CASE CountActive(r) \/ FailReply(r) \/ Tombstone(r) \/ Die(r) \/ WriteEvent(r)
    BY <2>2 DEF CountActive, FailReply, Tombstone, Die, WriteEvent
  <2>3. CASE \E cid, f : Submit(r, cid, f)
    BY <2>3 DEF Submit
  <2>4. CASE \E u : \/ BeginClose(r, u) \/ \E by, cid, f : BeginReply(r, by, u, cid, f)
                    \/ \E to, flip : BeginUpdate(r, u, to, flip)
                    \/ \E i : RemoveFile(r, u, i)
    BY <2>4 DEF BeginClose, BeginReply, BeginUpdate, RemoveFile
  <2>5. CASE WriteClose(r) \/ WriteUpdate(r)
    <3>1. req[r].t \in Tickets /\ ticket[req[r].t].status # "none"
      BY <2>5, NotFresh DEF WriteClose, WriteUpdate, OnTicket, Fresh
    <3>2. \/ ticket' = [ticket EXCEPT ![req[r].t] = Closed(ticket[req[r].t])]
          \/ ticket' = [ticket EXCEPT ![req[r].t] = Updated(ticket[req[r].t], r)]
      BY <2>5 DEF WriteClose, WriteUpdate
    <3>3. CASE t = req[r].t
      BY <1>0, <1>1, <3>1, <3>2, <3>3
    <3>4. CASE t # req[r].t
      BY <1>0, <3>2, <3>4
    <3>. QED BY <3>3, <3>4
  <2>. QED BY <2>1, <2>2, <2>3, <2>4, <2>5
<1>3. PublicOf(t)' = PublicOf(t)
  <2>1. CASE Tombstone(r)
    BY <2>1, PublicStays
  <2>2. CASE CountActive(r) \/ FailFirstMessage(r) \/ FailReply(r) \/ Die(r) \/ WriteEvent(r)
             \/ WriteClose(r) \/ WriteUpdate(r)
    BY <2>2, PublicStays DEF CountActive, FailFirstMessage, FailReply, Die, WriteEvent, WriteClose, WriteUpdate
  <2>3. CASE \E cid, f : Submit(r, cid, f)
    BY <2>3, PublicStays DEF Submit
  <2>4. CASE \E u : \/ BeginClose(r, u) \/ \E by, cid, f : BeginReply(r, by, u, cid, f)
                    \/ \E to, flip : BeginUpdate(r, u, to, flip)
                    \/ \E i : RemoveFile(r, u, i)
    BY <2>4, PublicStays DEF BeginClose, BeginReply, BeginUpdate, RemoveFile
  <2>. QED BY <2>1, <2>2, <2>3, <2>4
<1>4. ~Inserted(r, t) /\ (req[r].pc = "ticketed" => req[r].t # t)
  <2>1. CASE Die(r)
    BY <2>1 DEF Die, HalfDone, Inserted
  <2>2. CASE FailFirstMessage(r)
    <3>1. ticket' = [ticket EXCEPT ![req[r].t] = NoTicket] /\ req[r].pc = "ticketed"
      BY <2>2 DEF FailFirstMessage
    <3>2. t # req[r].t
      BY <1>0, <3>1 DEF NoTicket
    <3>. QED BY <3>1, <3>2 DEF Inserted
  <2>3. CASE FailReply(r) \/ Tombstone(r) \/ WriteEvent(r) \/ WriteClose(r) \/ WriteUpdate(r)
    BY <2>3 DEF Inserted, FailReply, Tombstone, WriteEvent, WriteClose, WriteUpdate
  <2>4. CASE \E cid, f : Submit(r, cid, f)
    BY <2>4 DEF Submit, Inserted
  <2>5. CASE \E u : \/ BeginClose(r, u) \/ \E by, cid, f : BeginReply(r, by, u, cid, f)
                    \/ \E to, flip : BeginUpdate(r, u, to, flip)
                    \/ \E i : RemoveFile(r, u, i)
    BY <2>5, StartsClose, StartsReply, StartsUpdate, StartsRemove DEF Inserted
  <2>6. CASE CountActive(r)
    BY <2>6, StartsCount DEF Inserted
  <2>. QED BY <2>1, <2>2, <2>3, <2>4, <2>5, <2>6
<1>5. req'[r].pc # "inserted" /\ \A x \in Requests : x # r => req'[x] = req[x]
  <2>1. CASE WriteClose(r) \/ WriteUpdate(r)
    <3>1. \A to : [Idle EXCEPT !.pc = "telling", !.t = req[r].t, !.to = to].pc = "telling"
      BY DEF Idle
    <3>2. \A from, to : Leaves(r, from, to) => req'[r].pc # "inserted"
      BY <1>0, <3>1 DEF Leaves
    <3>. QED BY <2>1, <3>2, Continues
  <2>2. CASE FailFirstMessage(r) \/ FailReply(r) \/ Tombstone(r) \/ Die(r) \/ WriteEvent(r)
    BY <1>0, <2>2, Continues
  <2>3. CASE \E cid, f : Submit(r, cid, f)
    BY <1>0, <2>3, StartsSubmit DEF RequestRow
  <2>4. CASE \E u : \/ BeginClose(r, u) \/ \E by, cid, f : BeginReply(r, by, u, cid, f)
                    \/ \E to, flip : BeginUpdate(r, u, to, flip)
                    \/ \E i : RemoveFile(r, u, i)
    BY <2>4, StartsClose, StartsReply, StartsUpdate, StartsRemove
  <2>5. CASE CountActive(r)
    BY <2>5, StartsCount
  <2>. QED BY <2>1, <2>2, <2>3, <2>4, <2>5
<1>. QED BY <1>2, <1>3, <1>4, <1>5, PreviewQuiet DEF Inserted

\* A message that is stored publicly is the newest public one.
LEMMA PublicGrows ==
    ASSUME Types, NEW t \in Tickets, NEW m \in MessageRow, ~m.note, Len(log[t]) < MaxLog,
           log' = [log EXCEPT ![t] = Append(@, m)]
    PROVE  /\ Len(log[t]) \in Nat /\ PublicOf(t) \subseteq 1 .. Len(log[t])
           /\ PublicOf(t)' = PublicOf(t) \union {Len(log[t]) + 1}
           /\ \A u \in Tickets : u # t => PublicOf(u)' = PublicOf(u)
<1>1. /\ \A u \in Tickets : u # t => log'[u] = log[u]
      /\ Len(log'[t]) = Len(log[t]) + 1 /\ log'[t][Len(log[t]) + 1] = m
      /\ \A i \in MessagesOf(t) : log'[t][i] = log[t][i]
  BY Grown
<1>2. Len(log[t]) \in Nat
  BY Request
<1>3. \A i : i \in MessagesOf(t)' <=> i \in MessagesOf(t) \/ i = Len(log[t]) + 1
  BY <1>1, <1>2 DEF MessagesOf
<1>4. PublicOf(t)' = PublicOf(t) \union {Len(log[t]) + 1}
  BY <1>1, <1>3 DEF PublicOf
<1>5. PublicOf(t) \subseteq 1 .. Len(log[t])
  BY DEF PublicOf, MessagesOf
<1>. QED BY <1>1, <1>2, <1>4, <1>5, PublicStays

\* A reply that is inserted is the newest message, and known as not applied yet.
LEMMA PreviewInsert ==
    ASSUME Types, Births, NEW r \in Requests, NEW t \in Tickets, PreviewedOf(t), InsertReply(r)
    PROVE  PreviewedOf(t)'
<1>1. /\ req[r].t \in Tickets /\ ~Fresh(req[r].t) /\ req[r].pc = "loaded" /\ ticket' = ticket
      /\ req[r] \in RequestRow /\ Idle.pc = "idle" /\ Len(log[req[r].t]) < MaxLog
  BY NotFresh, Request DEF InsertReply, OnTicket, Idle
<1>2. \A x \in Requests : x # r => req'[x] = req[x]
  BY Continues
<1>3. CASE req'[r] = Idle /\ log' = log
  BY <1>1, <1>2, <1>3, PublicStays, PreviewQuiet DEF Inserted
<1>4. CASE /\ req'[r] = [req[r] EXCEPT !.pc = "inserted", !.at = Len(log[req[r].t]) + 1,
                                       !.file = None, !.cid = None]
           /\ log' = [log EXCEPT ![req[r].t] = Append(@, Message(req[r].cid, req[r].file))]
  <2>. DEFINE m == Message(req[r].cid, req[r].file)
              n == Len(log[t]) + 1
  <2>1. m \in MessageRow /\ ~m.note
    BY <1>1 DEF Message, MessageRow, RequestRow
  <2>2. req'[r].pc = "inserted" /\ req'[r].t = req[r].t /\ req'[r].at = Len(log[req[r].t]) + 1
    BY <1>1, <1>4 DEF RequestRow
  <2>3. log' = [log EXCEPT ![req[r].t] = Append(@, m)]
    BY <1>4
  <2>. HIDE DEF m
  <2>4. CASE t # req[r].t
    <3>1. PublicOf(t)' = PublicOf(t)
      BY <1>1, <2>1, <2>3, <2>4, PublicGrows
    <3>. QED BY <1>1, <1>2, <2>2, <2>4, <3>1, PreviewQuiet DEF Inserted
  <2>5. CASE t = req[r].t
    <3>1. /\ Len(log[t]) \in Nat /\ PublicOf(t) \subseteq 1 .. Len(log[t])
          /\ PublicOf(t)' = PublicOf(t) \union {n}
      BY <1>1, <2>1, <2>3, <2>5, PublicGrows
    <3>2. ticket[t].preview \in PublicOf(t)
      BY <1>1, <2>5 DEF PreviewedOf, Fresh
    <3>3. Inserted(r, t)' /\ req'[r].at = n
      BY <2>2, <2>5 DEF Inserted
    <3>4. \A x \in Requests : x # r => /\ Inserted(x, t)' <=> Inserted(x, t)
                                       /\ req'[x].at = req[x].at
      BY <1>2 DEF Inserted
    <3>5. ~Inserted(r, t)
      BY <1>1 DEF Inserted
    <3>6. ASSUME NEW i \in PublicOf(t)'
          PROVE  i <= ticket'[t].preview \/ \E x \in Requests : Inserted(x, t)' /\ req'[x].at = i
      <4>1. CASE i = n
        BY <3>3, <4>1
      <4>2. CASE i \in PublicOf(t)
        BY <1>1, <3>4, <3>5, <4>2 DEF PreviewedOf
      <4>. QED BY <3>1, <3>6, <4>1, <4>2
    <3>7. ASSUME NEW x \in Requests, Inserted(x, t)'
          PROVE  req'[x].at \in PublicOf(t)' /\ req'[x].at > ticket'[t].preview
      <4>1. CASE x = r
        <5>1. n > ticket[t].preview /\ n \in PublicOf(t)'
          BY <3>1, <3>2
        <5>. QED BY <1>1, <3>3, <4>1, <5>1
      <4>2. CASE x # r
        BY <1>1, <3>1, <3>4, <3>7, <4>2 DEF PreviewedOf
      <4>. QED BY <4>1, <4>2
    <3>. QED BY <1>1, <3>1, <3>2, <3>6, <3>7 DEF PreviewedOf
  <2>. QED BY <2>4, <2>5
<1>. QED BY <1>3, <1>4, Continues

\* A reply that is applied to an undisturbed ticket becomes its preview.
LEMMA PreviewApply ==
    ASSUME Types, Births, Readings, NEW r \in Requests, NEW t \in Tickets, PreviewedOf(t),
           ApplyReply(r), t \notin disturbed'
    PROVE  PreviewedOf(t)'
<1>1. /\ req[r].t \in Tickets /\ req[r].pc = "inserted" /\ req[r] \in RequestRow /\ Idle.pc = "idle"
      /\ ticket \in [Tickets -> TicketRow] /\ log' = log /\ Overlap(r)
      /\ ticket' = [ticket EXCEPT ![req[r].t] = IF @.status = "closed" THEN @ ELSE Answered(@, r)]
  BY Request DEF ApplyReply, OnTicket, Idle, Types
<1>2. PublicOf(t)' = PublicOf(t)
  BY <1>1, PublicStays
<1>3. req'[r].pc # "inserted" /\ \A x \in Requests : x # r => req'[x] = req[x]
  <2>1. \A to : [Idle EXCEPT !.pc = "telling", !.t = req[r].t, !.to = to].pc = "telling"
    BY DEF Idle
  <2>2. \A from, to : Leaves(r, from, to) => req'[r].pc # "inserted"
    BY <1>1, <2>1 DEF Leaves
  <2>. QED BY <2>2, Continues
<1>4. CASE t # req[r].t
  BY <1>1, <1>2, <1>3, <1>4, PreviewQuiet DEF Inserted
<1>5. CASE t = req[r].t
  <2>1. /\ ticket[t] = req[r].snap
        /\ \A x \in Requests : x # r => ~Inserted(x, t)
    BY <1>1, <1>5, Undisturbed DEF Inserted
  <2>2. ticket[t].status # "closed"
    BY <1>1, <2>1 DEF Readings
  <2>3. ticket'[t].preview = req[r].at
    <3>1. ticket'[t] = Answered(ticket[t], r)
      BY <1>1, <1>5, <2>2
    <3>. DEFINE snap == req[r].snap
                next == NextStatus(req[r].by, snap)
                staff == IF req[r].by = "staff" THEN req[r].at ELSE ticket[t].staff
                customer == IF req[r].by = "customer" THEN req[r].at ELSE ticket[t].customer
                answered == ticket[t].answered \/ req[r].by = "staff"
                status == IF next # snap.status THEN next ELSE ticket[t].status
                resolved == IF snap.status = "resolved" THEN 0 ELSE ticket[t].resolved
                aged == IF snap.status = "resolved" THEN FALSE ELSE ticket[t].aged
    <3>2. ticket'[t] = [ticket[t] EXCEPT !.preview = req[r].at, !.staff = staff, !.customer = customer,
                                         !.answered = answered, !.status = status,
                                         !.resolved = resolved, !.aged = aged]
      BY <3>1 DEF Answered
    <3>. HIDE DEF snap, next, staff, customer, answered, status, resolved, aged
    <3>3. ticket[t] \in TicketRow
      BY <1>1
    <3>. QED BY ONLY <3>2, <3>3 DEF TicketRow
  <2>4. req[r].at \in PublicOf(t) /\ req[r].at > ticket[t].preview
    BY <1>1, <1>5 DEF PreviewedOf, Inserted
  <2>5. \A x \in Requests : ~Inserted(x, t)'
    BY <1>3, <2>1 DEF Inserted
  <2>6. \A i \in PublicOf(t) : i <= req[r].at
    <3>1. \A i \in PublicOf(t) : i <= ticket[t].preview \/ i = req[r].at
      BY <2>1 DEF PreviewedOf
    <3>2. PublicOf(t) \subseteq Nat /\ ticket[t].preview \in Nat
      BY <1>1 DEF PublicOf, MessagesOf, TicketRow
    <3>. QED BY <2>4, <3>1, <3>2
  <2>. QED BY <1>2, <2>3, <2>4, <2>5, <2>6 DEF PreviewedOf
<1>. QED BY <1>4, <1>5

\* A ticket is born with the preview of its first message.
LEMMA PreviewBirth ==
    ASSUME Types, Births, NEW r \in Requests, NEW t \in Tickets, ticket[t].status # "none" => PreviewedOf(t),
           InsertFirstMessage(r) \/ \E u \in Tickets : InsertTicket(r, u),
           ticket'[t].status # "none"
    PROVE  PreviewedOf(t)'
<1>. USE DEF history, budget
<1>0. NewTicket.preview = 1
  BY DEF NewTicket, NoTicket
<1>1. CASE InsertFirstMessage(r)
  <2>1. /\ req[r].pc = "ticketed" /\ req[r].t \in Tickets /\ req[r] \in RequestRow /\ Idle.pc = "idle"
        /\ ticket' = ticket
        /\ log' = [log EXCEPT ![req[r].t] = Append(@, Message(None, req[r].file))]
    BY <1>1, Request DEF InsertFirstMessage, OnTicket, Idle
  <2>2. req'[r] = Idle /\ \A x \in Requests : x # r => req'[x] = req[x]
    BY <1>1, Continues
  <2>3. /\ log[req[r].t] = <<>> /\ ticket[req[r].t] = NewTicket
        /\ \A x \in Requests : x # r => req[x].t # req[r].t
    BY <2>1 DEF Births, NewTicket, Untouched
  <2>. DEFINE m == Message(None, req[r].file)
  <2>4. m \in MessageRow /\ ~m.note
    BY <2>1 DEF Message, MessageRow, RequestRow
  <2>5. log' = [log EXCEPT ![req[r].t] = Append(@, m)] /\ Len(log[req[r].t]) < MaxLog
    BY <2>1, <2>3, Request
  <2>. HIDE DEF m
  <2>6. CASE t # req[r].t
    <3>1. PublicOf(t)' = PublicOf(t)
      BY <2>1, <2>4, <2>5, <2>6, PublicGrows
    <3>. QED BY <2>1, <2>2, <2>6, <3>1, PreviewQuiet DEF Inserted
  <2>7. CASE t = req[r].t
    <3>1. PublicOf(t)' = {1}
      <4>1. /\ PublicOf(t) \subseteq 1 .. Len(log[t])
            /\ PublicOf(t)' = PublicOf(t) \union {Len(log[t]) + 1}
        BY <2>1, <2>4, <2>5, <2>7, PublicGrows
      <4>2. Len(log[t]) = 0
        BY <2>3, <2>7
      <4>. QED BY <4>1, <4>2
    <3>2. \A x \in Requests : ~Inserted(x, t)'
      BY <2>1, <2>2, <2>3, <2>7 DEF Inserted
    <3>. QED BY <1>0, <2>1, <2>3, <2>7, <3>1, <3>2 DEF PreviewedOf
  <2>. QED BY <2>6, <2>7
<1>2. ASSUME NEW u \in Tickets, InsertTicket(r, u) PROVE PreviewedOf(t)'
  <2>1. /\ ticket[u].status = "none" /\ req[r].pc = "uploaded" /\ log' = log
        /\ ticket'[u] = NewTicket /\ \A v \in Tickets : v # u => ticket'[v] = ticket[v]
    BY <1>2 DEF InsertTicket, NewTicket, Types
  <2>2. req'[r].pc = "ticketed" /\ req'[r].t = u
    <3>1. req[r] \in RequestRow /\ req'[r] = [req[r] EXCEPT !.pc = "ticketed", !.t = u]
      BY <1>2 DEF InsertTicket, Types
    <3>. QED BY <3>1 DEF RequestRow
  <2>3. \A x \in Requests : x # r =>
            req'[x].pc = req[x].pc /\ req'[x].t = req[x].t /\ req'[x].at = req[x].at
    BY <1>2, Raced
  <2>4. \A x \in Requests : /\ Inserted(x, t)' <=> Inserted(x, t)
                            /\ Inserted(x, t) => req'[x].at = req[x].at
    <3>1. ~Inserted(r, t) /\ ~Inserted(r, t)'
      BY <2>1, <2>2 DEF Inserted
    <3>2. \A x \in Requests : x # r => /\ Inserted(x, t)' <=> Inserted(x, t)
                                       /\ req'[x].at = req[x].at
      BY <2>3 DEF Inserted
    <3>. QED BY <3>1, <3>2
  <2>5. PublicOf(t)' = PublicOf(t)
    BY <2>1, PublicStays
  <2>6. CASE t # u
    <3>1. BeingBorn(t) => BeingBorn(t)'
      <4>. SUFFICES ASSUME NEW x \in Requests, req[x].pc = "ticketed", req[x].t = t PROVE BeingBorn(t)'
        BY DEF BeingBorn
      <4>1. x # r
        BY <2>1
      <4>. QED BY <2>3, <4>1 DEF BeingBorn
    <3>. QED BY <2>1, <2>4, <2>5, <2>6, <3>1, PreviewStays
  <2>7. CASE t = u
    <3>1. Untouched(t) /\ \A x \in Requests : req[x].t # t
      BY <2>1, <2>7 DEF Births
    <3>2. PublicOf(t) = {}
      <4>1. log[t] = <<>>
        BY <3>1 DEF Untouched
      <4>2. MessagesOf(t) = {}
        BY <4>1 DEF MessagesOf
      <4>. QED BY <4>2 DEF PublicOf
    <3>3. \A x \in Requests : ~Inserted(x, t)'
      BY <2>4, <3>1 DEF Inserted
    <3>4. BeingBorn(t)'
      BY <2>2, <2>7 DEF BeingBorn
    <3>. QED BY <2>5, <3>2, <3>3, <3>4 DEF PreviewedOf
  <2>. QED BY <2>6, <2>7
<1>. QED BY <1>1, <1>2

\* Notes, the passing of time and the job write no preview.
LEMMA PreviewJob ==
    ASSUME Types, NEW t \in Tickets, PreviewedOf(t),
           \/ \E u \in Tickets : AddNote(u) \/ Age(u) \/ CloseStale(u)
           \/ FindStale \/ TellStale \/ WorkerDies \/ UNCHANGED vars
    PROVE  PreviewedOf(t)'
<1>1. req' = req
  BY ReqStays
<1>2. PublicOf(t)' = PublicOf(t)
  BY PublicStays DEF Age, CloseStale, FindStale, TellStale, WorkerDies, vars
<1>3. ticket'[t].preview = ticket[t].preview
  <2>1. ticket \in [Tickets -> TicketRow]
    BY DEF Types
  <2>2. ASSUME NEW u \in Tickets, Age(u) PROVE ticket'[t].preview = ticket[t].preview
    BY <2>1, <2>2 DEF Age, TicketRow
  <2>3. ASSUME NEW u \in Tickets, CloseStale(u) PROVE ticket'[t].preview = ticket[t].preview
    BY <2>1, <2>3 DEF CloseStale, Closed, TicketRow
  <2>4. (\E u \in Tickets : AddNote(u)) \/ FindStale \/ TellStale \/ WorkerDies \/ UNCHANGED vars =>
            ticket' = ticket
    BY DEF AddNote, FindStale, TellStale, WorkerDies, vars
  <2>. QED BY <2>2, <2>3, <2>4
<1>. QED BY <1>1, <1>2, <1>3, PreviewStays DEF BeingBorn, Inserted

\* Previewed is inductive with the types and what replies read.
LEMMA PreviewNext ==
    ASSUME Types, Births, Readings, Previewed, [Next]_vars
    PROVE  Previewed'
<1>. SUFFICES ASSUME NEW t \in Tickets, t \notin disturbed', ticket'[t].status # "none"
              PROVE  PreviewedOf(t)'
  BY DEF Previewed
<1>1. ticket[t].status # "none" => PreviewedOf(t)
  BY DisturbedGrows DEF Previewed
<1>2. ASSUME NEW r \in Requests,
             \/ CountActive(r) \/ FailFirstMessage(r) \/ FailReply(r) \/ Tombstone(r) \/ Die(r)
             \/ WriteEvent(r) \/ WriteClose(r) \/ WriteUpdate(r)
             \/ \E cid, f : Submit(r, cid, f)
             \/ \E u : \/ BeginClose(r, u) \/ \E by, cid, f : BeginReply(r, by, u, cid, f)
                       \/ \E to, flip : BeginUpdate(r, u, to, flip)
                       \/ \E i : RemoveFile(r, u, i)
      PROVE  PreviewedOf(t)'
  BY <1>1, <1>2, PreviewRequests
<1>3. ASSUME NEW r \in Requests, InsertFirstMessage(r) \/ \E u \in Tickets : InsertTicket(r, u)
      PROVE  PreviewedOf(t)'
  BY <1>1, <1>3, PreviewBirth
<1>4. ASSUME NEW r \in Requests, InsertReply(r) PROVE PreviewedOf(t)'
  <2>1. ticket' = ticket
    BY <1>4 DEF InsertReply
  <2>. QED BY <1>1, <1>4, <2>1, PreviewInsert
<1>5. ASSUME NEW r \in Requests, ApplyReply(r) PROVE PreviewedOf(t)'
  <2>1. req[r].t \in Tickets /\ ticket[req[r].t].status # "none"
    BY <1>5, NotFresh DEF ApplyReply, OnTicket, Fresh
  <2>2. \A u \in Tickets : u # req[r].t => ticket'[u] = ticket[u]
    BY <1>5, <2>1 DEF ApplyReply, Types
  <2>3. ticket[t].status # "none"
    BY <2>1, <2>2
  <2>. QED BY <1>1, <1>5, <2>3, PreviewApply
<1>6. ASSUME \/ \E u \in Tickets : AddNote(u) \/ Age(u) \/ CloseStale(u)
             \/ FindStale \/ TellStale \/ WorkerDies \/ UNCHANGED vars
      PROVE  PreviewedOf(t)'
  <2>1. ticket[t].status # "none"
    <3>1. ticket \in [Tickets -> TicketRow]
      BY DEF Types
    <3>2. ASSUME NEW u \in Tickets, Age(u) PROVE ticket[t].status # "none"
      BY <3>1, <3>2 DEF Age, TicketRow
    <3>3. ASSUME NEW u \in Tickets, CloseStale(u) PROVE ticket[t].status # "none"
      <4>1. ticket[u].status # "none"
        BY <3>3 DEF CloseStale, Births, Untouched
      <4>. QED BY <3>1, <3>3, <4>1 DEF CloseStale
    <3>4. (\E u \in Tickets : AddNote(u)) \/ FindStale \/ TellStale \/ WorkerDies \/ UNCHANGED vars =>
              ticket' = ticket
      BY DEF AddNote, FindStale, TellStale, WorkerDies, vars
    <3>. QED BY <1>6, <3>2, <3>3, <3>4
  <2>. QED BY <1>1, <1>6, <2>1, PreviewJob
<1>. QED BY <1>2, <1>3, <1>4, <1>5, <1>6 DEF Next

\* Between requests, a ticket that no overlap and no death disturbed previews
\* its newest public message: never a note, never one that was not stored.
THEOREM PreviewCorrect == Spec => []PreviewIsNewest
<1>1. Init => Readings /\ Previewed
  BY DEF Init, Readings, Previewed, Idle, NoTicket
<1>2. Types /\ Previewed => PreviewIsNewest
  <2>. SUFFICES ASSUME Types, Previewed, NEW t \in Tickets \ disturbed, ticket[t].status # "none",
                       Others(t, None) = {}
                PROVE  /\ ticket[t].preview \in PublicOf(t)
                       /\ \A i \in PublicOf(t) : i <= ticket[t].preview
    BY DEF PreviewIsNewest
  <2>1. ~BeingBorn(t) /\ \A r \in Requests : ~Inserted(r, t)
    BY SupportAssumption DEF SupportAssumption, Others, HalfDone, BeingBorn, Inserted
  <2>. QED BY <2>1 DEF Previewed, PreviewedOf
<1>3. Types /\ Births /\ Readings /\ Previewed /\ [Next]_vars => Readings' /\ Previewed'
  BY ReadingsNext, PreviewNext
<1>. QED BY <1>1, <1>2, <1>3, BirthsInit, BirthsNext, PTL DEF Spec

-----------------------------------------------------------------------------
(* The cap on active tickets.                                              *)

\* A creation that counted the tickets and was not overtaken.
Counting(r) == req[r].pc \in {"counted", "uploaded"} /\ ~req[r].raced

\* The active tickets are finitely many, and fewer of them are not more.
LEMMA Fewer ==
    ASSUME Active' \subseteq Active
    PROVE  /\ Cardinality(Active) \in Nat /\ Cardinality(Active') \in Nat
           /\ Cardinality(Active') <= Cardinality(Active)
<1>1. IsFiniteSet(Active)
  <2>1. IsFiniteSet(Tickets) /\ Active \subseteq Tickets
    BY SupportAssumption DEF SupportAssumption, Active
  <2>. QED BY <2>1, FS_Subset
<1>. QED BY <1>1, FS_Subset, FS_CardinalityType

\* A step that makes no ticket active, and after which nobody counts who did not
\* before or finds room now.
LEMMA RoomStays ==
    ASSUME Room, excess => excess', ~excess' => Active' \subseteq Active,
           \A x \in Requests : Counting(x)' => Counting(x) \/ BelowCap
    PROVE  Room'
<1>. SUFFICES ASSUME ~excess'
              PROVE  /\ Cardinality(Active') <= MaxActive
                     /\ \A x \in Requests : Counting(x)' => Cardinality(Active') < MaxActive
  BY DEF Room, Counting, BelowCap
<1>1. /\ Cardinality(Active) \in Nat /\ Cardinality(Active') \in Nat
      /\ Cardinality(Active') <= Cardinality(Active) /\ MaxActive \in Nat
  BY Fewer, SupportAssumption DEF SupportAssumption
<1>2. Cardinality(Active) <= MaxActive /\ \A x \in Requests : Counting(x) => Cardinality(Active) < MaxActive
  BY DEF Room, Counting, BelowCap
<1>. QED BY <1>1, <1>2 DEF BelowCap

\* A creation that was not overtaken takes the room it counted.
LEMMA RoomTaken ==
    ASSUME Types, Room, NEW r \in Requests, NEW t \in Tickets, InsertTicket(r, t)
    PROVE  Room'
<1>. SUFFICES ASSUME ~excess'
              PROVE  /\ Cardinality(Active') <= MaxActive
                     /\ \A x \in Requests : ~Counting(x)'
  BY DEF Room, Counting
<1>1. ~excess /\ ~req[r].raced /\ req[r].pc = "uploaded" /\ req[r] \in RequestRow
  BY Request DEF InsertTicket, Types
<1>2. Cardinality(Active) < MaxActive
  BY <1>1 DEF Room, BelowCap
<1>3. Active' = Active \union {t} /\ t \notin Active
  <2>1. ticket \in [Tickets -> TicketRow] /\ ticket[t].status = "none" /\ NewTicket.status = "open"
        /\ ticket' = [ticket EXCEPT ![t] = NewTicket]
    BY DEF Types, InsertTicket, NewTicket, NoTicket
  <2>. QED BY <2>1 DEF Active, ActiveStatuses
<1>4. IsFiniteSet(Active) /\ Cardinality(Active) \in Nat /\ MaxActive \in Nat
  <2>1. IsFiniteSet(Tickets) /\ Active \subseteq Tickets /\ MaxActive \in Nat
    BY SupportAssumption DEF SupportAssumption, Active
  <2>. QED BY <2>1, FS_Subset, FS_CardinalityType
<1>5. Cardinality(Active') = Cardinality(Active) + 1
  BY <1>3, <1>4, FS_AddElement
<1>6. \A x \in Requests : ~Counting(x)'
  <2>1. req'[r] = [req[r] EXCEPT !.pc = "ticketed", !.t = t]
    BY DEF InsertTicket, Types
  <2>2. req'[r].pc = "ticketed"
    BY <1>1, <2>1 DEF RequestRow
  <2>3. \A x \in Requests : x # r =>
            req'[x].pc = req[x].pc /\ (req[x].pc \in {"counted", "uploaded"} => req'[x].raced)
    BY Raced
  <2>. QED BY <2>2, <2>3 DEF Counting
<1>. QED BY <1>2, <1>4, <1>5, <1>6

\* Every other step leaves room for those who counted it.
LEMMA RoomNext ==
    ASSUME Types, Births, Room, [Next]_vars
    PROVE  Room'
<1>. USE DEF history, budget
<1>0. ticket \in [Tickets -> TicketRow] /\ Idle.pc = "idle"
  BY DEF Types, Idle
<1>1. ASSUME NEW r \in Requests,
             \/ InsertFirstMessage(r) \/ InsertReply(r) \/ FailReply(r) \/ WriteEvent(r) \/ Tombstone(r)
             \/ Die(r) \/ FailFirstMessage(r) \/ ApplyReply(r) \/ WriteClose(r) \/ WriteUpdate(r)
      PROVE  Room'
  <2>1. req[r] \in RequestRow /\ \A x \in Requests : x # r => req'[x] = req[x]
    BY <1>1, Request, Continues
  <2>2. ~Counting(r)'
    <3>1. \A from, to : Leaves(r, from, to) => req'[r].pc \in {"idle", "telling"}
      <4>1. \A to : [Idle EXCEPT !.pc = "telling", !.t = req[r].t, !.to = to].pc = "telling"
        BY DEF Idle
      <4>. QED BY <1>0, <4>1 DEF Leaves
    <3>2. InsertReply(r) => req'[r].pc \in {"idle", "inserted"}
      BY <1>0, <2>1, Continues DEF RequestRow
    <3>3. InsertFirstMessage(r) \/ FailReply(r) \/ WriteEvent(r) \/ Tombstone(r) \/ Die(r)
             \/ FailFirstMessage(r) => req'[r].pc = "idle"
      BY <1>0, Continues
    <3>4. ApplyReply(r) \/ WriteClose(r) \/ WriteUpdate(r) => req'[r].pc \in {"idle", "telling"}
      BY <3>1, Continues
    <3>5. req'[r].pc \in {"idle", "telling", "inserted"}
      BY <1>1, <3>2, <3>3, <3>4
    <3>. QED BY <3>5 DEF Counting
  <2>3. \A x \in Requests : Counting(x)' => Counting(x)
    BY <2>1, <2>2 DEF Counting
  <2>4. CASE InsertFirstMessage(r) \/ InsertReply(r) \/ FailReply(r) \/ WriteEvent(r) \/ Tombstone(r) \/ Die(r)
    <3>1. ticket' = ticket /\ excess' = excess
      BY <2>4 DEF InsertFirstMessage, InsertReply, FailReply, WriteEvent, Tombstone, Die
    <3>2. Active' = Active
      BY <3>1 DEF Active
    <3>. QED BY <2>3, <3>1, <3>2, RoomStays
  <2>5. CASE FailFirstMessage(r)
    <3>1. excess' = excess /\ ticket' = [ticket EXCEPT ![req[r].t] = NoTicket]
      BY <2>5 DEF FailFirstMessage
    <3>2. Active' \subseteq Active
      BY <1>0, <3>1 DEF Active, NoTicket, ActiveStatuses
    <3>. QED BY <2>3, <3>1, <3>2, RoomStays
  <2>6. CASE WriteClose(r)
    <3>1. excess' = excess /\ ticket' = [ticket EXCEPT ![req[r].t] = Closed(ticket[req[r].t])]
      BY <2>6 DEF WriteClose
    <3>2. req[r].t \in Tickets
      BY <2>6, Request DEF WriteClose, OnTicket
    <3>3. Closed(ticket[req[r].t]).status = "closed"
      BY <1>0, <3>2 DEF Closed, TicketRow
    <3>4. Active' \subseteq Active
      BY <1>0, <3>1, <3>3 DEF Active, ActiveStatuses
    <3>. QED BY <2>3, <3>1, <3>4, RoomStays
  <2>7. CASE ApplyReply(r) \/ WriteUpdate(r)
    <3>1. excess' = (excess \/ Reactivates(req[r].t))
      BY <2>7 DEF ApplyReply, WriteUpdate
    <3>2. \A u \in Tickets : u # req[r].t => ticket'[u] = ticket[u]
      BY <1>0, <2>7 DEF ApplyReply, WriteUpdate
    <3>3. ~excess' => Active' \subseteq Active
      BY <3>1, <3>2 DEF Reactivates, Active
    <3>. QED BY <2>3, <3>1, <3>3, RoomStays
  <2>. QED BY <1>1, <2>4, <2>5, <2>6, <2>7
<1>2. ASSUME NEW r \in Requests,
             \/ CountActive(r) \/ \E cid, f : Submit(r, cid, f)
             \/ \E u : \/ BeginClose(r, u) \/ \E by, cid, f : BeginReply(r, by, u, cid, f)
                       \/ \E to, flip : BeginUpdate(r, u, to, flip)
                       \/ \E i : RemoveFile(r, u, i)
      PROVE  Room'
  <2>1. ticket' = ticket /\ excess' = excess
    BY <1>2 DEF CountActive, Submit, BeginClose, BeginReply, BeginUpdate, RemoveFile
  <2>2. Active' = Active
    BY <2>1 DEF Active
  <2>3. \A x \in Requests : Counting(x)' => Counting(x) \/ BelowCap
    <3>1. CASE CountActive(r)
      BY <3>1, StartsCount DEF CountActive, Counting
    <3>2. ASSUME NEW cid, NEW f, Submit(r, cid, f) PROVE \A x \in Requests : Counting(x)' => Counting(x)
      <4>1. req[r].pc = "counted" /\ req[r] \in RequestRow /\ \A x \in Requests : x # r => req'[x] = req[x]
        BY <3>2, Request, StartsSubmit DEF Submit
      <4>2. req'[r] = Idle \/ req'[r] = [req[r] EXCEPT !.pc = "uploaded", !.file = f]
        BY <3>2, StartsSubmit
      <4>3. req'[r].pc = "idle" \/ (req'[r].pc = "uploaded" /\ req'[r].raced = req[r].raced)
        BY <1>0, <4>1, <4>2 DEF RequestRow
      <4>. QED BY <4>1, <4>3 DEF Counting
    <3>3. CASE \E u : \/ BeginClose(r, u) \/ \E by, cid, f : BeginReply(r, by, u, cid, f)
                      \/ \E to, flip : BeginUpdate(r, u, to, flip)
                      \/ \E i : RemoveFile(r, u, i)
      <4>1. /\ \A x \in Requests : x # r => req'[x] = req[x]
            /\ req'[r].pc \in {"closing", "loaded", "updating", "removing"}
        BY <3>3, StartsClose, StartsReply, StartsUpdate, StartsRemove
      <4>. QED BY <4>1 DEF Counting
    <3>. QED BY <1>2, <3>1, <3>2, <3>3
  <2>. QED BY <2>1, <2>2, <2>3, RoomStays
<1>3. ASSUME \/ \E u \in Tickets : AddNote(u) \/ Age(u) \/ CloseStale(u)
             \/ FindStale \/ TellStale \/ WorkerDies \/ UNCHANGED vars
      PROVE  Room'
  <2>1. req' = req
    BY <1>3, ReqStays
  <2>2. excess' = excess
    BY <1>3 DEF AddNote, Age, CloseStale, FindStale, TellStale, WorkerDies, vars
  <2>3. Active' \subseteq Active
    <3>1. ASSUME NEW u \in Tickets, Age(u) PROVE Active' \subseteq Active
      <4>1. \A t \in Tickets : ticket'[t].status = ticket[t].status
        BY <1>0, <3>1 DEF Age, TicketRow
      <4>. QED BY <4>1 DEF Active
    <3>2. ASSUME NEW u \in Tickets, CloseStale(u) PROVE Active' \subseteq Active
      <4>1. ticket' = [ticket EXCEPT ![u] = Closed(ticket[u])] /\ Closed(ticket[u]).status = "closed"
        BY <1>0, <3>2 DEF CloseStale, Closed, TicketRow
      <4>. QED BY <1>0, <4>1 DEF Active, ActiveStatuses
    <3>3. (\E u \in Tickets : AddNote(u)) \/ FindStale \/ TellStale \/ WorkerDies \/ UNCHANGED vars =>
              ticket' = ticket
      BY DEF AddNote, FindStale, TellStale, WorkerDies, vars
    <3>4. ticket' = ticket => Active' = Active
      BY DEF Active
    <3>. QED BY <1>3, <3>1, <3>2, <3>3, <3>4
  <2>. QED BY <2>1, <2>2, <2>3, RoomStays DEF Counting
<1>4. ASSUME NEW r \in Requests, NEW u \in Tickets, InsertTicket(r, u) PROVE Room'
  BY <1>4, RoomTaken
<1>. QED BY <1>1, <1>2, <1>3, <1>4 DEF Next

\* The cap on active tickets is exceeded only when creations that overlap each
\* counted before the other's ticket existed, or when a ticket that was not
\* active becomes active again.
THEOREM CapCorrect == Spec => []CapExceededOnlyInRace
<1>1. Init => Room
  <2>. SUFFICES ASSUME Init PROVE Room
    OBVIOUS
  <2>1. Active = {}
    BY DEF Init, Active, NoTicket, ActiveStatuses
  <2>2. Cardinality(Active) = 0 /\ MaxActive \in Nat
    BY <2>1, FS_EmptySet, SupportAssumption DEF SupportAssumption
  <2>. QED BY <2>2 DEF Init, Room, Idle
<1>2. Room => CapExceededOnlyInRace
  BY DEF Room, CapExceededOnlyInRace
<1>3. Types /\ Births /\ Room /\ [Next]_vars => Room'
  BY RoomNext
<1>. QED BY <1>1, <1>2, <1>3, BirthsInit, BirthsNext, PTL DEF Spec

-----------------------------------------------------------------------------
(* Files.                                                                  *)

\* The request is emptying the message that carries the file.
Cleaning(x, f) == req[x].pc = "removing" /\ log[req[x].t][req[x].at].file = f

\* Attached, by the messages that carry the file.
LEMMA AttachedBy ==
    ASSUME NEW f \in Files
    PROVE  Attached(f) <=> \E t \in Tickets : \E i : Carries(t, i, f) /\ ~log[t][i].gone
BY SupportAssumption DEF SupportAssumption, Attached, Carries, CarriedBy

\* A request that goes on emptying a message goes on emptying that one.
LEMMA CleaningStays ==
    ASSUME Types, Extended, NEW x \in Requests, NEW f,
           req'[x].pc = req[x].pc, req'[x].t = req[x].t, req'[x].at = req[x].at
    PROVE  Cleaning(x, f)' <=> Cleaning(x, f)
<1>1. CASE req[x].pc = "removing"
  <2>1. req[x].t \in Tickets /\ req[x].at \in MessagesOf(req[x].t)
    BY <1>1, Request DEF OnTicket, Fits
  <2>2. log'[req[x].t][req[x].at].file = log[req[x].t][req[x].at].file
    BY <2>1 DEF Extended
  <2>. QED BY <2>2 DEF Cleaning
<1>2. CASE req[x].pc # "removing"
  BY <1>2 DEF Cleaning
<1>. QED BY <1>1, <1>2

\* A log that did not change carries the same files.
LEMMA LogKeeps ==
    ASSUME log' = log, NEW f \in Files
    PROVE  /\ \A t \in Tickets : \A i : Carries(t, i, f)' <=> Carries(t, i, f)
           /\ Attached(f)' <=> Attached(f)
BY DEF Carries, Attached, CarriedBy, MessagesOf

\* A message that is appended carries its file besides.
LEMMA LogAdds ==
    ASSUME Types, NEW t \in Tickets, NEW m \in MessageRow, Len(log[t]) < MaxLog, ~m.gone,
           log' = [log EXCEPT ![t] = Append(@, m)], NEW f \in Files
    PROVE  /\ Extended
           /\ \A u \in Tickets : \A j : Carries(u, j, f)' <=>
                 Carries(u, j, f) \/ (u = t /\ j = Len(log[t]) + 1 /\ m.file = f)
           /\ Attached(f)' <=> Attached(f) \/ m.file = f
<1>1. /\ Extended /\ \A u \in Tickets : u # t => log'[u] = log[u]
      /\ Len(log'[t]) = Len(log[t]) + 1 /\ log'[t][Len(log[t]) + 1] = m
      /\ \A i \in MessagesOf(t) : log'[t][i] = log[t][i]
  BY Grown
<1>2. Len(log[t]) \in Nat
  BY Request
<1>3. \A i : i \in MessagesOf(t)' <=> i \in MessagesOf(t) \/ i = Len(log[t]) + 1
  BY <1>1, <1>2 DEF MessagesOf
<1>4. \A u \in Tickets : u # t => MessagesOf(u)' = MessagesOf(u)
  BY <1>1 DEF MessagesOf
<1>5. Len(log[t]) + 1 \notin MessagesOf(t)
  BY <1>2 DEF MessagesOf
<1>6. \A u \in Tickets : \A j : Carries(u, j, f)' <=>
         Carries(u, j, f) \/ (u = t /\ j = Len(log[t]) + 1 /\ m.file = f)
  <2>. SUFFICES ASSUME NEW u \in Tickets, NEW j
                PROVE  Carries(u, j, f)' <=> Carries(u, j, f) \/ (u = t /\ j = Len(log[t]) + 1 /\ m.file = f)
    OBVIOUS
  <2>1. CASE u = t
    BY <1>1, <1>3, <1>5, <2>1 DEF Carries
  <2>2. CASE u # t
    BY <1>1, <1>4, <2>2 DEF Carries
  <2>. QED BY <2>1, <2>2
<1>7. \A u \in Tickets : \A j : Carries(u, j, f) => log'[u][j] = log[u][j]
  BY <1>1 DEF Carries
<1>8. Attached(f)' <=> \E u \in Tickets : \E i : Carries(u, i, f)' /\ ~log'[u][i].gone
  BY SupportAssumption DEF SupportAssumption, Attached, Carries, CarriedBy
<1>9. Attached(f)' <=> Attached(f) \/ m.file = f
  <2>1. ASSUME Attached(f)' PROVE Attached(f) \/ m.file = f
    <3>1. PICK u \in Tickets : \E i : Carries(u, i, f)' /\ ~log'[u][i].gone
      BY <1>8, <2>1
    <3>2. PICK i : Carries(u, i, f)' /\ ~log'[u][i].gone
      BY <3>1
    <3>3. CASE Carries(u, i, f)
      BY <1>7, <3>2, <3>3, AttachedBy
    <3>4. CASE m.file = f
      BY <3>4
    <3>. QED BY <1>6, <3>2, <3>3, <3>4
  <2>2. ASSUME Attached(f) PROVE Attached(f)'
    <3>1. PICK u \in Tickets : \E i : Carries(u, i, f) /\ ~log[u][i].gone
      BY <2>2, AttachedBy
    <3>2. PICK i : Carries(u, i, f) /\ ~log[u][i].gone
      BY <3>1
    <3>. QED BY <1>6, <1>7, <1>8, <3>2
  <2>3. ASSUME m.file = f PROVE Attached(f)'
    <3>1. PICK n : n = Len(log[t]) + 1
      OBVIOUS
    <3>2. Carries(t, n, f)' /\ ~log'[t][n].gone
      BY <1>1, <1>6, <2>3, <3>1
    <3>. QED BY <1>8, <3>2
  <2>. QED BY <2>1, <2>2, <2>3
<1>. QED BY <1>1, <1>6, <1>9

\* A step of one request that does not concern a file.
LEMMA FileStays ==
    ASSUME Types, Extended, NEW r \in Requests, NEW f \in Files, FileFacts(f),
           \A x \in Requests : x # r => req'[x] = req[x],
           Cleaning(r, f)' <=> Cleaning(r, f),
           req'[r].file = f <=> req[r].file = f,
           \A t \in Tickets : \A i : Carries(t, i, f)' <=> Carries(t, i, f),
           Attached(f)' <=> Attached(f), f \in disk' <=> f \in disk, lost \subseteq lost'
    PROVE  FileFacts(f)'
<1>1. \A x \in Requests : Cleaning(x, f)' <=> Cleaning(x, f)
  BY CleaningStays
<1>2. /\ Removing(f) <=> \E x \in Requests : Cleaning(x, f)
      /\ Removing(f)' <=> \E x \in Requests : Cleaning(x, f)'
  BY DEF Removing, Cleaning
<1>3. Removing(f)' <=> Removing(f)
  BY <1>1, <1>2
<1>4. \A x \in Requests : req'[x].file = f <=> req[x].file = f
  OBVIOUS
<1>5. Held(f)' <=> Held(f)
  BY <1>4 DEF Held
<1>. QED BY <1>3, <1>4, <1>5 DEF FileFacts

\* A file that is stored for a request is in nobody else's hands.
LEMMA FileStored ==
    ASSUME Types, Owned, NEW r \in Requests, NEW f \in FreshFiles, disk' = Stored(f),
           log' = log, lost' = lost, req[r].file = None, req'[r].file = f,
           req[r].pc # "removing", req'[r].pc # "removing",
           \A x \in Requests : x # r => req'[x] = req[x]
    PROVE  Owned'
<1>1. Extended
  BY LogStays
<1>2. None \notin Files
  BY Request
<1>3. ASSUME NEW g \in Files, g # f PROVE FileFacts(g)'
  <2>1. g \in disk' <=> g \in disk
    BY <1>3 DEF Stored
  <2>2. req'[r].file # g /\ req[r].file # g
    BY <1>2, <1>3
  <2>3. ~Cleaning(r, g) /\ ~Cleaning(r, g)'
    BY DEF Cleaning
  <2>. QED BY <1>1, <2>1, <2>2, <2>3, LogKeeps, FileStays DEF Owned
<1>4. ASSUME f \in Files PROVE FileFacts(f)'
  <2>1. f \notin disk /\ f \notin lost /\ \A t \in Tickets : \A i : ~Carries(t, i, f)
    BY <1>2, <1>4 DEF FreshFiles, Used, Carries
  <2>2. f \in disk'
    BY <1>2, <1>4 DEF Stored
  <2>3. \A t \in Tickets : \A i : ~Carries(t, i, f)'
    BY <1>4, <2>1, LogKeeps
  <2>4. ~Held(f)
    BY <1>4, <2>1 DEF Owned, FileFacts
  <2>5. \A x \in Requests : x # r => req'[x].file # f
    BY <2>4 DEF Held
  <2>6. Held(f)'
    BY DEF Held
  <2>7. ~Removing(f)'
    <3>1. \A x \in Requests : ~Cleaning(x, f)
      <4>1. \A x \in Requests : req[x].pc = "removing" => req[x].t \in Tickets /\ req[x].at \in MessagesOf(req[x].t)
        BY Request DEF OnTicket, Fits
      <4>. QED BY <2>1, <4>1 DEF Cleaning, Carries
    <3>2. \A x \in Requests : ~Cleaning(x, f)'
      BY <1>1, <3>1, CleaningStays DEF Cleaning
    <3>. QED BY <3>2 DEF Removing, Cleaning
  <2>. QED BY <2>2, <2>3, <2>5, <2>6, <2>7 DEF FileFacts
<1>. QED BY <1>3, <1>4 DEF Owned

\* A file of a request becomes its message's.
LEMMA FileInserted ==
    ASSUME Types, Owned, NEW r \in Requests, NEW t \in Tickets, NEW m \in MessageRow, ~m.gone,
           Len(log[t]) < MaxLog, log' = [log EXCEPT ![t] = Append(@, m)],
           disk' = disk, lost' = lost, m.file = req[r].file, req'[r].file = None,
           req[r].pc # "removing", req'[r].pc # "removing",
           \A x \in Requests : x # r => req'[x] = req[x]
    PROVE  Owned'
<1>1. None \notin Files /\ Len(log[t]) \in Nat
  BY Request
<1>2. ASSUME NEW g \in Files
      PROVE  /\ Extended
             /\ \A u \in Tickets : \A j : Carries(u, j, g)' <=>
                   Carries(u, j, g) \/ (u = t /\ j = Len(log[t]) + 1 /\ m.file = g)
             /\ Attached(g)' <=> Attached(g) \/ m.file = g
  BY LogAdds
<1>3. ASSUME NEW g \in Files, g # req[r].file PROVE FileFacts(g)'
  <2>1. ~Cleaning(r, g) /\ ~Cleaning(r, g)'
    BY DEF Cleaning
  <2>. QED BY <1>1, <1>2, <1>3, <2>1, FileStays DEF Owned
<1>4. ASSUME NEW f \in Files, f = req[r].file PROVE FileFacts(f)'
  <2>1. Held(f) /\ FileFacts(f)
    BY <1>4 DEF Held, Owned
  <2>2. \A x \in Requests : req'[x].file # f
    BY <1>1, <1>4, <2>1 DEF FileFacts
  <2>3. \A u \in Tickets : \A j : Carries(u, j, f)' <=> u = t /\ j = Len(log[t]) + 1
    BY <1>2, <1>4, <2>1 DEF FileFacts
  <2>4. Attached(f)' /\ ~Held(f)'
    BY <1>2, <1>4, <2>2 DEF Held
  <2>5. ~Removing(f)'
    <3>1. \A x \in Requests : ~Cleaning(x, f)
      <4>1. \A x \in Requests : req[x].pc = "removing" => req[x].t \in Tickets /\ req[x].at \in MessagesOf(req[x].t)
        BY Request DEF OnTicket, Fits
      <4>. QED BY <2>1, <4>1 DEF Cleaning, Carries, FileFacts
    <3>2. \A x \in Requests : ~Cleaning(x, f)'
      BY <1>2, <3>1, CleaningStays DEF Cleaning
    <3>. QED BY <3>2 DEF Removing, Cleaning
  <2>6. f \in disk' \/ f \in lost'
    BY <2>1 DEF FileFacts
  <2>. QED BY <2>2, <2>3, <2>4, <2>5, <2>6 DEF FileFacts
<1>. QED BY <1>3, <1>4 DEF Owned

\* The file of a request that gives up is removed.
LEMMA FileDropped ==
    ASSUME Types, Owned, NEW r \in Requests, disk' = Unlinked(req[r].file),
           log' = log, lost' = lost, req'[r].file = None, req[r].pc # "removing", req'[r].pc # "removing",
           \A x \in Requests : x # r => req'[x] = req[x]
    PROVE  Owned'
<1>1. Extended /\ None \notin Files
  BY LogStays, Request
<1>2. ASSUME NEW g \in Files, g # req[r].file PROVE FileFacts(g)'
  <2>1. g \in disk' <=> g \in disk
    BY <1>2 DEF Unlinked
  <2>2. ~Cleaning(r, g) /\ ~Cleaning(r, g)'
    BY DEF Cleaning
  <2>. QED BY <1>1, <1>2, <2>1, <2>2, LogKeeps, FileStays DEF Owned
<1>3. ASSUME NEW f \in Files, f = req[r].file PROVE FileFacts(f)'
  <2>1. Held(f) /\ FileFacts(f)
    BY <1>3 DEF Held, Owned
  <2>2. \A x \in Requests : req'[x].file # f
    BY <1>1, <1>3, <2>1 DEF FileFacts
  <2>3. ~Held(f)' /\ f \notin disk'
    BY <1>3, <2>2 DEF Held, Unlinked
  <2>4. \A u \in Tickets : \A j : ~Carries(u, j, f)'
    BY <2>1, LogKeeps DEF FileFacts
  <2>5. ~Attached(f)'
    BY <2>4 DEF Attached, Carries, CarriedBy
  <2>. QED BY <2>2, <2>3, <2>4, <2>5 DEF FileFacts
<1>. QED BY <1>2, <1>3 DEF Owned

\* The file of a message goes first, then the message is emptied.
LEMMA FileRemoved ==
    ASSUME Types, Owned, NEW r \in Requests, NEW t \in Tickets, NEW i \in MessagesOf(t), RemoveFile(r, t, i)
    PROVE  Owned'
<1>1. /\ req'[r].pc = "removing" /\ req'[r].t = t /\ req'[r].at = i /\ req'[r].file = None
      /\ req[r].pc = "idle" /\ \A x \in Requests : x # r => req'[x] = req[x]
  BY StartsRemove
<1>2. log' = log /\ lost' = lost /\ disk' = Unlinked(log[t][i].file)
  BY DEF RemoveFile, history
<1>3. /\ Extended /\ None \notin Files /\ req[r].file = None
  BY <1>1, <1>2, LogStays, Request DEF Fits, WithFile
<1>4. ASSUME NEW g \in Files, g # log[t][i].file PROVE FileFacts(g)'
  <2>1. g \in disk' <=> g \in disk
    BY <1>2, <1>4 DEF Unlinked
  <2>2. ~Cleaning(r, g) /\ ~Cleaning(r, g)'
    BY <1>1, <1>2, <1>4 DEF Cleaning
  <2>. QED BY <1>1, <1>2, <1>3, <2>1, <2>2, LogKeeps, FileStays DEF Owned
<1>5. ASSUME NEW f \in Files, f = log[t][i].file PROVE FileFacts(f)'
  <2>1. FileFacts(f) /\ Carries(t, i, f) /\ f \notin disk'
    BY <1>2, <1>5 DEF Owned, Carries, Unlinked
  <2>2. ~Held(f)
    BY <2>1 DEF FileFacts
  <2>3. \A x \in Requests : req'[x].file # f
    BY <1>1, <1>3, <2>2 DEF Held
  <2>4. Removing(f)'
    BY <1>1, <1>2, <1>5 DEF Removing
  <2>5. \A u, v \in Tickets : \A j, k : Carries(u, j, f)' /\ Carries(v, k, f)' => u = v /\ j = k
    BY <1>2, <2>1, LogKeeps DEF FileFacts
  <2>. QED BY <2>1, <2>3, <2>4, <2>5 DEF FileFacts, Held
<1>. QED BY <1>4, <1>5 DEF Owned

\* A tombstone is on the message whose file is gone already.
LEMMA FileEmptied ==
    ASSUME Types, Owned, NEW r \in Requests, Tombstone(r)
    PROVE  Owned'
<1>1. /\ req[r].pc = "removing" /\ req[r].t \in Tickets /\ req[r].at \in MessagesOf(req[r].t)
      /\ req[r].file = None /\ disk' = disk /\ lost' = lost /\ Idle.pc = "idle" /\ Idle.file = None
  BY Request DEF Tombstone, OnTicket, Fits, WithFile, history, Idle
<1>2. req'[r] = Idle /\ \A x \in Requests : x # r => req'[x] = req[x]
  BY Continues
<1>3. /\ Extended
      /\ \A t \in Tickets : MessagesOf(t)' = MessagesOf(t)
      /\ \A t \in Tickets : \A i \in MessagesOf(t) :
            /\ t # req[r].t \/ i # req[r].at => log'[t][i] = log[t][i]
            /\ t = req[r].t /\ i = req[r].at => log'[t][i] = [log[t][i] EXCEPT !.gone = TRUE]
  BY TombstoneLog DEF MessagesOf
<1>4. \A t \in Tickets : \A i : \A g \in Files : Carries(t, i, g)' <=> Carries(t, i, g)
  BY <1>3 DEF Carries, Extended
<1>5. log[req[r].t][req[r].at] \in MessageRow
  BY <1>1 DEF Types, MessagesOf
<1>6. log'[req[r].t][req[r].at].gone
  <2>1. log'[req[r].t][req[r].at] = [log[req[r].t][req[r].at] EXCEPT !.gone = TRUE]
    BY <1>1, <1>3
  <2>. QED BY <1>5, <2>1 DEF MessageRow
<1>7. ASSUME NEW g \in Files
      PROVE  Attached(g)' <=> \E t \in Tickets : \E i : Carries(t, i, g)' /\ ~log'[t][i].gone
  BY SupportAssumption DEF SupportAssumption, Attached, Carries, CarriedBy
<1>8. ASSUME NEW g \in Files, g # log[req[r].t][req[r].at].file PROVE FileFacts(g)'
  <2>1. \A t \in Tickets : \A i : Carries(t, i, g) => log'[t][i] = log[t][i]
    BY <1>3, <1>8 DEF Carries
  <2>2. Attached(g)' <=> Attached(g)
    BY <1>4, <1>7, <2>1, AttachedBy
  <2>3. ~Cleaning(r, g) /\ ~Cleaning(r, g)'
    BY <1>1, <1>2, <1>8 DEF Cleaning
  <2>4. req'[r].file # g /\ req[r].file # g
    BY <1>1, <1>2, Request
  <2>. QED BY <1>1, <1>2, <1>3, <1>4, <2>2, <2>3, <2>4, FileStays DEF Owned
<1>9. ASSUME NEW f \in Files, f = log[req[r].t][req[r].at].file PROVE FileFacts(f)'
  <2>1. FileFacts(f) /\ Carries(req[r].t, req[r].at, f) /\ Removing(f)
    BY <1>1, <1>9 DEF Owned, Carries, Removing
  <2>2. f \notin disk' /\ ~Held(f)
    BY <1>1, <2>1 DEF FileFacts
  <2>3. \A x \in Requests : req'[x].file # f
    <3>1. None # f
      BY Request
    <3>. QED BY <1>1, <1>2, <2>2, <3>1 DEF Held
  <2>4. \A t \in Tickets : \A i : Carries(t, i, f)' => t = req[r].t /\ i = req[r].at
    BY <1>1, <1>4, <2>1 DEF FileFacts
  <2>5. ~Attached(f)'
    BY <1>6, <1>7, <2>4
  <2>. QED BY <2>2, <2>3, <2>4, <2>5 DEF FileFacts, Held
<1>. QED BY <1>8, <1>9 DEF Owned

\* The files of a request that died are lost.
LEMMA FileLost ==
    ASSUME Types, Owned, NEW r \in Requests, Die(r)
    PROVE  Owned'
<1>1. /\ log' = log /\ disk' = disk /\ lost \subseteq lost' /\ Idle.pc = "idle" /\ Idle.file = None
      /\ \A f \in Files : req[r].file = f \/ Cleaning(r, f) => f \in lost'
  BY Request DEF Die, Cleaning, Idle
<1>2. req'[r] = Idle /\ (\A x \in Requests : x # r => req'[x] = req[x]) /\ Extended /\ None \notin Files
  BY <1>1, LogStays, Continues, Request
<1>3. ASSUME NEW g \in Files, req[r].file # g, ~Cleaning(r, g) PROVE FileFacts(g)'
  <2>1. ~Cleaning(r, g)' /\ req'[r].file # g
    BY <1>1, <1>2 DEF Cleaning
  <2>. QED BY <1>1, <1>2, <1>3, <2>1, LogKeeps, FileStays DEF Owned
<1>4. ASSUME NEW f \in Files, f \in lost' PROVE FileFacts(f)'
  <2>1. FileFacts(f)
    BY DEF Owned
  <2>2. \A x \in Requests : req'[x].file = f => req[x].file = f
    BY <1>1, <1>2
  <2>3. Removing(f)' => Removing(f)
    <3>1. \A x \in Requests : Cleaning(x, f)' => Cleaning(x, f)
      BY <1>1, <1>2, CleaningStays DEF Cleaning
    <3>. QED BY <3>1 DEF Removing, Cleaning
  <2>4. \A t \in Tickets : \A i : Carries(t, i, f)' <=> Carries(t, i, f)
    BY <1>1, LogKeeps
  <2>5. Held(f)' => Held(f)
    BY <2>2 DEF Held
  <2>. QED BY <1>1, <1>4, <2>1, <2>2, <2>3, <2>4, <2>5 DEF FileFacts
<1>. QED BY <1>1, <1>3, <1>4 DEF Owned

\* A step of one request that touches no file.
LEMMA FileQuiet ==
    ASSUME Types, Owned, NEW r \in Requests, \A x \in Requests : x # r => req'[x] = req[x],
           req[r].pc # "removing", req'[r].pc # "removing", req'[r].file = req[r].file,
           log' = log, disk' = disk, lost' = lost
    PROVE  Owned'
<1>1. Extended
  BY LogStays
<1>2. ASSUME NEW g \in Files PROVE FileFacts(g)'
  <2>1. ~Cleaning(r, g) /\ ~Cleaning(r, g)'
    BY DEF Cleaning
  <2>. QED BY <1>1, <2>1, LogKeeps, FileStays DEF Owned
<1>. QED BY <1>2 DEF Owned

\* The steps of replies and first messages.
LEMMA FileMessages ==
    ASSUME Types, Births, Owned, NEW r \in Requests,
           InsertFirstMessage(r) \/ FailFirstMessage(r) \/ InsertReply(r) \/ FailReply(r)
    PROVE  Owned'
<1>. USE DEF history
<1>1. /\ \A x \in Requests : x # r => req'[x] = req[x]
      /\ req[r] \in RequestRow /\ Idle.pc = "idle" /\ Idle.file = None
      /\ req[r].t \in Tickets /\ req[r].pc \in {"ticketed", "loaded"} /\ lost' = lost
  BY Request, Continues DEF Idle, InsertFirstMessage, FailFirstMessage, InsertReply, FailReply, OnTicket
<1>2. CASE FailFirstMessage(r) \/ FailReply(r)
  <2>1. log' = log /\ disk' = Unlinked(req[r].file) /\ req'[r] = Idle
    BY <1>2, Continues DEF FailFirstMessage, FailReply
  <2>. QED BY <1>1, <2>1, FileDropped
<1>3. ASSUME NEW m \in MessageRow, ~m.gone, m.file = req[r].file, Len(log[req[r].t]) < MaxLog,
             log' = [log EXCEPT ![req[r].t] = Append(@, m)], disk' = disk,
             req'[r].file = None, req'[r].pc # "removing"
      PROVE  Owned'
  BY <1>1, <1>3, FileInserted
<1>4. CASE InsertFirstMessage(r)
  <2>. DEFINE m == Message(None, req[r].file)
  <2>1. m \in MessageRow /\ ~m.gone /\ m.file = req[r].file
    BY <1>1 DEF Message, MessageRow, RequestRow
  <2>2. log' = [log EXCEPT ![req[r].t] = Append(@, m)] /\ disk' = disk /\ req'[r] = Idle
    BY <1>4, Continues DEF InsertFirstMessage
  <2>3. Len(log[req[r].t]) < MaxLog
    BY <1>1, <1>4, Request DEF InsertFirstMessage, Births, Untouched
  <2>. HIDE DEF m
  <2>. QED BY <1>1, <1>3, <2>1, <2>2, <2>3
<1>5. CASE InsertReply(r)
  <2>1. CASE req'[r] = Idle /\ log' = log /\ disk' = Unlinked(req[r].file)
    BY <1>1, <2>1, FileDropped
  <2>2. CASE /\ req'[r] = [req[r] EXCEPT !.pc = "inserted", !.at = Len(log[req[r].t]) + 1,
                                         !.file = None, !.cid = None]
             /\ log' = [log EXCEPT ![req[r].t] = Append(@, Message(req[r].cid, req[r].file))]
             /\ disk' = disk
    <3>. DEFINE m == Message(req[r].cid, req[r].file)
    <3>1. m \in MessageRow /\ ~m.gone /\ m.file = req[r].file
      BY <1>1 DEF Message, MessageRow, RequestRow
    <3>2. log' = [log EXCEPT ![req[r].t] = Append(@, m)] /\ Len(log[req[r].t]) < MaxLog
      BY <1>5, <2>2 DEF InsertReply
    <3>3. req'[r].pc = "inserted" /\ req'[r].file = None
      BY <1>1, <2>2 DEF RequestRow
    <3>. HIDE DEF m
    <3>. QED BY <1>3, <2>2, <3>1, <3>2, <3>3
  <2>. QED BY <1>5, <2>1, <2>2, Continues
<1>. QED BY <1>2, <1>4, <1>5

\* Owned is inductive with the types.
LEMMA OwnedNext ==
    ASSUME Types, Births, Owned, [Next]_vars
    PROVE  Owned'
<1>. USE DEF history, budget
<1>0. Idle.pc = "idle" /\ Idle.file = None /\ \A r \in Requests : Fits(r) /\ req[r] \in RequestRow
  BY Request DEF Idle
<1>1. ASSUME NEW r \in Requests,
             \/ InsertFirstMessage(r) \/ FailFirstMessage(r) \/ InsertReply(r) \/ FailReply(r)
             \/ Tombstone(r) \/ Die(r)
      PROVE  Owned'
  BY <1>1, FileMessages, FileEmptied, FileLost
<1>2. ASSUME NEW r \in Requests, ApplyReply(r) \/ WriteEvent(r) \/ WriteClose(r) \/ WriteUpdate(r)
      PROVE  Owned'
  <2>1. /\ req[r].pc \in {"inserted", "telling", "closing", "updating"}
        /\ log' = log /\ disk' = disk /\ lost' = lost
    BY <1>2 DEF ApplyReply, WriteEvent, WriteClose, WriteUpdate
  <2>2. req[r].file = None
    BY <1>0, <2>1 DEF Fits, WithFile
  <2>3. req'[r].pc # "removing" /\ req'[r].file = None /\ \A x \in Requests : x # r => req'[x] = req[x]
    <3>1. \A to : /\ [Idle EXCEPT !.pc = "telling", !.t = req[r].t, !.to = to].pc = "telling"
                  /\ [Idle EXCEPT !.pc = "telling", !.t = req[r].t, !.to = to].file = None
      BY DEF Idle
    <3>2. \A from, to : Leaves(r, from, to) => req'[r].pc # "removing" /\ req'[r].file = None
      BY <1>0, <3>1 DEF Leaves
    <3>. QED BY <1>0, <1>2, <3>2, Continues
  <2>. QED BY <2>1, <2>2, <2>3, FileQuiet
<1>3. ASSUME NEW r \in Requests, NEW u, BeginClose(r, u) \/ \E to, flip : BeginUpdate(r, u, to, flip) PROVE Owned'
  <2>1. /\ req'[r].pc \in {"closing", "updating"} /\ req'[r].file = None /\ req[r].pc = "idle"
        /\ \A x \in Requests : x # r => req'[x] = req[x]
    BY <1>3, StartsClose, StartsUpdate
  <2>2. req[r].file = None
    BY <1>0, <2>1 DEF Fits, WithFile
  <2>. QED BY <1>3, <2>1, <2>2, FileQuiet DEF BeginClose, BeginUpdate
<1>4. ASSUME NEW r \in Requests, CountActive(r) PROVE Owned'
  <2>1. req[r].file = None
    BY <1>0, <1>4, StartsCount DEF Fits, WithFile
  <2>. QED BY <1>4, <2>1, StartsCount, FileQuiet DEF CountActive
<1>5. ASSUME NEW r \in Requests, NEW cid, NEW f, Submit(r, cid, f) PROVE Owned'
  <2>1. /\ req[r].pc = "counted" /\ f \in FreshFiles /\ log' = log /\ lost' = lost
        /\ \A x \in Requests : x # r => req'[x] = req[x]
    BY <1>5, StartsSubmit DEF Submit
  <2>2. req[r].file = None
    BY <1>0, <2>1 DEF Fits, WithFile
  <2>3. CASE req'[r] = Idle /\ disk' = disk
    BY <1>0, <2>1, <2>2, <2>3, FileQuiet
  <2>4. CASE req'[r] = [req[r] EXCEPT !.pc = "uploaded", !.file = f] /\ disk' = Stored(f)
    <3>1. req'[r].pc = "uploaded" /\ req'[r].file = f
      BY <1>0, <2>4 DEF RequestRow
    <3>. QED BY <2>1, <2>2, <2>4, <3>1, FileStored
  <2>. QED BY <1>5, <2>3, <2>4, StartsSubmit
<1>6. ASSUME NEW r \in Requests, NEW u, NEW by, NEW cid, NEW f, BeginReply(r, by, u, cid, f) PROVE Owned'
  <2>1. /\ f \in FreshFiles /\ log' = log /\ lost' = lost /\ disk' = Stored(f)
    BY <1>6 DEF BeginReply
  <2>2. /\ req'[r].pc = "loaded" /\ req'[r].file = f /\ req[r].pc = "idle"
        /\ \A x \in Requests : x # r => req'[x] = req[x]
    BY <1>6, StartsReply
  <2>3. req[r].file = None
    BY <1>0, <2>2 DEF Fits, WithFile
  <2>. QED BY <2>1, <2>2, <2>3, FileStored
<1>7. ASSUME NEW r \in Requests, NEW u \in Tickets, NEW i \in MessagesOf(u), RemoveFile(r, u, i) PROVE Owned'
  BY <1>7, FileRemoved
<1>8. ASSUME NEW r \in Requests, NEW u \in Tickets, InsertTicket(r, u) PROVE Owned'
  <2>1. log' = log /\ disk' = disk /\ lost' = lost /\ Extended
    BY <1>8, LogStays DEF InsertTicket
  <2>2. \A x \in Requests : /\ req'[x].file = req[x].file
                            /\ req'[x].pc = "removing" <=> req[x].pc = "removing"
                            /\ req[x].pc = "removing" => req'[x].t = req[x].t /\ req'[x].at = req[x].at
    <3>1. /\ req[r].pc = "uploaded" /\ req'[r].pc = "ticketed" /\ req'[r].file = req[r].file
      <4>1. req[r].pc = "uploaded" /\ req'[r] = [req[r] EXCEPT !.pc = "ticketed", !.t = u]
        BY <1>8 DEF InsertTicket, Types
      <4>. QED BY <1>0, <4>1 DEF RequestRow
    <3>2. \A x \in Requests : x # r => /\ req'[x].file = req[x].file /\ req'[x].pc = req[x].pc
                                       /\ req'[x].t = req[x].t /\ req'[x].at = req[x].at
      BY <1>8, Raced
    <3>. QED BY <3>1, <3>2
  <2>3. ASSUME NEW g \in Files PROVE FileFacts(g)'
    <3>1. FileFacts(g)
      BY DEF Owned
    <3>2. Held(g)' <=> Held(g)
      BY <2>2 DEF Held
    <3>3. Removing(g)' <=> Removing(g)
      BY <2>1, <2>2 DEF Removing
    <3>. QED BY <2>1, <2>2, <3>1, <3>2, <3>3, LogKeeps DEF FileFacts
  <2>. QED BY <2>3 DEF Owned
<1>9. ASSUME req' = req, disk' = disk, lost' = lost,
             log' = log \/ \E u \in Tickets : AddNote(u)
      PROVE  Owned'
  <2>1. ASSUME NEW g \in Files
        PROVE  /\ Extended /\ \A t \in Tickets : \A i : Carries(t, i, g)' <=> Carries(t, i, g)
               /\ Attached(g)' <=> Attached(g)
    <3>1. CASE log' = log
      BY <3>1, LogStays, LogKeeps
    <3>2. ASSUME NEW u \in Tickets, AddNote(u)
          PROVE  /\ Extended /\ \A t \in Tickets : \A i : Carries(t, i, g)' <=> Carries(t, i, g)
                 /\ Attached(g)' <=> Attached(g)
      <4>. DEFINE m == [Message(None, None) EXCEPT !.note = TRUE]
      <4>1. m \in MessageRow /\ ~m.gone /\ m.file = None
        BY DEF Message, MessageRow
      <4>2. log' = [log EXCEPT ![u] = Append(@, m)] /\ Len(log[u]) < MaxLog
        BY <3>2 DEF AddNote
      <4>3. None # g
        BY SupportAssumption DEF SupportAssumption
      <4>. HIDE DEF m
      <4>. QED BY <4>1, <4>2, <4>3, LogAdds
    <3>. QED BY <1>9, <3>1, <3>2
  <2>2. ASSUME NEW g \in Files PROVE FileFacts(g)'
    <3>1. FileFacts(g) /\ Extended
      BY <2>1 DEF Owned
    <3>2. \A x \in Requests : Cleaning(x, g)' <=> Cleaning(x, g)
      BY <1>9, <3>1, CleaningStays
    <3>3. Removing(g)' <=> Removing(g)
      BY <3>2 DEF Removing, Cleaning
    <3>4. Held(g)' <=> Held(g)
      BY <1>9 DEF Held
    <3>. QED BY <1>9, <2>1, <3>1, <3>3, <3>4 DEF FileFacts
  <2>. QED BY <2>2 DEF Owned
<1>10. ASSUME \/ \E u \in Tickets : AddNote(u) \/ Age(u) \/ CloseStale(u)
              \/ FindStale \/ TellStale \/ WorkerDies \/ UNCHANGED vars
       PROVE  Owned'
  <2>1. req' = req
    BY <1>10, ReqStays
  <2>2. disk' = disk /\ lost' = lost /\ (log' = log \/ \E u \in Tickets : AddNote(u))
    BY <1>10 DEF AddNote, Age, CloseStale, FindStale, TellStale, WorkerDies, vars
  <2>. QED BY <1>9, <2>1, <2>2
<1>. QED BY <1>1, <1>2, <1>3, <1>4, <1>5, <1>6, <1>7, <1>8, <1>10 DEF Next

\* The store holds exactly the files of live attachments and of requests still
\* running, but for those a dead process had in its hands: no rejected or failed
\* message leaves a file behind, and no attachment loses its file.
THEOREM FilesCorrect == Spec => []FilesAccounted
<1>1. Init => Owned
  BY SupportAssumption DEF SupportAssumption, Init, Owned, FileFacts, Held, Removing, Attached, Carries,
     MessagesOf, CarriedBy, Idle
<1>2. Owned => FilesAccounted
  BY DEF Owned, FileFacts, FilesAccounted
<1>3. Types /\ Births /\ Owned /\ [Next]_vars => Owned'
  BY OwnedNext
<1>. QED BY <1>1, <1>2, <1>3, BirthsInit, BirthsNext, PTL DEF Spec

-----------------------------------------------------------------------------
(* The ticket book.                                                        *)

\* Times on an undisturbed ticket: nobody spoke after the message it previews, and
\* nobody spoke since it was resolved.
OrderlyOf(t) ==
    /\ ticket[t].customer <= ticket[t].preview /\ ticket[t].staff <= ticket[t].preview
    /\ ticket[t].status = "resolved" => ticket[t].customer < ticket[t].resolved

Orderly ==
    /\ \A t \in Tickets : ticket[t].status = "none" => ticket[t] = NoTicket
    /\ \A t \in Tickets \ disturbed : OrderlyOf(t)

\* What a ticket's row tells the book: whose turn it is, and whether a customer
\* who wrote after it was resolved is waiting.
Owed(row) == YourTurn(row) /\ Awaiting(row)
Unheard(row) == row.status = "resolved" /\ row.customer >= row.resolved
Said(row) == [customer |-> row.customer, staff |-> row.staff]

\* Two rows that are the same to the book.
Alike(row, old) ==
    /\ row.status = old.status /\ row.customer = old.customer /\ row.staff = old.staff
    /\ row.answered = old.answered /\ row.resolved = old.resolved

\* A step that changes nothing the book sees.
LEMMA BookSame ==
    ASSUME \A t \in Tickets : Alike(ticket'[t], ticket[t]),
           disturbed' = disturbed, expired' = expired
    PROVE  UNCHANGED Book!vars
<1>1. \A t \in Tickets : /\ YourTurn(ticket'[t]) <=> YourTurn(ticket[t])
                         /\ Awaiting(ticket'[t]) <=> Awaiting(ticket[t])
  BY DEF Alike, YourTurn, Awaiting
<1>. QED BY <1>1 DEF Book!vars, Alike

\* A step that writes one ticket changes one entry of each of the book's tables.
LEMMA BookRow ==
    ASSUME NEW t \in Tickets, \A u \in Tickets : u # t => ticket'[u] = ticket[u]
    PROVE  /\ [u \in Tickets |-> ticket'[u].status] =
                  [[u \in Tickets |-> ticket[u].status] EXCEPT ![t] = ticket'[t].status]
           /\ [u \in Tickets |-> Said(ticket'[u])] =
                  [[u \in Tickets |-> Said(ticket[u])] EXCEPT ![t] = Said(ticket'[t])]
           /\ [u \in Tickets |-> Owed(ticket'[u])] =
                  [[u \in Tickets |-> Owed(ticket[u])] EXCEPT ![t] = Owed(ticket'[t])]
           /\ [u \in Tickets |-> Unheard(ticket'[u])] =
                  [[u \in Tickets |-> Unheard(ticket[u])] EXCEPT ![t] = Unheard(ticket'[t])]
OBVIOUS

\* Whatever happens to a ticket that is disturbed from then on is allowed.
LEMMA BookDisturb ==
    ASSUME NEW t \in Tickets, \A u \in Tickets : u # t => ticket'[u] = ticket[u],
           ticket'[t].status \in Statuses, disturbed' = disturbed \union {t},
           expired' = expired \/ expired' = expired \union {t}
    PROVE  Book!Next
<1>1. Book!Disturb(t)
  <2>1. /\ Owed(ticket'[t]) \in BOOLEAN /\ Unheard(ticket'[t]) \in BOOLEAN
    BY DEF Owed, Unheard
  <2>. QED BY BookRow, <2>1 DEF Book!Disturb, Book!Statuses, Statuses, ActiveStatuses, Owed, Unheard, Said
<1>. QED BY <1>1 DEF Book!Next

\* A step that writes the row of an undisturbed ticket is one of the book's, if it
\* moves it as the book allows.
LEMMA BookWrite ==
    ASSUME NEW t \in Tickets, \A u \in Tickets : u # t => ticket'[u] = ticket[u],
           disturbed' = disturbed, ~Unheard(ticket'[t]),
           \/ /\ ticket[t] = NoTicket /\ ticket'[t] = NewTicket /\ expired' = expired
           \/ /\ ticket[t] = NewTicket /\ ticket'[t] = NoTicket /\ expired' = expired
           \/ /\ ticket[t].status \in Statuses \ {"closed"} /\ expired' = expired
              /\ \/ /\ ticket'[t].customer > ticket[t].customer
                    /\ ticket'[t].staff = ticket[t].staff
                    /\ ticket'[t].status \in {"open", "in_progress"} /\ Owed(ticket'[t])
                 \/ /\ ticket'[t].staff > ticket[t].staff
                    /\ ticket'[t].customer = ticket[t].customer
                    /\ ticket'[t].status \in {"in_progress", "waiting_for_customer"}
                    /\ ~Owed(ticket'[t])
           \/ /\ Said(ticket'[t]) = Said(ticket[t])
              /\ \/ /\ ticket[t].status \in Statuses /\ expired' = expired
                    /\ ticket'[t].status \in StaffTransitions[ticket[t].status]
                    /\ Owed(ticket'[t]) => ticket'[t].status = "in_progress"
                 \/ /\ ticket[t].status \in Statuses \ {"closed"} /\ expired' = expired
                    /\ ticket'[t].status = "closed"
                 \/ /\ ticket[t].status = "resolved" /\ ~Unheard(ticket[t])
                    /\ ticket'[t].status = "closed" /\ expired' = expired \union {t}
    PROVE  Book!Next
<1>. DEFINE status == [u \in Tickets |-> ticket[u].status]
            said == [u \in Tickets |-> [customer |-> ticket[u].customer, staff |-> ticket[u].staff]]
            turn == [u \in Tickets |-> Owed(ticket[u])]
            unheard == [u \in Tickets |-> Unheard(ticket[u])]
<1>1. /\ status' = [status EXCEPT ![t] = ticket'[t].status] /\ status[t] = ticket[t].status
      /\ turn' = [turn EXCEPT ![t] = Owed(ticket'[t])]
      /\ unheard' = [unheard EXCEPT ![t] = FALSE] /\ (unheard[t] <=> Unheard(ticket[t]))
      /\ said' = [said EXCEPT ![t] = Said(ticket'[t])] /\ said[t] = Said(ticket[t])
      /\ said'[t] = Said(ticket'[t])
  <2>1. status' = [status EXCEPT ![t] = ticket'[t].status] /\ status[t] = ticket[t].status
    BY BookRow
  <2>2. turn' = [turn EXCEPT ![t] = Owed(ticket'[t])]
    BY BookRow
  <2>3. unheard' = [unheard EXCEPT ![t] = Unheard(ticket'[t])] /\ (unheard[t] <=> Unheard(ticket[t]))
    BY BookRow
  <2>4. Unheard(ticket'[t]) = FALSE
    BY DEF Unheard
  <2>5. said' = [said EXCEPT ![t] = Said(ticket'[t])] /\ said[t] = Said(ticket[t])
        /\ said'[t] = Said(ticket'[t])
    BY BookRow DEF Said
  <2>. QED BY <2>1, <2>2, <2>3, <2>4, <2>5
<1>2. ASSUME ticket'[t].status = "closed" PROVE ~Owed(ticket'[t])
  BY <1>2 DEF Owed, YourTurn
<1>3. Said(ticket'[t]) = Said(ticket[t]) => said' = said
  BY <1>1
<1>4. /\ said[t].customer = ticket[t].customer /\ said[t].staff = ticket[t].staff
      /\ said'[t].customer = ticket'[t].customer /\ said'[t].staff = ticket'[t].staff
  BY <1>1 DEF Said
<1>5. said \in [Tickets -> [customer : {ticket[u].customer : u \in Tickets},
                            staff : {ticket[u].staff : u \in Tickets}]]
  OBVIOUS
<1>6. /\ ticket'[t].staff = ticket[t].staff => said' = [said EXCEPT ![t].customer = said'[t].customer]
      /\ ticket'[t].customer = ticket[t].customer => said' = [said EXCEPT ![t].staff = said'[t].staff]
  <2>1. ASSUME ticket'[t].staff = ticket[t].staff
        PROVE  said' = [said EXCEPT ![t].customer = ticket'[t].customer]
    BY <2>1
  <2>2. ASSUME ticket'[t].customer = ticket[t].customer
        PROVE  said' = [said EXCEPT ![t].staff = ticket'[t].staff]
    BY <2>2
  <2>. QED BY <1>4, <2>1, <2>2
<1>. DEFINE Becomes(s, owed) == /\ status' = [status EXCEPT ![t] = s]
                                /\ turn' = [turn EXCEPT ![t] = owed]
                                /\ unheard' = [unheard EXCEPT ![t] = FALSE]
<1>7. /\ Owed(ticket'[t]) => Becomes(ticket'[t].status, TRUE)
      /\ ~Owed(ticket'[t]) => Becomes(ticket'[t].status, FALSE)
  <2>. HIDE DEF status, turn, unheard
  <2>1. /\ Owed(ticket'[t]) => Owed(ticket'[t]) = TRUE
        /\ ~Owed(ticket'[t]) => Owed(ticket'[t]) = FALSE
    BY DEF Owed
  <2>. QED BY <1>1, <2>1
<1>8. \A s, owed : Becomes(s, owed) => Book!Become(t, s, owed)
  BY DEF Book!Become, Owed, Unheard
<1>9. CASE ticket[t] = NoTicket /\ ticket'[t] = NewTicket /\ expired' = expired
  <2>1. /\ ticket[t].status = "none" /\ Owed(ticket'[t]) /\ ticket'[t].status = "open"
        /\ ticket[t].customer = 0 /\ ticket[t].staff = 0 /\ ticket'[t].customer = 1 /\ ticket'[t].staff = 0
    BY <1>9 DEF NewTicket, NoTicket, Owed, YourTurn, Awaiting, ActiveStatuses
  <2>2. Book!Say(t, "customer")
    <3>1. said'[t].customer > said[t].customer /\ said' = [said EXCEPT ![t].customer = said'[t].customer]
      BY <1>4, <1>6, <2>1
    <3>. QED BY <3>1 DEF Book!Say
  <2>3. Book!Become(t, "open", TRUE) /\ status[t] = "none"
    BY <1>1, <1>7, <1>8, <2>1
  <2>4. Book!Open(t)
    BY <1>9, <2>2, <2>3 DEF Book!Open
  <2>. QED BY <2>4 DEF Book!Next
<1>10. CASE ticket[t] = NewTicket /\ ticket'[t] = NoTicket /\ expired' = expired
  <2>1. /\ ticket[t].status = "open" /\ ~Owed(ticket'[t]) /\ ticket'[t].status = "none"
        /\ ticket[t].staff = 0 /\ ticket'[t].customer = 0 /\ ticket'[t].staff = 0
    BY <1>10 DEF NewTicket, NoTicket, Owed, YourTurn
  <2>2. said' = [said EXCEPT ![t].customer = 0]
    BY <1>4, <1>6, <2>1
  <2>3. Book!Become(t, "none", FALSE) /\ status[t] = "open"
    BY <1>1, <1>7, <1>8, <2>1
  <2>4. Book!Withdraw(t)
    BY <1>10, <2>2, <2>3 DEF Book!Withdraw
  <2>. QED BY <2>4 DEF Book!Next
<1>11. CASE /\ ticket[t].status \in Statuses \ {"closed"} /\ expired' = expired
            /\ ticket'[t].customer > ticket[t].customer /\ ticket'[t].staff = ticket[t].staff
            /\ ticket'[t].status \in {"open", "in_progress"} /\ Owed(ticket'[t])
  <2>1. Book!Say(t, "customer")
    <3>1. said'[t].customer > said[t].customer /\ said' = [said EXCEPT ![t].customer = said'[t].customer]
      BY <1>4, <1>6, <1>11
    <3>. QED BY <3>1 DEF Book!Say
  <2>2. Book!Become(t, ticket'[t].status, TRUE) /\ status[t] \in Statuses \ {"closed"}
    BY <1>1, <1>7, <1>8, <1>11
  <2>3. Book!CustomerWrites(t)
    BY <1>11, <2>1, <2>2 DEF Book!CustomerWrites, Book!Alive, Book!Statuses, Statuses, ActiveStatuses
  <2>. QED BY <2>3 DEF Book!Next
<1>12. CASE /\ ticket[t].status \in Statuses \ {"closed"} /\ expired' = expired
            /\ ticket'[t].staff > ticket[t].staff /\ ticket'[t].customer = ticket[t].customer
            /\ ticket'[t].status \in {"in_progress", "waiting_for_customer"} /\ ~Owed(ticket'[t])
  <2>1. Book!Say(t, "staff")
    <3>1. said'[t].staff > said[t].staff /\ said' = [said EXCEPT ![t].staff = said'[t].staff]
      BY <1>4, <1>6, <1>12
    <3>. QED BY <3>1 DEF Book!Say
  <2>2. Book!Become(t, ticket'[t].status, FALSE) /\ status[t] \in Statuses \ {"closed"}
    BY <1>1, <1>7, <1>8, <1>12
  <2>3. Book!StaffWrites(t)
    BY <1>12, <2>1, <2>2 DEF Book!StaffWrites, Book!Alive, Book!Statuses, Statuses, ActiveStatuses
  <2>. QED BY <2>3 DEF Book!Next
<1>13. CASE /\ Said(ticket'[t]) = Said(ticket[t]) /\ ticket[t].status \in Statuses /\ expired' = expired
            /\ ticket'[t].status \in StaffTransitions[ticket[t].status]
            /\ Owed(ticket'[t]) => ticket'[t].status = "in_progress"
  <2>1. /\ ticket'[t].status \in Book!Moves[status[t]] /\ status[t] \in Statuses
    BY <1>1, <1>13 DEF StaffTransitions, Book!Moves
  <2>. DEFINE owes(owed) == owed /\ ticket'[t].status = "in_progress"
  <2>2. \E owed \in BOOLEAN : \/ Owed(ticket'[t]) /\ owes(owed) = TRUE
                              \/ ~Owed(ticket'[t]) /\ owes(owed) = FALSE
    <3>1. owes(FALSE) = FALSE
      OBVIOUS
    <3>2. CASE Owed(ticket'[t])
      <4>1. owes(TRUE) = TRUE
        BY <1>13, <3>2
      <4>. HIDE DEF owes
      <4>. QED BY <3>2, <4>1
    <3>3. CASE ~Owed(ticket'[t])
      <4>. HIDE DEF owes
      <4>. QED BY <3>1, <3>3
    <3>. QED BY <3>2, <3>3
  <2>3. PICK owed \in BOOLEAN : \/ Owed(ticket'[t]) /\ owes(owed) = TRUE
                                \/ ~Owed(ticket'[t]) /\ owes(owed) = FALSE
    BY <2>2
  <2>4. Book!Become(t, ticket'[t].status, owes(owed))
    <3>1. Becomes(ticket'[t].status, owes(owed))
      <4>. HIDE DEF owes, status, turn, unheard
      <4>. QED BY <1>7, <2>3
    <3>. HIDE DEF owes
    <3>. QED BY <3>1 DEF Book!Become, Owed, Unheard
  <2>5. \E s \in Book!Moves[status[t]], o \in BOOLEAN : Book!Become(t, s, o /\ s = "in_progress")
    <3>. DEFINE BecomesIf(s, o) == Book!Become(t, s, o /\ s = "in_progress")
    <3>1. BecomesIf(ticket'[t].status, owed)
      BY <2>4
    <3>. HIDE DEF BecomesIf
    <3>2. \E s \in Book!Moves[status[t]], o \in BOOLEAN : BecomesIf(s, o)
      BY <2>1, <2>3, <3>1
    <3>. QED BY <3>2 DEF BecomesIf
  <2>6. said' = said /\ status[t] \in Book!Statuses
    BY <1>3, <1>13, <2>1 DEF Book!Statuses, Statuses, ActiveStatuses
  <2>7. Book!StaffMoves(t)
    BY <1>13, <2>5, <2>6 DEF Book!StaffMoves
  <2>. QED BY <2>7 DEF Book!Next
<1>14. CASE /\ Said(ticket'[t]) = Said(ticket[t]) /\ ticket'[t].status = "closed"
            /\ \/ ticket[t].status \in Statuses \ {"closed"} /\ expired' = expired
               \/ /\ ticket[t].status = "resolved" /\ ~Unheard(ticket[t])
                  /\ expired' = expired \union {t}
  <2>1. Book!Become(t, "closed", FALSE) /\ status[t] = ticket[t].status /\ said' = said
    BY <1>1, <1>2, <1>3, <1>7, <1>8, <1>14
  <2>2. (unheard[t] <=> Unheard(ticket[t])) /\ "resolved" \in Statuses
    BY <1>1 DEF Statuses
  <2>3. Book!Close(t) \/ Book!Expire(t)
    BY <1>14, <2>1, <2>2 DEF Book!Close, Book!Expire, Book!Alive, Book!Statuses, Unheard, Statuses, ActiveStatuses
  <2>. QED BY <2>3 DEF Book!Next
<1>. QED BY <1>9, <1>10, <1>11, <1>12, <1>13, <1>14

\* The fields a reply writes.
LEMMA AnsweredRow ==
    ASSUME NEW r \in Requests, NEW row \in TicketRow
    PROVE  /\ Answered(row, r).preview = req[r].at
           /\ Answered(row, r).staff = IF req[r].by = "staff" THEN req[r].at ELSE row.staff
           /\ Answered(row, r).customer = IF req[r].by = "customer" THEN req[r].at ELSE row.customer
           /\ Answered(row, r).answered <=> row.answered \/ req[r].by = "staff"
           /\ Answered(row, r).status = IF NextStatus(req[r].by, req[r].snap) # req[r].snap.status
                                        THEN NextStatus(req[r].by, req[r].snap) ELSE row.status
<1>. DEFINE next == NextStatus(req[r].by, req[r].snap)
            staff == IF req[r].by = "staff" THEN req[r].at ELSE row.staff
            customer == IF req[r].by = "customer" THEN req[r].at ELSE row.customer
            answered == row.answered \/ req[r].by = "staff"
            status == IF next # req[r].snap.status THEN next ELSE row.status
            resolved == IF req[r].snap.status = "resolved" THEN 0 ELSE row.resolved
            aged == IF req[r].snap.status = "resolved" THEN FALSE ELSE row.aged
<1>1. Answered(row, r) = [row EXCEPT !.preview = req[r].at, !.staff = staff, !.customer = customer,
                                     !.answered = answered, !.status = status,
                                     !.resolved = resolved, !.aged = aged]
  BY DEF Answered
<1>2. /\ Answered(row, r).preview = req[r].at /\ Answered(row, r).staff = staff
      /\ Answered(row, r).customer = customer /\ Answered(row, r).answered = answered
      /\ Answered(row, r).status = status
  <2>. HIDE DEF next, staff, customer, answered, status, resolved, aged
  <2>. QED BY <1>1 DEF TicketRow
<1>. QED BY <1>2

\* The fields an update writes.
LEMMA UpdatedRow ==
    ASSUME NEW r \in Requests, NEW row \in TicketRow
    PROVE  /\ Updated(row, r).preview = row.preview /\ Updated(row, r).customer = row.customer
           /\ Updated(row, r).staff = row.staff /\ Updated(row, r).answered = row.answered
           /\ Updated(row, r).status = IF req[r].to # req[r].snap.status THEN req[r].to ELSE row.status
           /\ req[r].to = req[r].snap.status => Updated(row, r).resolved = row.resolved
           /\ req[r].to # req[r].snap.status /\ req[r].to = "resolved" =>
                 Updated(row, r).resolved = Len(log[req[r].t]) + 1
<1>. DEFINE moved == req[r].to # req[r].snap.status
            reopen == moved /\ req[r].to \in {"in_progress", "open"}
            status == IF moved THEN req[r].to ELSE row.status
            resolved == CASE moved /\ req[r].to = "resolved" -> Len(log[req[r].t]) + 1
                          [] reopen -> 0
                          [] OTHER -> row.resolved
            aged == IF reopen \/ (moved /\ req[r].to = "resolved") THEN FALSE ELSE row.aged
            closed == CASE moved /\ req[r].to = "closed" -> TRUE
                        [] reopen -> FALSE
                        [] OTHER -> row.closed
            assigned == IF req[r].flip THEN ~req[r].snap.assigned ELSE row.assigned
<1>1. Updated(row, r) = [row EXCEPT !.status = status, !.resolved = resolved, !.aged = aged,
                                    !.closed = closed, !.assigned = assigned]
  BY DEF Updated
<1>2. /\ Updated(row, r).preview = row.preview /\ Updated(row, r).customer = row.customer
      /\ Updated(row, r).staff = row.staff /\ Updated(row, r).answered = row.answered
      /\ Updated(row, r).status = status /\ Updated(row, r).resolved = resolved
  <2>. HIDE DEF moved, reopen, status, resolved, aged, closed, assigned
  <2>. QED BY <1>1 DEF TicketRow
<1>3. /\ req[r].to = req[r].snap.status => resolved = row.resolved
      /\ req[r].to # req[r].snap.status /\ req[r].to = "resolved" => resolved = Len(log[req[r].t]) + 1
  OBVIOUS
<1>. QED BY <1>2, <1>3

\* What a request that writes its ticket finds and leaves.
LEMMA Writes ==
    ASSUME Types, Births, NEW r \in Requests, ApplyReply(r) \/ WriteClose(r) \/ WriteUpdate(r)
    PROVE  /\ req[r].t \in Tickets /\ ticket[req[r].t].status \in Statuses /\ ~BeingBorn(req[r].t)
           /\ \A u \in Tickets : u # req[r].t => ticket'[u] = ticket[u]
           /\ log' = log /\ expired' = expired
           /\ disturbed' = disturbed \/ disturbed' = disturbed \union {req[r].t}
           /\ req[r].t \notin disturbed' => ticket[req[r].t] = req[r].snap
           /\ ApplyReply(r) => ticket'[req[r].t] = IF ticket[req[r].t].status = "closed" THEN ticket[req[r].t]
                                                   ELSE Answered(ticket[req[r].t], r)
           /\ WriteClose(r) => ticket'[req[r].t] = Closed(ticket[req[r].t])
           /\ WriteUpdate(r) => ticket'[req[r].t] = Updated(ticket[req[r].t], r)
<1>1. req[r].t \in Tickets /\ ~Fresh(req[r].t)
  BY NotFresh DEF ApplyReply, WriteClose, WriteUpdate, OnTicket
<1>2. ticket \in [Tickets -> TicketRow] /\ ticket[req[r].t].status \in Statuses
  BY <1>1 DEF Types, Fresh, TicketRow
<1>3. Overlap(r) /\ log' = log /\ expired' = expired
  BY DEF ApplyReply, WriteClose, WriteUpdate
<1>4. /\ ApplyReply(r) => ticket' = [ticket EXCEPT ![req[r].t] =
                              IF @.status = "closed" THEN @ ELSE Answered(@, r)]
      /\ WriteClose(r) => ticket' = [ticket EXCEPT ![req[r].t] = Closed(@)]
      /\ WriteUpdate(r) => ticket' = [ticket EXCEPT ![req[r].t] = Updated(@, r)]
  BY DEF ApplyReply, WriteClose, WriteUpdate
<1>5. /\ disturbed' = disturbed \/ disturbed' = disturbed \union {req[r].t}
      /\ req[r].t \notin disturbed' => ticket[req[r].t] = req[r].snap
  BY <1>3 DEF Overlap
<1>. QED BY <1>1, <1>2, <1>3, <1>4, <1>5 DEF Fresh

\* A reply that nothing overlapped.
LEMMA ReplyWrites ==
    ASSUME Types, Births, Readings, Previewed, Orderly, NEW r \in Requests, ApplyReply(r),
           NEW t \in Tickets, t = req[r].t, t \notin disturbed'
    PROVE  /\ OrderlyOf(t)' /\ ~Unheard(ticket'[t])
           /\ ticket[t].status \in Statuses \ {"closed"}
           /\ \/ /\ ticket'[t].customer > ticket[t].customer /\ ticket'[t].staff = ticket[t].staff
                 /\ ticket'[t].status \in {"open", "in_progress"} /\ Owed(ticket'[t])
              \/ /\ ticket'[t].staff > ticket[t].staff /\ ticket'[t].customer = ticket[t].customer
                 /\ ticket'[t].status \in {"in_progress", "waiting_for_customer"}
                 /\ ~Owed(ticket'[t])
<1>1. /\ ticket[t] = req[r].snap /\ ticket[t].status \in Statuses /\ t \notin disturbed
      /\ req[r].pc = "inserted" /\ req[r] \in RequestRow /\ ticket[t] \in TicketRow
  BY Writes, Request, DisturbedGrows DEF ApplyReply, Types, Overlap
<1>2. ticket[t].status # "closed"
  BY <1>1 DEF Readings
<1>3. ticket'[t] = Answered(ticket[t], r)
  BY <1>2, Writes
<1>4. req[r].at > ticket[t].preview
  BY <1>1 DEF Previewed, PreviewedOf, Inserted, Statuses, ActiveStatuses
<1>5. /\ ticket[t].customer <= ticket[t].preview /\ ticket[t].staff <= ticket[t].preview
      /\ ticket[t].customer \in Nat /\ ticket[t].staff \in Nat /\ ticket[t].preview \in Nat
      /\ req[r].at \in Nat /\ req[r].by \in Roles
  BY <1>1, SupportAssumption DEF SupportAssumption, Orderly, OrderlyOf, TicketRow, RequestRow
<1>6. /\ ticket'[t].preview = req[r].at
      /\ ticket'[t].staff = IF req[r].by = "staff" THEN req[r].at ELSE ticket[t].staff
      /\ ticket'[t].customer = IF req[r].by = "customer" THEN req[r].at ELSE ticket[t].customer
      /\ ticket'[t].status = NextStatus(req[r].by, ticket[t])
  BY <1>1, <1>3, AnsweredRow
<1>7. CASE req[r].by = "customer"
  <2>1. ticket'[t].status \in {"open", "in_progress"}
    BY <1>1, <1>2, <1>6, <1>7 DEF NextStatus, Statuses, ActiveStatuses
  <2>2. ticket'[t].customer > ticket[t].customer /\ ticket'[t].staff = ticket[t].staff
        /\ ticket'[t].customer > ticket'[t].staff
    BY <1>4, <1>5, <1>6, <1>7
  <2>3. Owed(ticket'[t])
    BY <2>1, <2>2 DEF Owed, YourTurn, Awaiting, ActiveStatuses
  <2>4. OrderlyOf(t)'
    BY <1>4, <1>5, <1>6, <1>7, <2>1 DEF OrderlyOf
  <2>. QED BY <1>1, <1>2, <2>1, <2>2, <2>3, <2>4 DEF Unheard
<1>8. CASE req[r].by = "staff"
  <2>1. ticket'[t].status \in {"in_progress", "waiting_for_customer"}
    BY <1>1, <1>2, <1>6, <1>8 DEF NextStatus, Statuses, ActiveStatuses
  <2>2. ticket'[t].staff > ticket[t].staff /\ ticket'[t].customer = ticket[t].customer
        /\ ~(ticket'[t].customer > ticket'[t].staff)
    BY <1>4, <1>5, <1>6, <1>8
  <2>3. ~Owed(ticket'[t])
    BY <2>1, <2>2 DEF Owed, YourTurn
  <2>4. OrderlyOf(t)'
    BY <1>4, <1>5, <1>6, <1>8, <2>1 DEF OrderlyOf
  <2>. QED BY <1>1, <1>2, <2>1, <2>2, <2>3, <2>4 DEF Unheard
<1>. QED BY <1>5, <1>7, <1>8 DEF Roles

\* An update that nothing overlapped.
LEMMA UpdateWrites ==
    ASSUME Types, Births, Readings, Previewed, Orderly, NEW r \in Requests, WriteUpdate(r),
           NEW t \in Tickets, t = req[r].t, t \notin disturbed'
    PROVE  /\ OrderlyOf(t)' /\ ticket[t].status \in Statuses
           /\ \/ Alike(ticket'[t], ticket[t])
              \/ /\ Said(ticket'[t]) = Said(ticket[t]) /\ ~Unheard(ticket'[t])
                 /\ ticket'[t].status \in StaffTransitions[ticket[t].status]
                 /\ Owed(ticket'[t]) => ticket'[t].status = "in_progress"
<1>1. /\ ticket[t] = req[r].snap /\ ticket[t].status \in Statuses /\ t \notin disturbed /\ ~BeingBorn(t)
      /\ req[r].pc = "updating" /\ ticket[t] \in TicketRow /\ ticket'[t] = Updated(ticket[t], r)
  BY Writes, DisturbedGrows DEF WriteUpdate, Types, Overlap
<1>2. req[r].to = ticket[t].status \/ req[r].to \in StaffTransitions[ticket[t].status]
  BY <1>1 DEF Readings
<1>3. /\ ticket'[t].preview = ticket[t].preview /\ ticket'[t].customer = ticket[t].customer
      /\ ticket'[t].staff = ticket[t].staff /\ ticket'[t].answered = ticket[t].answered
      /\ ticket'[t].status = req[r].to
      /\ req[r].to = ticket[t].status => ticket'[t].resolved = ticket[t].resolved
      /\ req[r].to # ticket[t].status /\ req[r].to = "resolved" =>
            ticket'[t].resolved = Len(log[t]) + 1
  BY <1>1, UpdatedRow
<1>4. OrderlyOf(t) /\ ticket[t].customer \in Nat /\ ticket[t].staff \in Nat
      /\ ticket[t].preview \in Nat /\ Len(log[t]) \in Nat
  BY <1>1, SupportAssumption DEF SupportAssumption, Orderly, TicketRow, Types
<1>5. CASE req[r].to = ticket[t].status
  <2>1. Alike(ticket'[t], ticket[t])
    BY <1>3, <1>5 DEF Alike
  <2>2. OrderlyOf(t)'
    BY <1>3, <1>4, <1>5 DEF OrderlyOf
  <2>. QED BY <1>1, <2>1, <2>2
<1>6. CASE req[r].to # ticket[t].status
  <2>1. ticket'[t].status \in StaffTransitions[ticket[t].status]
    BY <1>2, <1>3, <1>6
  <2>2. ticket[t].preview <= Len(log[t])
    BY <1>1, <1>4 DEF Previewed, PreviewedOf, PublicOf, MessagesOf, Statuses, ActiveStatuses
  <2>3. ticket'[t].status = "resolved" => ticket'[t].customer < ticket'[t].resolved
    BY <1>3, <1>4, <1>6, <2>2 DEF OrderlyOf
  <2>4. OrderlyOf(t)'
    BY <1>3, <1>4, <2>3 DEF OrderlyOf
  <2>5. ~Unheard(ticket'[t])
    <3>1. ticket'[t].status = "resolved" => ticket'[t].resolved \in Nat /\ ticket'[t].customer \in Nat
      BY <1>3, <1>4, <1>6
    <3>. QED BY <2>3, <3>1 DEF Unheard
  <2>6. ticket'[t].status # "open"
    BY <1>1, <2>1 DEF StaffTransitions, Statuses, ActiveStatuses
  <2>7. Owed(ticket'[t]) => ticket'[t].status = "in_progress"
    BY <2>6 DEF Owed, YourTurn
  <2>8. Said(ticket'[t]) = Said(ticket[t])
    BY <1>3 DEF Said
  <2>. QED BY <1>1, <2>1, <2>4, <2>5, <2>7, <2>8
<1>. QED BY <1>5, <1>6

\* Closing a ticket says nothing and keeps its times in order.
LEMMA CloseWrites ==
    ASSUME Types, NEW t \in Tickets, ticket'[t] = Closed(ticket[t])
    PROVE  /\ ticket'[t].status = "closed" /\ Said(ticket'[t]) = Said(ticket[t])
           /\ ~Unheard(ticket'[t]) /\ (OrderlyOf(t) => OrderlyOf(t)')
<1>1. /\ ticket'[t].status = "closed" /\ ticket'[t].customer = ticket[t].customer
      /\ ticket'[t].staff = ticket[t].staff /\ ticket'[t].preview = ticket[t].preview
  BY DEF Types, TicketRow, Closed
<1>. QED BY <1>1 DEF Said, Unheard, OrderlyOf

\* The steps of requests that write no ticket.
Reading(r) ==
    \/ CountActive(r) \/ InsertFirstMessage(r) \/ InsertReply(r) \/ FailReply(r) \/ WriteEvent(r)
    \/ Tombstone(r)
    \/ \E cid, f : Submit(r, cid, f)
    \/ \E u : \/ BeginClose(r, u) \/ \E by, cid, f : BeginReply(r, by, u, cid, f)
              \/ \E to, flip : BeginUpdate(r, u, to, flip)
              \/ \E i : RemoveFile(r, u, i)

\* They disturb no ticket either, nor do notes and what the job reads and tells.
LEMMA Reads ==
    ASSUME \/ \E r \in Requests : Reading(r)
           \/ (\E t : AddNote(t)) \/ FindStale \/ TellStale \/ UNCHANGED vars
    PROVE  ticket' = ticket /\ disturbed' = disturbed /\ expired' = expired
<1>. USE DEF history, budget
<1>1. \A r : CountActive(r) \/ InsertFirstMessage(r) \/ InsertReply(r) \/ FailReply(r) \/ WriteEvent(r)
             \/ Tombstone(r) => ticket' = ticket /\ disturbed' = disturbed /\ expired' = expired
  BY DEF CountActive, InsertFirstMessage, InsertReply, FailReply, WriteEvent, Tombstone
<1>2. \A r, t, cid, f : Submit(r, cid, f) \/ BeginClose(r, t) =>
             ticket' = ticket /\ disturbed' = disturbed /\ expired' = expired
  BY DEF Submit, BeginClose
<1>3. \A r, by, t, cid, f : BeginReply(r, by, t, cid, f) =>
             ticket' = ticket /\ disturbed' = disturbed /\ expired' = expired
  BY DEF BeginReply
<1>4. \A r, t, to, flip : BeginUpdate(r, t, to, flip) =>
             ticket' = ticket /\ disturbed' = disturbed /\ expired' = expired
  BY DEF BeginUpdate
<1>5. \A r, t, i : RemoveFile(r, t, i) =>
             ticket' = ticket /\ disturbed' = disturbed /\ expired' = expired
  BY DEF RemoveFile
<1>6. (\E t : AddNote(t)) \/ FindStale \/ TellStale \/ UNCHANGED vars =>
             ticket' = ticket /\ disturbed' = disturbed /\ expired' = expired
  BY DEF AddNote, FindStale, TellStale, vars
<1>. QED BY <1>1, <1>2, <1>3, <1>4, <1>5, <1>6 DEF Reading

\* A ticket's birth, and its withdrawal when the first message fails.
LEMMA BornOrWithdrawn ==
    ASSUME Types, Births, NEW r \in Requests, NEW t \in Tickets,
           InsertTicket(r, t) \/ (FailFirstMessage(r) /\ t = req[r].t)
    PROVE  /\ \A u \in Tickets : u # t => ticket'[u] = ticket[u]
           /\ disturbed' = disturbed /\ expired' = expired
           /\ InsertTicket(r, t) => ticket[t].status = "none" /\ ticket'[t] = NewTicket
           /\ FailFirstMessage(r) => ticket[t] = NewTicket /\ ticket'[t] = NoTicket
<1>1. CASE InsertTicket(r, t)
  <2>1. ~FailFirstMessage(r)
    BY <1>1 DEF InsertTicket, FailFirstMessage
  <2>. QED BY <1>1, <2>1 DEF InsertTicket, NewTicket, Types
<1>2. CASE FailFirstMessage(r) /\ t = req[r].t
  <2>1. ~InsertTicket(r, t)
    BY <1>2 DEF InsertTicket, FailFirstMessage
  <2>. QED BY <1>2, <2>1 DEF FailFirstMessage, NewTicket, Types, Births, history
<1>. QED BY <1>1, <1>2

\* A death or the job's close leaves or disturbs one ticket, and one that exists.
LEMMA Ends ==
    ASSUME Types, Births, Orderly,
           (\E r \in Requests : Die(r)) \/ WorkerDies \/ \E u \in Tickets : Age(u) \/ CloseStale(u)
    PROVE  \/ /\ disturbed' = disturbed /\ expired' = expired
              /\ \A u \in Tickets : ticket'[u] = ticket[u] \/ ticket'[u] = [ticket[u] EXCEPT !.aged = TRUE]
              /\ \A u \in Tickets : ticket[u].status = "none" => ticket'[u] = ticket[u]
           \/ \E t \in Tickets :
                 /\ ticket[t].status \in Statuses /\ disturbed' = disturbed \union {t}
                 /\ ticket' = ticket /\ expired' = expired
           \/ \E t \in Tickets :
                 /\ ticket[t].status \in Statuses /\ ticket'[t] = Closed(ticket[t])
                 /\ \A u \in Tickets : u # t => ticket'[u] = ticket[u]
                 /\ expired' = expired \union {t}
                 /\ \/ disturbed' = disturbed \union {t}
                    \/ disturbed' = disturbed /\ ticket[t].status = "resolved"
<1>1. ticket \in [Tickets -> TicketRow]
  BY DEF Types
<1>2. \A t \in Tickets : ticket[t].status # "none" => ticket[t].status \in Statuses
  BY <1>1 DEF TicketRow
<1>3. ASSUME NEW r \in Requests, Die(r)
      PROVE  /\ ticket' = ticket /\ expired' = expired
             /\ \/ disturbed' = disturbed
                \/ \E t \in Tickets : ticket[t].status # "none" /\ disturbed' = disturbed \union {t}
  <2>1. HalfDone(r) => req[r].t \in Tickets /\ ticket[req[r].t].status # "none"
    BY Request DEF HalfDone, OnTicket, Births
  <2>. QED BY <1>3, <2>1 DEF Die
<1>4. ASSUME WorkerDies
      PROVE  /\ ticket' = ticket /\ expired' = expired
             /\ \/ disturbed' = disturbed
                \/ \E t \in Tickets : ticket[t].status # "none" /\ disturbed' = disturbed \union {t}
  <2>1. job.pc = "telling" => job.t \in Tickets /\ ticket[job.t].status # "none"
    BY DEF Types, JobRow, Births, Untouched
  <2>. QED BY <1>4, <2>1 DEF WorkerDies
<1>5. ASSUME NEW t \in Tickets, Age(t)
      PROVE  /\ disturbed' = disturbed /\ expired' = expired
             /\ \A u \in Tickets : ticket'[u] = ticket[u] \/ ticket'[u] = [ticket[u] EXCEPT !.aged = TRUE]
             /\ \A u \in Tickets : ticket[u].status = "none" => ticket'[u] = ticket[u]
  <2>1. ticket[t].status # "none"
    BY <1>5 DEF Age, Orderly, NoTicket
  <2>. QED BY <1>1, <1>5, <2>1 DEF Age, history
<1>6. ASSUME NEW t \in Tickets, CloseStale(t)
      PROVE  /\ ticket[t].status # "none" /\ ticket'[t] = Closed(ticket[t])
             /\ \A u \in Tickets : u # t => ticket'[u] = ticket[u]
             /\ expired' = expired \union {t}
             /\ \/ disturbed' = disturbed \union {t}
                \/ disturbed' = disturbed /\ ticket[t].status = "resolved"
  BY <1>1, <1>6 DEF CloseStale, Births, Untouched, Expirable
<1>. QED BY <1>2, <1>3, <1>4, <1>5, <1>6

\* A step that writes one ticket keeps the times of all in order.
LEMMA OrderlyRow ==
    ASSUME Orderly, disturbed \subseteq disturbed', NEW t \in Tickets,
           \A u \in Tickets : u # t => ticket'[u] = ticket[u],
           ticket'[t].status = "none" => ticket'[t] = NoTicket,
           t \notin disturbed' => OrderlyOf(t)'
    PROVE  Orderly'
BY DEF Orderly, OrderlyOf

\* A step that changes nothing the book sees keeps them too.
LEMMA OrderlySame ==
    ASSUME Types, Orderly, disturbed \subseteq disturbed',
           \A u \in Tickets : ticket'[u] = ticket[u] \/ ticket'[u] = [ticket[u] EXCEPT !.aged = TRUE],
           \A u \in Tickets : ticket[u].status = "none" => ticket'[u] = ticket[u]
    PROVE  Orderly' /\ \A u \in Tickets : Alike(ticket'[u], ticket[u])
<1>1. \A u \in Tickets : /\ Alike(ticket'[u], ticket[u]) /\ ticket'[u].preview = ticket[u].preview
  BY DEF Types, TicketRow, Alike
<1>. QED BY <1>1 DEF Orderly, OrderlyOf, Alike

\* A request's write keeps the times in order, and is one the book allows.
LEMMA BookRequest ==
    ASSUME Types, Births, Readings, Previewed, Orderly, disturbed \subseteq disturbed',
           NEW r \in Requests, ApplyReply(r) \/ WriteClose(r) \/ WriteUpdate(r)
    PROVE  Orderly' /\ [Book!Next]_(Book!vars)
<1>0. PICK t \in Tickets : t = req[r].t
  BY Writes
<1>1. /\ t = req[r].t /\ ticket[t].status \in Statuses /\ ticket[t] \in TicketRow
      /\ \A u \in Tickets : u # t => ticket'[u] = ticket[u]
      /\ expired' = expired /\ (disturbed' = disturbed \/ disturbed' = disturbed \union {t})
      /\ t \notin disturbed' => ticket[t] = req[r].snap
  BY <1>0, Writes DEF Types
<1>2. req[r].pc \in {"inserted", "closing", "updating"} /\ Fits(r) /\ req[r] \in RequestRow
  BY Request DEF ApplyReply, WriteClose, WriteUpdate
<1>3. ticket'[t].status \in Statuses
  <2>1. CASE ApplyReply(r)
    <3>1. CASE ticket[t].status = "closed"
      BY <1>1, <2>1, <3>1, Writes
    <3>2. CASE ticket[t].status # "closed"
      <4>1. ticket'[t] = Answered(ticket[t], r)
        BY <1>1, <2>1, <3>2, Writes
      <4>. QED BY <1>1, <4>1, AnsweredRow, Rows
    <3>. QED BY <3>1, <3>2
  <2>2. CASE WriteClose(r)
    BY <1>1, <2>2, Writes, CloseWrites DEF Statuses
  <2>3. CASE WriteUpdate(r)
    <3>1. req[r].to \in Statuses
      BY <2>3 DEF Types, Fits, WriteUpdate
    <3>2. Updated(ticket[t], r).status = req[r].to \/ Updated(ticket[t], r).status = ticket[t].status
      BY <1>1, UpdatedRow
    <3>. QED BY <1>1, <2>3, <3>1, <3>2, Writes
  <2>. QED BY <2>1, <2>2, <2>3
<1>4. CASE t \in disturbed'
  <2>1. Orderly'
    BY <1>1, <1>3, <1>4, OrderlyRow DEF Statuses, ActiveStatuses
  <2>2. disturbed' = disturbed \union {t}
    BY <1>1, <1>4
  <2>. QED BY <1>1, <1>3, <2>1, <2>2, BookDisturb
<1>5. CASE t \notin disturbed'
  <2>1. OrderlyOf(t)' /\ disturbed' = disturbed /\ OrderlyOf(t)
    <3>1. disturbed' = disturbed /\ OrderlyOf(t)
      BY <1>1, <1>5 DEF Orderly
    <3>2. WriteClose(r) => ticket'[t] = Closed(ticket[t])
      BY <1>1, Writes
    <3>. QED BY <1>1, <1>5, <3>1, <3>2, ReplyWrites, UpdateWrites, CloseWrites
  <2>2. Orderly'
    BY <1>1, <1>3, <2>1, OrderlyRow DEF Statuses, ActiveStatuses
  <2>3. CASE ApplyReply(r)
    BY <1>1, <1>5, <2>1, <2>2, <2>3, ReplyWrites, BookWrite
  <2>4. CASE WriteClose(r)
    <3>1. ticket'[t] = Closed(ticket[t])
      BY <1>1, <2>4, Writes
    <3>2. CASE ticket[t].status # "closed"
      BY <1>1, <2>1, <2>2, <3>1, <3>2, CloseWrites, BookWrite
    <3>3. CASE ticket[t].status = "closed"
      <4>1. Alike(ticket'[t], ticket[t])
        BY <1>1, <3>1, <3>3 DEF Closed, TicketRow, Alike
      <4>2. \A u \in Tickets : Alike(ticket'[u], ticket[u])
        BY <1>1, <4>1 DEF Alike
      <4>. QED BY <1>1, <2>1, <2>2, <4>2, BookSame
    <3>. QED BY <3>2, <3>3
  <2>5. CASE WriteUpdate(r)
    <3>1. CASE Alike(ticket'[t], ticket[t])
      <4>1. \A u \in Tickets : Alike(ticket'[u], ticket[u])
        BY <1>1, <3>1 DEF Alike
      <4>. QED BY <1>1, <2>1, <2>2, <4>1, BookSame
    <3>2. CASE ~Alike(ticket'[t], ticket[t])
      BY <1>1, <1>5, <2>1, <2>2, <2>5, <3>2, UpdateWrites, BookWrite
    <3>. QED BY <3>1, <3>2
  <2>. QED BY <2>2, <2>3, <2>4, <2>5
<1>. QED BY <1>4, <1>5

\* Every step keeps the times in order and is a step or a stutter of the book.
LEMMA BookNext ==
    ASSUME Types, Births, Readings, Previewed, Orderly, [Next]_vars
    PROVE  Orderly' /\ [Book!Next]_(Book!vars)
<1>. DEFINE Goal == Orderly' /\ [Book!Next]_(Book!vars)
<1>. SUFFICES Goal
  OBVIOUS
<1>1. disturbed \subseteq disturbed'
  BY DisturbedGrows
<1>2. ASSUME ticket' = ticket, disturbed' = disturbed, expired' = expired PROVE Goal
  BY <1>2, OrderlySame, BookSame
<1>3. ASSUME \/ \E r \in Requests : Reading(r)
             \/ (\E t : AddNote(t)) \/ FindStale \/ TellStale \/ UNCHANGED vars
      PROVE  Goal
  BY <1>2, <1>3, Reads
<1>4. ASSUME NEW r \in Requests, ApplyReply(r) \/ WriteClose(r) \/ WriteUpdate(r) PROVE Goal
  BY <1>1, <1>4, BookRequest
<1>5. ASSUME NEW r \in Requests, NEW t \in Tickets,
             InsertTicket(r, t) \/ (FailFirstMessage(r) /\ t = req[r].t)
      PROVE  Goal
  <2>1. /\ \A u \in Tickets : u # t => ticket'[u] = ticket[u]
        /\ disturbed' = disturbed /\ expired' = expired
        /\ \/ ticket[t] = NoTicket /\ ticket'[t] = NewTicket
           \/ ticket[t] = NewTicket /\ ticket'[t] = NoTicket
    BY <1>5, BornOrWithdrawn DEF Orderly
  <2>. DEFINE row == ticket'[t]
  <2>2. \/ row.status = "open" /\ row.customer = 1 /\ row.preview = 1 /\ row.staff = 0
        \/ row = NoTicket /\ row.status = "none" /\ row.customer = 0 /\ row.preview = 0 /\ row.staff = 0
    <3>1. /\ NoTicket.status = "none" /\ NoTicket.customer = 0 /\ NoTicket.preview = 0
          /\ NoTicket.staff = 0
      BY DEF NoTicket
    <3>2. /\ NewTicket.status = "open" /\ NewTicket.customer = 1 /\ NewTicket.preview = 1
          /\ NewTicket.staff = NoTicket.staff
      BY Blanks DEF NewTicket, TicketRow
    <3>. QED BY <2>1, <3>1, <3>2
  <2>3. ~Unheard(row) /\ (row.status = "none" => row = NoTicket) /\ OrderlyOf(t)'
    BY <2>2 DEF Unheard, OrderlyOf
  <2>4. Orderly'
    BY <1>1, <2>1, <2>3, OrderlyRow
  <2>. QED BY <2>1, <2>3, <2>4, BookWrite
<1>6. ASSUME (\E r \in Requests : Die(r)) \/ WorkerDies \/ \E u \in Tickets : Age(u) \/ CloseStale(u)
      PROVE  Goal
  <2>1. CASE /\ disturbed' = disturbed /\ expired' = expired
             /\ \A u \in Tickets : ticket'[u] = ticket[u] \/ ticket'[u] = [ticket[u] EXCEPT !.aged = TRUE]
             /\ \A u \in Tickets : ticket[u].status = "none" => ticket'[u] = ticket[u]
    BY <2>1, OrderlySame, BookSame
  <2>2. ASSUME NEW t \in Tickets, ticket[t].status \in Statuses, disturbed' = disturbed \union {t},
               ticket' = ticket, expired' = expired
        PROVE  Goal
    <3>1. Orderly'
      BY <1>1, <2>2, OrderlySame
    <3>. QED BY <2>2, <3>1, BookDisturb
  <2>3. ASSUME NEW t \in Tickets, ticket[t].status \in Statuses, ticket'[t] = Closed(ticket[t]),
               \A u \in Tickets : u # t => ticket'[u] = ticket[u],
               expired' = expired \union {t},
               \/ disturbed' = disturbed \union {t}
               \/ disturbed' = disturbed /\ ticket[t].status = "resolved"
        PROVE  Goal
    <3>1. ticket'[t].status = "closed" /\ Said(ticket'[t]) = Said(ticket[t]) /\ ~Unheard(ticket'[t])
      BY <2>3, CloseWrites
    <3>2. Orderly'
      <4>1. t \notin disturbed' => OrderlyOf(t)'
        BY <1>1, <2>3, CloseWrites DEF Orderly
      <4>. QED BY <1>1, <2>3, <3>1, <4>1, OrderlyRow
    <3>3. CASE disturbed' = disturbed \union {t}
      BY <2>3, <3>1, <3>2, <3>3, BookDisturb DEF Statuses
    <3>4. CASE disturbed' = disturbed /\ t \notin disturbed
      <4>1. ticket[t].status = "resolved" /\ OrderlyOf(t) /\ ticket[t] \in TicketRow
        BY <2>3, <3>4 DEF Orderly, Types
      <4>2. ~Unheard(ticket[t])
        BY <4>1, SupportAssumption DEF SupportAssumption, Unheard, OrderlyOf, TicketRow
      <4>. QED BY <2>3, <3>1, <3>2, <3>4, <4>1, <4>2, BookWrite
    <3>. QED BY <2>3, <3>3, <3>4
  <2>. QED BY <1>6, <2>1, <2>2, <2>3, Ends
<1>7. ASSUME NEW r \in Requests, FailFirstMessage(r) PROVE Goal
  <2>1. req[r].t \in Tickets
    BY <1>7, Request DEF FailFirstMessage, OnTicket
  <2>. QED BY <1>5, <1>7, <2>1
<1>. HIDE DEF Goal
<1>. QED BY <1>3, <1>4, <1>5, <1>6, <1>7 DEF Next, Reading

\* Tickets keep the promises of the book, but for those two writers overlapped on
\* or a death left half done: requests behave as if each were one step.
THEOREM TicketBookCorrect == Spec => ImplementsTicketBook
<1>1. Init => Readings /\ Previewed /\ Orderly
  BY DEF Init, Readings, Previewed, Orderly, OrderlyOf, Idle, NoTicket
<1>2. Init => Book!Init
  <2>. SUFFICES ASSUME Init PROVE Book!Init
    OBVIOUS
  <2>1. \A t \in Tickets : /\ ticket[t].status = "none" /\ ticket[t].customer = 0 /\ ticket[t].staff = 0
                           /\ ~ticket[t].answered
    BY DEF Init, NoTicket
  <2>2. \A t \in Tickets : /\ (YourTurn(ticket[t]) /\ Awaiting(ticket[t])) = FALSE
                           /\ (ticket[t].status = "resolved" /\ ticket[t].customer >= ticket[t].resolved) = FALSE
    BY <2>1 DEF YourTurn
  <2>. QED BY <2>1, <2>2 DEF Init, Book!Init
<1>3. Types /\ Births /\ Readings /\ Previewed /\ Orderly /\ [Next]_vars =>
          Readings' /\ Previewed' /\ Orderly' /\ [Book!Next]_(Book!vars)
  BY ReadingsNext, PreviewNext, BookNext
<1>. QED BY <1>1, <1>2, <1>3, BirthsInit, BirthsNext, PTL DEF Spec, ImplementsTicketBook, Book!Spec
=============================================================================
