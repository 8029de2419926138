---------------------------- MODULE SupportTicket ----------------------------
(***************************************************************************)
(* The support desk (services/support.service.ts with the attachment store *)
(* of support-storage.service.ts): tickets of one organization, their      *)
(* messages and files, and the worker's auto-close job.                    *)
(*                                                                         *)
(* A request reads the ticket, decides on what it read, and writes later;  *)
(* one step is one awaited write, and the reads and the upload before it   *)
(* are one step with the ticket read, which is the only one another        *)
(* request can influence (see each action).  Time on a ticket is the       *)
(* number of its messages: every stored message is later than those        *)
(* before it.  A ticket is addressed by other requests once its creator    *)
(* is done with it.                                                        *)
(*                                                                         *)
(* Left out: subject, category, priority, previews' wording, smart context,*)
(* read cursors, ticket numbers (a $inc counter), and who may call what.   *)
(***************************************************************************)
EXTENDS Naturals, Sequences, FiniteSets

CONSTANTS Tickets,    \* ticket ids
          Requests,   \* requests handled at the same time
          ClientIds,  \* client_message_ids a retrying client sends
          Files,      \* files on disk, by their random storage key
          None,       \* no client id, no file, no ticket, no request
          MaxActive,  \* config.support.maxActivePerOrg
          MaxLog,     \* bound on the messages of a ticket
          MaxServed,  \* bound on the requests served
          MaxFaults   \* bound on failed writes and deaths of a process

ASSUME SupportAssumption ==
    /\ IsFiniteSet(Tickets) /\ IsFiniteSet(Requests) /\ IsFiniteSet(Files)
    /\ None \notin Tickets \union Requests \union ClientIds \union Files
    /\ MaxActive \in Nat \ {0} /\ MaxLog \in Nat \ {0} /\ MaxServed \in Nat /\ MaxFaults \in Nat

VARIABLES
    ticket,    \* tbl_support_ticket, by id
    log,       \* tbl_support_message: replies and notes of each ticket
    trail,     \* the status the ticket's last status event names
    disk,      \* the files the attachment store holds
    req,       \* where each request stands and what it read
    job,       \* the auto-close job
    served,    \* number of requests so far
    faults,    \* number of faults so far
    disturbed, \* history: tickets with overlapping or half done writes
    expired,   \* history: tickets closed by the auto-close
    lost,      \* history: files in the hands of a request that died
    excess     \* history: a ticket was created in a race or became active again

history == <<disturbed, expired, lost, excess>>
budget == <<served, faults>>
vars == <<ticket, log, trail, disk, req, job, served, faults, history>>

Roles == {"customer", "staff"}

ActiveStatuses == {"open", "in_progress", "waiting_for_customer"}
Statuses == ActiveStatuses \union {"resolved", "closed"}

StaffTransitions ==
    [open                 |-> {"in_progress", "waiting_for_customer", "resolved", "closed"},
     in_progress          |-> {"waiting_for_customer", "resolved", "closed"},
     waiting_for_customer |-> {"in_progress", "resolved", "closed"},
     resolved             |-> {"in_progress", "closed"},
     closed               |-> {}]

NoTicket == [status |-> "none", assigned |-> FALSE, resolved |-> 0, aged |-> FALSE,
             closed |-> FALSE, preview |-> 0, customer |-> 0, staff |-> 0,
             answered |-> FALSE]

Idle == [pc |-> "idle", by |-> "staff", t |-> None, snap |-> NoTicket, cid |-> None,
         file |-> None, at |-> 0, to |-> "none", flip |-> FALSE, raced |-> FALSE]

Active == {t \in Tickets : ticket[t].status \in ActiveStatuses}

(* Mutant: only tickets nobody has answered yet are counted. *)
BelowCapOpenOnly == Cardinality({t \in Tickets : ticket[t].status = "open"}) < MaxActive

\* config.support.maxActivePerOrg is compared with the number of active tickets.
BelowCap == Cardinality(Active) < MaxActive

MessagesOf(t) == 1..Len(log[t])
CarriedBy(t, i) == log[t][i].file # None /\ ~log[t][i].gone
Attached(f) == \E t \in Tickets : \E i \in MessagesOf(t) :
                  log[t][i].file = f /\ CarriedBy(t, i)
Used(f) == \/ f \in disk \/ f \in lost
           \/ \E t \in Tickets : \E i \in MessagesOf(t) : log[t][i].file = f
FreshFiles == {f \in Files : ~Used(f)} \union {None}
Stored(f) == IF f = None THEN disk ELSE disk \union {f}
Unlinked(f) == disk \ {f}

Init ==
    /\ ticket = [t \in Tickets |-> NoTicket]
    /\ log = [t \in Tickets |-> <<>>]
    /\ trail = [t \in Tickets |-> "open"]
    /\ disk = {}
    /\ req = [r \in Requests |-> Idle]
    /\ job = [pc |-> "idle", stale |-> {}, t |-> None]
    /\ served = 0 /\ faults = 0
    /\ disturbed = {} /\ expired = {} /\ lost = {} /\ excess = FALSE

Serve ==
    /\ served < MaxServed
    /\ served' = served + 1

Begin(r, state) ==
    /\ req[r].pc = "idle"
    /\ Serve
    /\ req' = [req EXCEPT ![r] = state]

Finish(r) == req' = [req EXCEPT ![r] = Idle]

\* A request that has written part of what it writes.
HalfDone(r) == req[r].pc \in {"ticketed", "inserted", "telling"}
Others(t, r) == {x \in Requests \ {r} : req[x].t = t /\ HalfDone(x)}

\* A request writes a ticket it read as `snap`: it overlooks what was written in
\* between, and overtakes or is overtaken by those that are half done.
Overlap(r) ==
    LET t == req[r].t IN
    disturbed' = IF ticket[t] = req[r].snap /\ Others(t, r) = {} /\ job.t # t
                 THEN disturbed ELSE disturbed \union {t}

Reactivates(t) == ticket[t].status \notin ActiveStatuses /\ ticket'[t].status \in ActiveStatuses

\* The ticket is being created by a request that is still running.
BeingBorn(t) == \E r \in Requests : req[r].pc = "ticketed" /\ req[r].t = t

Addressable(t) == ticket[t].status # "none" /\ ~BeingBorn(t)

-----------------------------------------------------------------------------
(* createTicket.                                                           *)

CountActive(r) ==
    /\ BelowCap
    /\ Begin(r, [Idle EXCEPT !.pc = "counted"])
    /\ UNCHANGED <<ticket, log, trail, disk, job, faults, history>>

\* The look-up by client_message_id, and saveAttachments.  A reply that carries
\* the same id answers the request with its ticket.
Submit(r, cid, f) ==
    /\ req[r].pc = "counted"
    /\ f \in FreshFiles
    /\ IF cid # None /\ \E t \in Tickets : \E i \in MessagesOf(t) : log[t][i].cid = cid
       THEN Finish(r) /\ UNCHANGED disk
       ELSE /\ req' = [req EXCEPT ![r].pc = "uploaded", ![r].file = f]
            /\ disk' = Stored(f)
    /\ UNCHANGED <<ticket, log, trail, job, budget, history>>

InsertTicket(r, t) ==
    /\ req[r].pc = "uploaded"
    /\ ticket[t].status = "none"
    /\ ticket' = [ticket EXCEPT ![t] = [NoTicket EXCEPT !.status = "open",
                                                        !.preview = 1, !.customer = 1]]
    \* those that counted before this ticket existed may exceed the cap
    /\ req' = [x \in Requests |->
                 IF x = r THEN [req[r] EXCEPT !.pc = "ticketed", !.t = t]
                 ELSE IF req[x].pc \in {"counted", "uploaded"}
                      THEN [req[x] EXCEPT !.raced = TRUE] ELSE req[x]]
    /\ excess' = (excess \/ req[r].raced)
    /\ UNCHANGED <<log, trail, disk, job, budget, disturbed, expired, lost>>

Message(cid, f) == [cid |-> cid, file |-> f, note |-> FALSE, gone |-> FALSE]

\* The first message is stored without the client_message_id of the request.
InsertFirstMessage(r) ==
    /\ req[r].pc = "ticketed"
    /\ log' = [log EXCEPT ![req[r].t] = Append(@, Message(None, req[r].file))]
    /\ Finish(r)
    /\ UNCHANGED <<ticket, trail, disk, job, budget, history>>

\* The first message cannot be written: files and ticket are removed again.
FailFirstMessage(r) ==
    /\ req[r].pc = "ticketed" /\ faults < MaxFaults
    /\ faults' = faults + 1
    /\ disk' = Unlinked(req[r].file)
    /\ ticket' = [ticket EXCEPT ![req[r].t] = NoTicket]
    /\ Finish(r)
    /\ UNCHANGED <<log, trail, job, served, history>>

-----------------------------------------------------------------------------
(* addMessage.                                                             *)

Find(t, cid) == cid # None /\ \E i \in MessagesOf(t) : log[t][i].cid = cid

\* The ticket is read, a message with the same client id answers the request, a
\* closed ticket refuses it, and the files are stored.
BeginReply(r, by, t, cid, f) ==
    /\ Addressable(t) /\ ~Find(t, cid) /\ ticket[t].status # "closed"
    /\ Len(log[t]) < MaxLog
    /\ f \in FreshFiles
    /\ disk' = Stored(f)
    /\ Begin(r, [Idle EXCEPT !.pc = "loaded", !.by = by, !.t = t,
                             !.snap = ticket[t], !.cid = cid, !.file = f])
    /\ UNCHANGED <<ticket, log, trail, job, faults, history>>

(* Mutant: no unique index on (ticket_id, client_message_id). *)
InsertReplyNoIndex(r) ==
    LET t == req[r].t IN
    /\ req[r].pc = "loaded" /\ Len(log[t]) < MaxLog
    /\ log' = [log EXCEPT ![t] = Append(@, Message(req[r].cid, req[r].file))]
    /\ req' = [req EXCEPT ![r].pc = "inserted", ![r].at = Len(log[t]) + 1, ![r].file = None,
                          ![r].cid = None]
    /\ UNCHANGED <<ticket, trail, disk, job, budget, history>>

(* Mutant: the files of a duplicate stay in the store. *)
InsertReplyKeepsFiles(r) ==
    LET t == req[r].t IN
    /\ req[r].pc = "loaded" /\ Len(log[t]) < MaxLog
    /\ IF Find(t, req[r].cid)
       THEN Finish(r) /\ UNCHANGED <<log, disk>>
       ELSE /\ log' = [log EXCEPT ![t] = Append(@, Message(req[r].cid, req[r].file))]
            /\ req' = [req EXCEPT ![r].pc = "inserted", ![r].at = Len(log[t]) + 1,
                                  ![r].file = None, ![r].cid = None]
            /\ UNCHANGED disk
    /\ UNCHANGED <<ticket, trail, job, budget, history>>

\* The unique index rejects a second row with the client id of the ticket: its
\* files are removed and the first row is the answer.
InsertReply(r) ==
    LET t == req[r].t IN
    /\ req[r].pc = "loaded" /\ Len(log[t]) < MaxLog
    /\ IF Find(t, req[r].cid)
       THEN Finish(r) /\ disk' = Unlinked(req[r].file) /\ UNCHANGED log
       ELSE /\ log' = [log EXCEPT ![t] = Append(@, Message(req[r].cid, req[r].file))]
            /\ req' = [req EXCEPT ![r].pc = "inserted", ![r].at = Len(log[t]) + 1,
                                  ![r].file = None, ![r].cid = None]
            /\ UNCHANGED disk
    /\ UNCHANGED <<ticket, trail, job, budget, history>>

FailReply(r) ==
    /\ req[r].pc = "loaded" /\ faults < MaxFaults
    /\ faults' = faults + 1
    /\ disk' = Unlinked(req[r].file)
    /\ Finish(r)
    /\ UNCHANGED <<ticket, log, trail, job, served, history>>

(* Mutant: the name of the event is taken for the new status. *)
NextStatusReopened(by, snap) ==
    IF snap.status = "resolved" THEN "reopened" ELSE snap.status

(* Mutant: a customer's answer leaves a waiting ticket waiting. *)
NextStatusStill(by, snap) ==
    CASE snap.status = "resolved" -> IF by = "staff" THEN "in_progress" ELSE "open"
      [] by = "staff" /\ snap.status = "open" -> "in_progress"
      [] OTHER -> snap.status

\* The status a reply by `by` gives the ticket read as `snap`.
NextStatus(by, snap) ==
    CASE snap.status = "resolved" -> IF by = "staff" THEN "in_progress" ELSE "open"
      [] by = "customer" /\ snap.status = "waiting_for_customer" ->
            IF snap.assigned THEN "in_progress" ELSE "open"
      [] by = "staff" /\ snap.status = "open" -> "in_progress"
      [] OTHER -> snap.status

\* The fields addMessage sets, computed from the ticket it read.
Answered(row, r) ==
    LET snap == req[r].snap
        next == NextStatus(req[r].by, snap) IN
    [row EXCEPT !.preview = req[r].at,
                !.staff = IF req[r].by = "staff" THEN req[r].at ELSE @,
                !.customer = IF req[r].by = "customer" THEN req[r].at ELSE @,
                !.answered = @ \/ req[r].by = "staff",
                !.status = IF next # snap.status THEN next ELSE @,
                !.resolved = IF snap.status = "resolved" THEN 0 ELSE @,
                !.aged = IF snap.status = "resolved" THEN FALSE ELSE @]

\* Status events are written after the ticket; without one the request is done.
Tell(r, from, to) ==
    req' = [req EXCEPT ![r] = IF to = from THEN Idle
                              ELSE [Idle EXCEPT !.pc = "telling", !.t = req[r].t, !.to = to]]

(* Mutant: the update does not ask whether the ticket was closed meanwhile. *)
ApplyReplyUnguarded(r) ==
    LET t == req[r].t  snap == req[r].snap IN
    /\ req[r].pc = "inserted"
    /\ ticket' = [ticket EXCEPT ![t] = Answered(@, r)]
    /\ Overlap(r)
    /\ excess' = (excess \/ Reactivates(t))
    /\ Tell(r, snap.status, NextStatus(req[r].by, snap))
    /\ UNCHANGED <<log, trail, disk, job, budget, expired, lost>>

ApplyReply(r) ==
    LET t == req[r].t  snap == req[r].snap IN
    /\ req[r].pc = "inserted"
    /\ ticket' = [ticket EXCEPT ![t] = IF @.status = "closed" THEN @ ELSE Answered(@, r)]
    /\ Overlap(r)
    /\ excess' = (excess \/ Reactivates(t))
    /\ Tell(r, snap.status, NextStatus(req[r].by, snap))
    /\ UNCHANGED <<log, trail, disk, job, budget, expired, lost>>

\* writeEvent of addMessage, updateTicket and closeTicket.
WriteEvent(r) ==
    /\ req[r].pc = "telling"
    /\ trail' = [trail EXCEPT ![req[r].t] = req[r].to]
    /\ Finish(r)
    /\ UNCHANGED <<ticket, log, disk, job, budget, history>>

-----------------------------------------------------------------------------
(* closeTicket, updateTicket, addNote, removeAttachment.                   *)

Load(r, t, pc, to, flip) ==
    Begin(r, [Idle EXCEPT !.pc = pc, !.t = t, !.snap = ticket[t], !.to = to, !.flip = flip])

BeginClose(r, t) ==
    /\ Addressable(t) /\ ticket[t].status # "closed"
    /\ Load(r, t, "closing", "closed", FALSE)
    /\ UNCHANGED <<ticket, log, trail, disk, job, faults, history>>

Closed(row) == [row EXCEPT !.status = "closed", !.closed = TRUE]

WriteClose(r) ==
    LET t == req[r].t IN
    /\ req[r].pc = "closing"
    /\ ticket' = [ticket EXCEPT ![t] = Closed(@)]
    /\ Overlap(r)
    /\ Tell(r, req[r].snap.status, "closed")
    /\ UNCHANGED <<log, trail, disk, job, budget, expired, lost, excess>>

\* A status the workflow allows from the one read, a new assignee, or both.
BeginUpdate(r, t, to, flip) ==
    /\ Addressable(t)
    /\ to = ticket[t].status \/ to \in StaffTransitions[ticket[t].status]
    /\ to # ticket[t].status \/ flip
    /\ Load(r, t, "updating", to, flip)
    /\ UNCHANGED <<ticket, log, trail, disk, job, faults, history>>

Updated(row, r) ==
    LET moved == req[r].to # req[r].snap.status
        reopen == moved /\ req[r].to \in {"in_progress", "open"} IN
    [row EXCEPT !.status = IF moved THEN req[r].to ELSE @,
                !.resolved = CASE moved /\ req[r].to = "resolved" -> Len(log[req[r].t]) + 1
                               [] reopen -> 0
                               [] OTHER -> @,
                !.aged = IF reopen \/ (moved /\ req[r].to = "resolved") THEN FALSE ELSE @,
                !.closed = CASE moved /\ req[r].to = "closed" -> TRUE
                             [] reopen -> FALSE
                             [] OTHER -> @,
                !.assigned = IF req[r].flip THEN ~req[r].snap.assigned ELSE @]

(* Mutant: a move that clears resolved_at writes no status event. *)
WriteUpdateSilent(r) ==
    LET t == req[r].t IN
    /\ req[r].pc = "updating"
    /\ ticket' = [ticket EXCEPT ![t] = Updated(@, r)]
    /\ Overlap(r)
    /\ excess' = (excess \/ Reactivates(t))
    /\ Tell(r, req[r].snap.status,
            IF req[r].to = "in_progress" THEN req[r].snap.status ELSE req[r].to)
    /\ UNCHANGED <<log, trail, disk, job, budget, expired, lost>>

WriteUpdate(r) ==
    LET t == req[r].t IN
    /\ req[r].pc = "updating"
    /\ ticket' = [ticket EXCEPT ![t] = Updated(@, r)]
    /\ Overlap(r)
    /\ excess' = (excess \/ Reactivates(t))
    /\ Tell(r, req[r].snap.status, req[r].to)
    /\ UNCHANGED <<log, trail, disk, job, budget, expired, lost>>

(* Mutant: a note becomes the ticket's public preview. *)
AddNotePublic(t) ==
    /\ Serve
    /\ Addressable(t) /\ Len(log[t]) < MaxLog
    /\ log' = [log EXCEPT ![t] = Append(@, [Message(None, None) EXCEPT !.note = TRUE])]
    /\ ticket' = [ticket EXCEPT ![t].preview = Len(log[t]) + 1]
    /\ UNCHANGED <<trail, disk, req, job, faults, history>>

\* A note depends on nothing but the ticket's existence; last_message_at, which
\* it moves, only orders the staff's list.
AddNote(t) ==
    /\ Serve
    /\ Addressable(t) /\ Len(log[t]) < MaxLog
    /\ log' = [log EXCEPT ![t] = Append(@, [Message(None, None) EXCEPT !.note = TRUE])]
    /\ UNCHANGED <<ticket, trail, disk, req, job, faults, history>>

\* The stored file goes first; a message that is read a second time meanwhile
\* has it removed a second time, which changes nothing.
RemoveFile(r, t, i) ==
    /\ CarriedBy(t, i)
    /\ disk' = Unlinked(log[t][i].file)
    /\ Begin(r, [Idle EXCEPT !.pc = "removing", !.t = t, !.at = i])
    /\ UNCHANGED <<ticket, log, trail, job, faults, history>>

Tombstone(r) ==
    /\ req[r].pc = "removing"
    /\ log' = [log EXCEPT ![req[r].t][req[r].at].gone = TRUE]
    /\ Finish(r)
    /\ UNCHANGED <<ticket, trail, disk, job, budget, history>>

-----------------------------------------------------------------------------
(* runAutoCloseJob, in the worker.                                         *)

\* autocloseDays go by; requests and runs of the job take seconds.
Age(t) ==
    /\ ticket[t].resolved > 0 /\ ~ticket[t].aged
    /\ job.pc = "idle" /\ \A r \in Requests : req[r].pc = "idle"
    /\ ticket' = [ticket EXCEPT ![t].aged = TRUE]
    /\ UNCHANGED <<log, trail, disk, req, job, budget, history>>

Expirable(t) == ticket[t].status = "resolved" /\ ticket[t].aged

FindStale ==
    LET stale == {t \in Tickets : Expirable(t)} IN
    /\ job.pc = "idle" /\ stale # {}
    /\ job' = [pc |-> "closing", stale |-> stale, t |-> None]
    /\ UNCHANGED <<ticket, log, trail, disk, req, budget, history>>

CloseStale(t) ==
    /\ job.pc = "closing" /\ t \in job.stale
    /\ ticket' = [ticket EXCEPT ![t] = Closed(@)]
    /\ expired' = expired \union {t}
    /\ disturbed' = IF Expirable(t) /\ Others(t, None) = {} THEN disturbed ELSE disturbed \union {t}
    /\ job' = [job EXCEPT !.pc = "telling", !.stale = @ \ {t}, !.t = t]
    /\ UNCHANGED <<log, trail, disk, req, budget, lost, excess>>

TellStale ==
    /\ job.pc = "telling"
    /\ trail' = [trail EXCEPT ![job.t] = "closed"]
    /\ job' = [job EXCEPT !.pc = IF job.stale = {} THEN "idle" ELSE "closing", !.t = None]
    /\ UNCHANGED <<ticket, log, disk, req, budget, history>>

-----------------------------------------------------------------------------
(* Deaths of a process.                                                    *)

\* An API process dies in the middle of a request.
Die(r) ==
    /\ faults < MaxFaults /\ req[r].pc # "idle"
    /\ faults' = faults + 1
    /\ disturbed' = IF HalfDone(r) THEN disturbed \union {req[r].t} ELSE disturbed
    /\ lost' = lost \union ({req[r].file} \ {None}) \union
               (IF req[r].pc = "removing" THEN {log[req[r].t][req[r].at].file} ELSE {})
    /\ Finish(r)
    /\ UNCHANGED <<ticket, log, trail, disk, job, served, expired, excess>>

\* The worker dies in the middle of the job.
WorkerDies ==
    /\ faults < MaxFaults /\ job.pc # "idle"
    /\ faults' = faults + 1
    /\ disturbed' = IF job.pc = "telling" THEN disturbed \union {job.t} ELSE disturbed
    /\ job' = [pc |-> "idle", stale |-> {}, t |-> None]
    /\ UNCHANGED <<ticket, log, trail, disk, req, served, expired, lost, excess>>

Next ==
    \/ \E r \in Requests :
          \/ CountActive(r) \/ InsertFirstMessage(r) \/ FailFirstMessage(r)
          \/ InsertReply(r) \/ FailReply(r) \/ ApplyReply(r) \/ WriteEvent(r)
          \/ WriteClose(r) \/ WriteUpdate(r) \/ Tombstone(r) \/ Die(r)
          \/ \E cid \in ClientIds \union {None}, f \in Files \union {None} : Submit(r, cid, f)
          \/ \E t \in Tickets :
                \/ InsertTicket(r, t) \/ BeginClose(r, t)
                \/ \E by \in Roles, cid \in ClientIds \union {None},
                      f \in Files \union {None} : BeginReply(r, by, t, cid, f)
                \/ \E to \in Statuses, flip \in BOOLEAN : BeginUpdate(r, t, to, flip)
                \/ \E i \in 1..MaxLog : i \in MessagesOf(t) /\ RemoveFile(r, t, i)
    \/ \E t \in Tickets : AddNote(t) \/ Age(t) \/ CloseStale(t)
    \/ FindStale \/ TellStale \/ WorkerDies

Spec == Init /\ [][Next]_vars

-----------------------------------------------------------------------------
(* Properties.                                                             *)

TicketRow == [status : Statuses \union {"none"}, assigned : BOOLEAN,
              resolved : 0..(MaxLog + 1), aged : BOOLEAN, closed : BOOLEAN,
              preview : 0..MaxLog, customer : 0..MaxLog, staff : 0..MaxLog,
              answered : BOOLEAN]

\* Type invariant: rows, messages, request and job states are well formed, and
\* every time a ticket carries is that of a message the log can hold.
TypeOK ==
    /\ ticket \in [Tickets -> TicketRow]
    /\ \A t \in Tickets : Len(log[t]) <= MaxLog
    /\ trail \in [Tickets -> Statuses]
    /\ disk \subseteq Files /\ lost \subseteq Files
    /\ \A r \in Requests :
          /\ req[r].snap \in TicketRow
          /\ req[r].t \in Tickets \union {None}
          /\ req[r].file \in Files \union {None}
    /\ job.stale \subseteq Tickets
    /\ disturbed \subseteq Tickets /\ expired \subseteq Tickets

\* A reply that is retried, also while the first attempt is still running, is
\* stored once (tests: 'concurrent duplicates yield exactly one row').
OneReplyPerClientId ==
    \A t \in Tickets : \A i, j \in MessagesOf(t) :
        i # j /\ log[t][i].cid # None => log[t][i].cid # log[t][j].cid

Held(f) == \E r \in Requests : req[r].file = f
Removing(f) == \E r \in Requests :
                  req[r].pc = "removing" /\ log[req[r].t][req[r].at].file = f

\* Unless a process died with the file in its hands, the store holds exactly the
\* files of live attachments and of requests still running: nothing is left
\* behind by a rejected or failed message, and no attachment lost its file.
FilesAccounted ==
    \A f \in Files : f \in lost \/ Removing(f) \/ (f \in disk <=> Attached(f) \/ Held(f))

\* More active tickets than the cap allows come only from creations that
\* counted before each other's ticket existed, or from a ticket that became
\* active again, which nothing counts.
CapExceededOnlyInRace ==
    ~excess => Cardinality(Active) <= MaxActive

\* A closed ticket becomes anything else only by an updateTicket that read it
\* before it was closed; no reply and no job brings it back.
ClosedReopensOnlyByStaleUpdate ==
    [][\A t \in Tickets :
          ticket[t].status = "closed" /\ ticket'[t].status # "closed" =>
             \E r \in Requests : /\ req[r].pc = "updating" /\ req[r].t = t
                                 /\ req[r].snap.status # "closed"
                                 /\ req'[r].pc # "updating"]_vars

PublicOf(t) == {i \in MessagesOf(t) : ~log[t][i].note}

\* Between requests, an undisturbed ticket previews its newest public message,
\* never a note and never a message that was not stored.
PreviewIsNewest ==
    \A t \in Tickets \ disturbed :
        ticket[t].status # "none" /\ Others(t, None) = {} =>
            /\ ticket[t].preview \in PublicOf(t)
            /\ \A i \in PublicOf(t) : i <= ticket[t].preview

\* Between requests, the last status event of an undisturbed ticket names the
\* status it has.
TrailTellsStatus ==
    \A t \in Tickets \ disturbed :
        ticket[t].status # "none" /\ Others(t, None) = {} /\ job.t # t =>
            trail[t] = ticket[t].status

\* computeYourTurn for the staff, and the non-null results of computeAwaiting.
YourTurn(row) == \/ row.status = "open"
                 \/ row.status = "in_progress" /\ row.customer > row.staff
Awaiting(row) ==
    IF row.answered THEN row.status \in {"open", "in_progress"} /\ row.customer > row.staff
    ELSE row.status \in ActiveStatuses

Book == INSTANCE TicketBook WITH
    status <- [t \in Tickets |-> ticket[t].status],
    said <- [t \in Tickets |-> [customer |-> ticket[t].customer,
                                staff |-> ticket[t].staff]],
    turn <- [t \in Tickets |-> YourTurn(ticket[t]) /\ Awaiting(ticket[t])],
    unheard <- [t \in Tickets |-> /\ ticket[t].status = "resolved"
                                  /\ ticket[t].customer >= ticket[t].resolved]

\* Tickets keep the promises of TicketBook.
ImplementsTicketBook == Book!Spec
=============================================================================
