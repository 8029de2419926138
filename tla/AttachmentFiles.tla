--------------------------- MODULE AttachmentFiles ---------------------------
(***************************************************************************)
(* The files of a ticket after their messages are stored: the panel that   *)
(* lists them, opening one, and the staff's removal, which unlinks the     *)
(* file, then marks it, then writes an event, and can break off between:   *)
(* services/support.service.ts.  Messages are numbered in the order of     *)
(* their times, files by their index in the message.                       *)
(*                                                                         *)
(* Left out: who may see the ticket, tokens of links, what a file is       *)
(* (AttachmentRules) and how it got there (AttachmentStorage).             *)
(***************************************************************************)
EXTENDS Integers, FiniteSets

CONSTANTS Count,            \* Count[m]: how many files message m has
          Notes,            \* the internal messages
          Removers,         \* concurrent removals
          PageLimit,        \* messages per page of the panel
          MaxRemovals, MaxUnlinkFaults   \* bounds

VARIABLES
    posted,     \* messages stored
    disk,       \* files on the disk
    removed,    \* files with removed_at
    events,     \* attachment_removed events of the thread
    task,       \* removals in flight
    torn,       \* history: files a removal of which broke off
    kept,       \* history: files whose unlink failed
    removals    \* number of removals begun

vars == <<posted, disk, removed, events, task, torn, kept, removals>>

FilesOf(m) == {<<m, i>> : i \in 0..Count[m] - 1}
AllFiles == UNION {FilesOf(m) : m \in DOMAIN Count}
Idle == [pc |-> "idle", file |-> <<0, 0>>]

Init == /\ posted = {} /\ disk = {} /\ removed = {} /\ torn = {} /\ kept = {}
        /\ events = [f \in {} |-> 0] /\ removals = 0
        /\ task = [r \in Removers |-> Idle]

-----------------------------------------------------------------------------
(* What is answered.                                                       *)

Visible(staff) == {m \in posted : staff \/ m \notin Notes}

\* The file, or not found.
getAttachment(staff, file) ==
    file \in (UNION {FilesOf(m) : m \in Visible(staff)}) \ removed

\* The messages with files, newest first, and those of a page.
Base(staff) == {m \in Visible(staff) : Count[m] > 0}
OnPage(staff, page) ==
    {m \in Base(staff) : Cardinality({n \in Base(staff) : n > m}) \div PageLimit = page - 1}

(* Mutant: what was removed is not listed, and the rest is numbered anew. *)
ListRemaining(staff, page) ==
    {[file |-> f, removed |-> FALSE] :
        f \in {g \in UNION {FilesOf(m) : m \in OnPage(staff, page)} : g[2] < Cardinality(FilesOf(g[1]) \ removed)}}

listTicketAttachments(staff, page) ==
    {[file |-> f, removed |-> f \in removed] : f \in UNION {FilesOf(m) : m \in OnPage(staff, page)}}

-----------------------------------------------------------------------------
\* A message is stored with its files, which are on the disk already.
Post(m) ==
    /\ m \notin posted /\ \A n \in DOMAIN Count : n < m => n \in posted
    /\ posted' = posted \union {m}
    /\ disk' = disk \union FilesOf(m)
    /\ UNCHANGED <<removed, events, task, torn, kept, removals>>

\* removeAttachment reads the message; what is removed already is answered as it is.
Remove(r, file) ==
    /\ task[r].pc = "idle" /\ removals < MaxRemovals
    /\ getAttachment(TRUE, file)
    /\ task' = [task EXCEPT ![r] = [pc |-> "unlink", file |-> file]]
    /\ removals' = removals + 1
    /\ UNCHANGED <<posted, disk, removed, events, torn, kept>>

\* deleteStoredFiles goes on whether it could unlink the file or not.
Unlink(r) ==
    /\ task[r].pc = "unlink"
    /\ task' = [task EXCEPT ![r].pc = "mark"]
    /\ \/ disk' = disk \ {task[r].file} /\ UNCHANGED kept
       \/ /\ task[r].file \in disk /\ Cardinality(kept) < MaxUnlinkFaults
          /\ kept' = kept \union {task[r].file} /\ UNCHANGED disk
    /\ UNCHANGED <<posted, removed, events, torn, removals>>

Mark(r) ==
    /\ task[r].pc = "mark"
    /\ task' = [task EXCEPT ![r].pc = "event"]
    /\ removed' = removed \union {task[r].file}
    /\ UNCHANGED <<posted, disk, events, torn, kept, removals>>

WriteEvent(r) ==
    /\ task[r].pc = "event"
    /\ task' = [task EXCEPT ![r] = Idle]
    /\ events' = LET f == task[r].file
                     told(g) == IF g \in DOMAIN events THEN events[g] ELSE 0
                 IN [g \in DOMAIN events \union {f} |-> told(g) + (IF g = f THEN 1 ELSE 0)]
    /\ UNCHANGED <<posted, disk, removed, torn, kept, removals>>

\* The process dies, or a write fails.
BreakOff(r) ==
    /\ task[r].pc \in {"mark", "event"}
    /\ task' = [task EXCEPT ![r] = Idle]
    /\ torn' = torn \union {task[r].file}
    /\ UNCHANGED <<posted, disk, removed, events, kept, removals>>

Next ==
    \/ \E m \in DOMAIN Count : Post(m)
    \/ \E r \in Removers, file \in AllFiles : Remove(r, file)
    \/ \E r \in Removers : Unlink(r) \/ Mark(r) \/ WriteEvent(r) \/ BreakOff(r)

Spec == Init /\ [][Next]_vars

-----------------------------------------------------------------------------
\* The pages of the panel name every file the viewer may see once, at the place under
\* which it opens, also when another one of its message was removed, and call it removed
\* exactly when it does not open.  One it does not call removed is on the disk, unless a
\* removal is about to mark it or broke off; one it does is gone, unless the unlink
\* failed, and the thread tells who saw it go: listTicketAttachments, getAttachment and
\* removeAttachment, support.service.ts:641-671, 1141-1297.
FilesKeepPlace ==
    LET busy == {task[r].file : r \in {r \in Removers : task[r].pc # "idle"}} IN
    /\ \A staff \in BOOLEAN :
         LET pages == 1..Cardinality(posted)
             listed == UNION {listTicketAttachments(staff, p) : p \in pages}
         IN /\ {x.file : x \in {x \in listed : ~x.removed}} = {f \in AllFiles : getAttachment(staff, f)}
            /\ {x.file : x \in listed} = UNION {FilesOf(m) : m \in Visible(staff)}
            /\ \A p, q \in pages : p # q => listTicketAttachments(staff, p) \intersect listTicketAttachments(staff, q) = {}
            /\ \A x \in listed : IF x.removed THEN x.file \in disk => x.file \in kept
                                 ELSE x.file \in disk \union busy \union torn
    /\ \A f \in removed : f \in DOMAIN events \union busy \union torn
=============================================================================
