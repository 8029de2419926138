-------------------------- MODULE AttachmentStorage --------------------------
(***************************************************************************)
(* The way of uploaded files to the disk: supportUpload writes them to the *)
(* temp directory, saveAttachments of services/support-storage.service.ts  *)
(* checks them all and then moves them one at a time, and the message that *)
(* names them is written last.  One step is one call to the file system or *)
(* to Mongo; SupportTicket has the requests around it, and takes the saving *)
(* of a request's files as one step.                                       *)
(*                                                                         *)
(* Left out: what makes a file valid (AttachmentRules), names and paths,   *)
(* the copy where a rename crosses devices, how much room the disk has.    *)
(***************************************************************************)
EXTENDS Integers, FiniteSets, FiniteSetsExt

CONSTANTS Requests,
          Files,           \* Files[r]: the files of request r
          TotalCap,        \* SUPPORT_MAX_TOTAL_BYTES; every file is of size 1
          TicketCap,       \* the ticket's cap; the organization's is larger
          MaxFileFaults    \* bound of the moves and writes that fail

VARIABLES pc, temp, stored, attached, refused, torn, fileFaults

vars == <<pc, temp, stored, attached, refused, torn, fileFaults>>

Init ==
    /\ pc = [r \in Requests |-> "new"]
    /\ temp = {} /\ stored = {} /\ attached = {} /\ refused = {} /\ torn = {}
    /\ fileFaults = 0

Go(r, to) == pc' = [pc EXCEPT ![r] = to]

\* supportUpload: multer streams the files to the temp directory.
Upload(r) ==
    /\ pc[r] = "new" /\ Go(r, "received")
    /\ temp' = temp \union Files[r]
    /\ UNCHANGED <<stored, attached, refused, torn, fileFaults>>

\* createTicket or addMessage refuses the request, or finds it answered already, before
\* it comes to the files.
Refuse(r) ==
    /\ pc[r] = "received" /\ Go(r, "done")
    /\ refused' = refused \union Files[r]
    /\ UNCHANGED <<temp, stored, attached, torn, fileFaults>>

\* The bytes stored for a ticket: the filter has the ticket's id as a string, which an
\* aggregation compares with the ObjectIds as it is.
sumAttachmentBytes == 0

FitsCaps(r) ==
    /\ Cardinality(Files[r]) <= TotalCap
    /\ sumAttachmentBytes + Cardinality(Files[r]) <= TicketCap

(* Mutant: the temp files of a rejected request are left. *)
RejectOnly(r) ==
    /\ pc[r] = "received" /\ Go(r, "done")
    /\ UNCHANGED <<temp, stored, attached, refused, torn, fileFaults>>

\* saveAttachments finds a file invalid, too many bytes, or too little room on the disk.
Reject(r) ==
    /\ pc[r] = "received" /\ Go(r, "done")
    /\ temp' = temp \ Files[r]
    /\ UNCHANGED <<stored, attached, refused, torn, fileFaults>>

\* Or all is well.
Check(r) ==
    /\ pc[r] = "received" /\ FitsCaps(r) /\ Go(r, "moving")
    /\ UNCHANGED <<temp, stored, attached, refused, torn, fileFaults>>

\* moveFile, the next one of the request.
Move(r) ==
    \E f \in Files[r] \intersect temp :
        /\ pc[r] = "moving"
        /\ temp' = temp \ {f} /\ stored' = stored \union {f}
        /\ Go(r, IF Files[r] \subseteq stored' THEN "saved" ELSE "moving")
        /\ UNCHANGED <<attached, refused, torn, fileFaults>>

\* A move fails: the catch removes the temp files, those that were moved stay.
MoveFails(r) ==
    /\ pc[r] = "moving" /\ fileFaults < MaxFileFaults
    /\ fileFaults' = fileFaults + 1
    /\ temp' = temp \ Files[r] /\ torn' = torn \union (Files[r] \intersect stored)
    /\ Go(r, "done")
    /\ UNCHANGED <<stored, attached, refused>>

\* SupportMessage.create: the message names the files.
Attach(r) ==
    /\ pc[r] = "saved" /\ Go(r, "done")
    /\ attached' = attached \union Files[r]
    /\ UNCHANGED <<temp, stored, refused, torn, fileFaults>>

\* The write fails: deleteStoredFiles.
AttachFails(r) ==
    /\ pc[r] = "saved" /\ fileFaults < MaxFileFaults
    /\ fileFaults' = fileFaults + 1
    /\ stored' = stored \ Files[r] /\ Go(r, "done")
    /\ UNCHANGED <<temp, attached, refused, torn>>

Next == \E r \in Requests :
    Upload(r) \/ Refuse(r) \/ Reject(r) \/ Check(r) \/ Move(r) \/ MoveFails(r) \/ Attach(r) \/ AttachFails(r)

Spec == Init /\ [][Next]_vars

-----------------------------------------------------------------------------
AllFiles == UNION {Files[r] : r \in Requests}

\* Type invariant: stages of a request, and sets of files.
TypeOK ==
    /\ pc \in [Requests -> {"new", "received", "moving", "saved", "done"}]
    /\ temp \subseteq AllFiles /\ stored \subseteq AllFiles /\ attached \subseteq AllFiles
    /\ refused \subseteq AllFiles /\ torn \subseteq AllFiles
    /\ fileFaults \in 0..MaxFileFaults

UnderWay == UNION {Files[r] : r \in {q \in Requests : pc[q] \notin {"new", "done"}}}

\* A message names no file that is not there.  A stored file is named by a message, is
\* of a request under way, or was left by a save that failed between two moves; a temp
\* file is of a request under way, or of one that was refused before its files were
\* looked at, though a comment has those removed too.
UploadsAccounted ==
    /\ attached \subseteq stored
    /\ stored \subseteq attached \union UnderWay \union torn
    /\ temp \subseteq UnderWay \union refused
    /\ temp \intersect stored = {}
=============================================================================
