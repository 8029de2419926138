---------------------------- MODULE Organizations ----------------------------
(***************************************************************************)
(* An organization and the copy its administrator's account has of it:     *)
(* services/admin/organizations.service.ts and                             *)
(* services/user/profile.service.ts.  An update saves the organization,    *)
(* then writes the same fields to the administrator, in two steps; nothing *)
(* undoes the first when the second fails.  A save writes the fields whose *)
(* value differs from the one the call has read.                           *)
(*                                                                         *)
(* An await that writes is one step; the look-up of a country, which only  *)
(* reads, is in the step that reads the organization.                      *)
(*                                                                         *)
(* Left out: e-mails and ids (Operators), the plan granted at creation     *)
(* (SubscriptionLifecycle), and organizations with several administrators, *)
(* of whom an update reaches one.                                          *)
(***************************************************************************)
EXTENDS Naturals

CONSTANTS Editors,    \* concurrent requests
          Canonical,  \* countries an entry resolves to, a function from some entries
          Creations,  \* bodies of creations, pairs of an organization and its administrator
          Updates,    \* bodies of updates
          Profiles,   \* bodies of edits of the administrator's account alone
          MaxEdits    \* bound on the requests made

VARIABLES
    org,     \* the row of tbl_organization
    admin,   \* the row of its administrator in tbl_user
    edit,    \* requests in flight
    apart,   \* history: fields the two may differ in
    edits    \* number of requests made

vars == <<org, admin, edit, apart, edits>>

\* No row: nothing is called "none".
NoOne == [name |-> "none", company |-> "none", country |-> "none", contact |-> "none"]
NoOrg == [company |-> "none", country |-> "none", contact |-> "none", status |-> 2]

\* Fields both have.
Shared == {"company", "country", "contact"}
\* ADMIN_USER_CASCADE_KEYS; the name stands for the address too.
Cascaded == {"name", "country", "contact"}

Idle == [pc |-> "idle", held |-> << >>, body |-> << >>, crossed |-> {}]

Init == /\ org = NoOrg /\ admin = NoOne
        /\ edit = [c \in Editors |-> Idle]
        /\ apart = {} /\ edits = 0

\* Type invariant: stages of an edit, and the fields that may differ.
TypeOK ==
    /\ org.status \in 0..2
    /\ \A c \in Editors : edit[c].pc \in {"idle", "admin", "save", "cascade", "profile"}
    /\ apart \subseteq Shared /\ edits \in 0..MaxEdits

-----------------------------------------------------------------------------
Without(body, field) == [f \in DOMAIN body \ {field} |-> body[f]]

\* A country as it is stored: an empty one empties the field, one that is not known is
\* left out.
Normalized(body) ==
    IF "country" \notin DOMAIN body \/ body["country"] = "" THEN body
    ELSE IF body["country"] \in DOMAIN Canonical THEN [body EXCEPT !["country"] = Canonical[@]]
    ELSE Without(body, "country")

\* What save writes.
Written(row, held, body) ==
    [f \in DOMAIN row |-> IF f \in DOMAIN body /\ body[f] # held[f] THEN body[f] ELSE row[f]]

Busy(c) == edit[c].pc # "idle"

\* A request of c begins; the fields another one in flight has too are crossed.
Begin(c, pc, held, body) ==
    LET with(d) == DOMAIN body \intersect DOMAIN edit[d].body
        others == {d \in Editors : d # c /\ Busy(d)}
    IN /\ ~Busy(c) /\ edits < MaxEdits
       /\ edit' = [d \in Editors |->
             IF d = c THEN [pc |-> pc, held |-> held, body |-> body, crossed |-> UNION {with(e) : e \in others}]
             ELSE IF d \in others THEN [edit[d] EXCEPT !.crossed = @ \union with(d)] ELSE edit[d]]
       /\ edits' = edits + 1

\* What is known after a request has left a field the same in both, or not.
Same(c) == apart \ (DOMAIN edit[c].body \ edit[c].crossed)
Differ(fields) == apart \union (fields \intersect Shared)

End(c) == edit' = [edit EXCEPT ![c] = Idle]

-----------------------------------------------------------------------------
\* createOrganization: the organization is inserted, ...
Create(c, creation) ==
    LET new == [creation.org EXCEPT !.country =
                   IF creation.country \in DOMAIN Canonical THEN Canonical[creation.country] ELSE ""]
        owner == [creation.admin EXCEPT !.country = new.country]
    IN /\ org = NoOrg
       /\ org' = new
       /\ Begin(c, "admin", NoOne, owner)
       /\ UNCHANGED <<admin, apart>>

\* ... then its administrator, with the fields of a legacy body its own or the same.
InsertAdmin(c) ==
    /\ edit[c].pc = "admin"
    /\ admin' = edit[c].body
    /\ apart' = Differ({f \in Shared : edit[c].body[f] # org[f]} \union edit[c].crossed)
    /\ End(c)
    /\ UNCHANGED <<org, edits>>

\* getOrganizationById, then updateOrganizationById as far as the save, ...
Update(c, body) ==
    /\ org.status # 2
    /\ Begin(c, "save", org, Normalized(body))
    /\ UNCHANGED <<org, admin, apart>>

\* ... or updateOrganizationStatusById or deleteOrganizationById: computeStatus gives the
\* status of the body or, for an action, one made from the status read.
SetStatus(c, status) ==
    /\ org.status # 2
    /\ Begin(c, "save", org, [f \in {"status"} |-> status])
    /\ UNCHANGED <<org, admin, apart>>

Save(c) ==
    /\ edit[c].pc = "save"
    /\ org' = Written(org, edit[c].held, edit[c].body)
    /\ apart' = Differ(edit[c].crossed)
    /\ IF DOMAIN edit[c].body \intersect (Cascaded \union {"company"}) = {} THEN End(c)
       ELSE edit' = [edit EXCEPT ![c].pc = "cascade"]
    /\ UNCHANGED <<admin, edits>>

(* Mutant: the company's name goes only with another field. *)
CascadeOwn(body) == IF DOMAIN body \intersect Cascaded = {} THEN << >> ELSE Without(body, "status")

\* The fields an update writes to the administrator.  Those of ADMIN_USER_CASCADE_KEYS,
\* and the company's name, with them or alone.
AdminSet(body) ==
    [f \in DOMAIN body \intersect (Cascaded \union {"company"}) |-> body[f]]

\* The write of the administrator, if there is one.
Cascade(c) ==
    LET set == AdminSet(edit[c].body) IN
    /\ edit[c].pc = "cascade"
    /\ admin' = IF admin = NoOne THEN admin
                ELSE [f \in DOMAIN admin |-> IF f \in DOMAIN set THEN set[f] ELSE admin[f]]
    /\ apart' = Same(c)
    /\ End(c)
    /\ UNCHANGED <<org, edits>>

\* The second write of a creation or an update does not happen.
Fail(c) ==
    /\ edit[c].pc \in {"admin", "cascade"}
    /\ apart' = Differ(DOMAIN edit[c].body)
    /\ End(c)
    /\ UNCHANGED <<org, admin, edits>>

\* updateOwnProfile, which the organization does not see; updateOperatorById, which can
\* edit the contact number, reads and saves the account in the same way.
EditProfile(c, body) ==
    /\ admin # NoOne
    /\ Begin(c, "profile", admin, Normalized(body))
    /\ UNCHANGED <<org, admin, apart>>

SaveProfile(c) ==
    /\ edit[c].pc = "profile"
    /\ admin' = Written(admin, edit[c].held, edit[c].body)
    /\ apart' = Differ(DOMAIN edit[c].body)
    /\ End(c)
    /\ UNCHANGED <<org, edits>>

Next == \E c \in Editors :
    \/ \E creation \in Creations : Create(c, creation)
    \/ InsertAdmin(c)
    \/ \E body \in Updates : Update(c, body)
    \/ \E status \in 0..2 : SetStatus(c, status)
    \/ Save(c) \/ Cascade(c) \/ Fail(c)
    \/ \E body \in Profiles : EditProfile(c, body)
    \/ SaveProfile(c)

Spec == Init /\ [][Next]_vars

-----------------------------------------------------------------------------
\* A field of the organization and the administrator's copy are the same, but where two
\* requests on the field were in flight at once, the second write was lost, the creation
\* gave them apart or the administrator's account was edited by itself, and no whole
\* update of the field came since: updateOrganizationById, organizations.service.ts:284-306.
Mirrored ==
    \A f \in Shared \ apart :
        admin = NoOne \/ admin[f] = org[f] \/ \E c \in Editors : Busy(c) /\ f \in DOMAIN edit[c].body
=============================================================================
