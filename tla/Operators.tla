------------------------------ MODULE Operators ------------------------------
(***************************************************************************)
(* Operators and administrators of organizations, and the operator ids     *)
(* with which operators sign in: services/user/operators.service.ts,       *)
(* utils/operator-id.util.ts, the parts of                                 *)
(* services/admin/organizations.service.ts that touch an id or an          *)
(* administrator, and scripts/migrate-operator-ids.ts, which gives ids to  *)
(* the operators from before there were any.                               *)
(*                                                                         *)
(* An operator id is a prefix made from the company's name and a number    *)
(* from the organization's counter; ids and e-mails are unique over all    *)
(* organizations.  One await is one step.  A save writes the fields the    *)
(* call has changed, and is validated on the document it has read.         *)
(*                                                                         *)
(* Left out: lists, names and addresses, the caller's own scope, the lock  *)
(* on a PIN, passwords, and scripts/migrate-operator-seq.ts, after which a *)
(* counter may be behind the ids of operators deleted or become            *)
(* administrators: the next creations then use up some of their attempts.  *)
(***************************************************************************)
EXTENDS Naturals, FiniteSets

CONSTANTS Users,        \* accounts there may be
          Orgs,         \* organizations
          Prefixes,     \* what deriveOperatorPrefix makes of the companies' names
          FirstNames,   \* the organizations' prefixes at the start
          Mails,        \* e-mail addresses
          Callers,      \* concurrent requests
          Roster,       \* the accounts at the start, a function from some users
          MaxNumber,    \* bound on an organization's counter
          MaxRequests,  \* bound on the requests made
          MaxAttempts   \* MAX_OPERATOR_ID_ATTEMPTS and MAX_RETRIES, 5 in the code

VARIABLES
    company,   \* the prefix each organization's name gives
    counter,   \* operator_seq, counted from 1000
    users,     \* tbl_user
    call,      \* requests in flight
    ids,       \* the run of migrate-operator-ids
    raced,     \* history: users two calls held at once
    bare,      \* history: users whose role was set without what goes with it
    requests   \* number of requests made

vars == <<company, counter, users, call, ids, raced, bare, requests>>

NoId == <<"none", 0>>
NoMail == "none"
Absent == [org |-> "none", role |-> "none", id |-> NoId, pin |-> FALSE, mail |-> NoMail, status |-> 2]
Person(org, role, id, pin, mail) ==
    [org |-> org, role |-> role, id |-> id, pin |-> pin, mail |-> mail, status |-> 1]

Idle == [pc |-> "idle", new |-> FALSE, user |-> "none", copy |-> Absent, changes |-> << >>,
         prefix |-> "none", attempt |-> 0]
IdsIdle == [pc |-> "idle", left |-> {}, user |-> "none", prefix |-> "none",
            known |-> << >>, number |-> 0, attempt |-> 0]

Init ==
    /\ company = FirstNames
    /\ counter = [o \in Orgs |-> Cardinality({u \in DOMAIN Roster : Roster[u].org = o /\ Roster[u].id # NoId})]
    /\ users = [u \in Users |-> IF u \in DOMAIN Roster THEN Roster[u] ELSE Absent]
    /\ call = [c \in Callers |-> Idle]
    /\ ids = IdsIdle
    /\ raced = {} /\ requests = 0
    /\ bare = {u \in DOMAIN Roster : Roster[u].role = "OPERATOR" /\ Roster[u].id = NoId}

Live(u) == users[u].status # 2
Held == {call[c].user : c \in {d \in Callers : call[d].pc # "idle" /\ ~call[d].new}}
        \union ids.left \union {ids.user}

\* A document with the fields of a body over its own, and a body with one field more.
Over(doc, body) == [f \in DOMAIN doc |-> IF f \in DOMAIN body THEN body[f] ELSE doc[f]]
With(body, field, value) == [f \in DOMAIN body \union {field} |-> IF f = field THEN value ELSE body[f]]

\* The unique sparse indexes on operator_id and email.
IdTaken(id, u) == id # NoId /\ \E v \in Users \ {u} : users[v].id = id
MailTaken(mail, u) == mail # NoMail /\ \E v \in Users \ {u} : users[v].mail = mail

\* A request is made, and how many there may be is bounded.
Request == requests < MaxRequests /\ requests' = requests + 1

-----------------------------------------------------------------------------
(* createOperator.                                                         *)

\* The body has a six-digit PIN for an operator and an e-mail for an administrator.
Create(c, o, role, mail) ==
    /\ call[c].pc = "idle"
    /\ role = "ORGANIZATION_ADMIN" => mail # NoMail
    /\ call' = [call EXCEPT ![c] =
         [Idle EXCEPT !.pc = IF mail # NoMail THEN "taken" ELSE "company", !.new = TRUE,
                      !.copy = Person(o, role, NoId, role = "OPERATOR", mail)]]
    /\ Request
    /\ UNCHANGED <<company, counter, users, ids, raced, bare>>

\* A number is drawn anew in each attempt; E11000 of either index is retried.
Insert(c) ==
    LET new == call[c].copy IN
    /\ call[c].pc = "save" /\ call[c].new
    /\ IF IdTaken(new.id, "none") \/ MailTaken(new.mail, "none")
       THEN /\ call' = IF call[c].attempt + 1 = MaxAttempts THEN [call EXCEPT ![c] = Idle]
                       ELSE [call EXCEPT ![c].attempt = @ + 1, ![c].copy.id = NoId,
                               ![c].pc = IF new.role = "OPERATOR" THEN "company" ELSE "save"]
            /\ UNCHANGED users
       ELSE /\ \E u \in {v \in Users : users[v] = Absent} : users' = [users EXCEPT ![u] = new]
            /\ call' = [call EXCEPT ![c] = Idle]
    /\ UNCHANGED <<company, counter, ids, raced, bare, requests>>

-----------------------------------------------------------------------------
(* updateOperatorById, updateOperatorRoleById, updateOperatorStatusById    *)
(* and deleteOperatorById.                                                 *)

\* All four begin with getOperatorById.
Hold(c, u, pc, changes) ==
    /\ call[c].pc = "idle" /\ Live(u)
    /\ call' = [call EXCEPT ![c] = [Idle EXCEPT !.pc = pc, !.user = u, !.copy = users[u],
                                                !.changes = changes]]
    /\ raced' = IF u \in Held THEN raced \union {u} ELSE raced
    /\ Request
    /\ UNCHANGED <<company, counter, users, ids, bare>>

(* Mutant: the PIN of an operator who becomes an administrator is kept. *)
KeepPin(doc, body) == body

\* Whoever is not an operator after the update loses his PIN, if he had one.
ClearPin(doc, body) ==
    IF Over(doc, body).role = "OPERATOR" \/ ~doc.pin THEN body ELSE With(body, "pin", FALSE)

(* Mutant: every operator who is updated gets an id. *)
LacksIdAlways(doc, body) == Over(doc, body).role = "OPERATOR"

LacksId(doc, body) == Over(doc, body).role = "OPERATOR" /\ doc.id = NoId

\* A field set to what it was is not written; a PIN is, for its hash is another.
Modified(doc, body) == LET F == {f \in DOMAIN body : f = "pin" \/ body[f] # doc[f]} IN [f \in F |-> body[f]]

\* body has some of role, mail, pin and status.
Update(c, u, body) ==
    LET role == Over(users[u], body).role IN
    /\ "mail" \in DOMAIN body /\ role # "OPERATOR" => body.mail # NoMail
    /\ "pin" \in DOMAIN body => role = "OPERATOR"
    /\ Hold(c, u, IF "mail" \in DOMAIN body /\ body.mail # NoMail THEN "taken"
                  ELSE IF LacksId(users[u], body) THEN "company" ELSE "save",
            Modified(users[u], ClearPin(users[u], body)))

SetRole(c, u, role) == Hold(c, u, "role", Modified(users[u], [role |-> role]))

\* Deactivation, activation, and deletion, which is status 2.
SetStatus(c, u, status) == Hold(c, u, "status", Modified(users[u], [status |-> status]))

\* isEmailTaken.
CheckMail(c) ==
    LET body == Over(call[c].copy, call[c].changes) IN
    /\ call[c].pc = "taken"
    /\ call' = IF MailTaken(body.mail, call[c].user) THEN [call EXCEPT ![c] = Idle]
               ELSE [call EXCEPT ![c].pc =
                       IF body.role = "OPERATOR" /\ (call[c].new \/ LacksId(call[c].copy, call[c].changes))
                       THEN "company" ELSE "save"]
    /\ UNCHANGED <<company, counter, users, ids, raced, bare, requests>>

\* The company's name, read before the number is drawn.
ReadCompany(c) ==
    /\ call[c].pc = "company"
    /\ call' = [call EXCEPT ![c].prefix = company[call[c].copy.org], ![c].pc = "number"]
    /\ UNCHANGED <<company, counter, users, ids, raced, bare, requests>>

\* nextOperatorNumber: $inc on the organization's row.
Draw(o) ==
    /\ counter[o] < MaxNumber
    /\ counter' = [counter EXCEPT ![o] = @ + 1]

(* Mutant: findByIdAndUpdate returns the row as it was before. *)
DrawBefore(c) ==
    LET o == call[c].copy.org
        id == <<call[c].prefix, counter[o]>>
    IN /\ call[c].pc = "number" /\ Draw(o)
       /\ call' = IF call[c].new THEN [call EXCEPT ![c].pc = "save", ![c].copy.id = id]
                  ELSE [call EXCEPT ![c].pc = "save", ![c].changes = With(@, "id", id)]
       /\ UNCHANGED <<company, users, ids, raced, bare, requests>>

DrawNumber(c) ==
    LET o == call[c].copy.org
        id == <<call[c].prefix, counter[o] + 1>>
    IN /\ call[c].pc = "number" /\ Draw(o)
       /\ call' = IF call[c].new THEN [call EXCEPT ![c].pc = "save", ![c].copy.id = id]
                  ELSE [call EXCEPT ![c].pc = "save", ![c].changes = With(@, "id", id)]
       /\ UNCHANGED <<company, users, ids, raced, bare, requests>>

\* The document as the call has it must have an e-mail unless it is an operator's, and
\* the indexes must allow the write; otherwise the call fails.  Only the role endpoint
\* changes a role alone.
Save(c) ==
    LET u == call[c].user
        ch == call[c].changes
        doc == Over(call[c].copy, ch)
        written == Over(users[u], ch)
    IN /\ call[c].pc \in {"save", "role", "status"} /\ ~call[c].new
       /\ IF \/ doc.role # "OPERATOR" /\ doc.mail = NoMail
             \/ "mail" \in DOMAIN ch /\ MailTaken(ch.mail, u)
             \/ "id" \in DOMAIN ch /\ IdTaken(ch.id, u)
          THEN UNCHANGED <<users, bare>>
          ELSE /\ users' = [users EXCEPT ![u] = written]
               /\ bare' = CASE call[c].pc = "role" -> bare \union {u}
                            [] call[c].pc = "save" -> bare \ {u}
                            [] OTHER -> bare
       /\ call' = [call EXCEPT ![c] = Idle]
       /\ UNCHANGED <<company, counter, ids, raced, requests>>

Die(c) ==
    /\ call[c].pc # "idle"
    /\ call' = [call EXCEPT ![c] = Idle]
    /\ UNCHANGED <<company, counter, users, ids, raced, bare, requests>>

-----------------------------------------------------------------------------
(* Organizations.                                                          *)

\* updateOrganizationById with another company name.
Rename(o, prefix) ==
    /\ company[o] # prefix /\ Request
    /\ company' = [company EXCEPT ![o] = prefix]
    /\ UNCHANGED <<counter, users, call, ids, raced, bare>>

-----------------------------------------------------------------------------
(* migrate-operator-ids.                                                   *)

WithoutId == {u \in Users : Live(u) /\ users[u].role = "OPERATOR" /\ users[u].id = NoId}

IdsFind ==
    /\ ids.pc = "idle" /\ WithoutId # {}
    /\ ids' = [IdsIdle EXCEPT !.pc = "next", !.left = WithoutId]
    /\ raced' = raced \union (WithoutId \intersect Held)
    /\ UNCHANGED <<company, counter, users, call, bare, requests>>

\* The name of an organization is read once.
IdsNext(u) ==
    LET o == users[u].org IN
    /\ ids.pc = "next" /\ u \in ids.left
    /\ LET prefix == IF o \in DOMAIN ids.known THEN ids.known[o] ELSE company[o] IN
         ids' = [ids EXCEPT !.pc = "number", !.user = u, !.left = @ \ {u}, !.attempt = 0,
                            !.known = With(@, o, prefix), !.prefix = prefix]
    /\ UNCHANGED <<company, counter, users, call, raced, bare, requests>>

IdsDraw ==
    LET o == users[ids.user].org IN
    /\ ids.pc = "number" /\ Draw(o)
    /\ ids' = [ids EXCEPT !.pc = "write", !.number = counter[o] + 1]
    /\ UNCHANGED <<company, users, call, raced, bare, requests>>

\* updateOne by _id alone, whatever the user has become.
IdsWrite ==
    LET u == ids.user
        id == <<ids.prefix, ids.number>>
        next == [ids EXCEPT !.pc = IF ids.left = {} THEN "idle" ELSE "next", !.user = "none"]
    IN /\ ids.pc = "write"
       /\ IF IdTaken(id, u)
          THEN /\ ids' = IF ids.attempt + 1 = MaxAttempts THEN next
                         ELSE [ids EXCEPT !.pc = "number", !.attempt = @ + 1]
               /\ UNCHANGED users
          ELSE users' = [users EXCEPT ![u].id = id] /\ ids' = next
       /\ UNCHANGED <<company, counter, call, raced, bare, requests>>

-----------------------------------------------------------------------------
Bodies == [role : {"OPERATOR", "ORGANIZATION_ADMIN"}] \union [mail : Mails \union {NoMail}]
          \union [pin : {TRUE}] \union [status : 0..2] \union [role : {"OPERATOR"}, pin : {TRUE}]
          \union [role : {"ORGANIZATION_ADMIN"}, mail : Mails]

Next ==
    \/ \E c \in Callers :
         \/ \E o \in Orgs, role \in {"OPERATOR", "ORGANIZATION_ADMIN"}, mail \in Mails \union {NoMail} :
              Create(c, o, role, mail)
         \/ \E u \in Users :
              \/ \E body \in Bodies : Update(c, u, body)
              \/ \E role \in {"OPERATOR", "ORGANIZATION_ADMIN"} : SetRole(c, u, role)
              \/ \E status \in 0..2 : SetStatus(c, u, status)
         \/ CheckMail(c) \/ ReadCompany(c) \/ DrawNumber(c) \/ Insert(c) \/ Save(c) \/ Die(c)
    \/ \E o \in Orgs, prefix \in Prefixes : Rename(o, prefix)
    \/ IdsFind \/ (\E u \in Users : IdsNext(u)) \/ IdsDraw \/ IdsWrite

Spec == Init /\ [][Next]_vars

-----------------------------------------------------------------------------
(* Properties.                                                             *)

\* Type invariant: an account there is has an organization and a role.
TypeOK ==
    /\ counter \in [Orgs -> 0..MaxNumber] /\ company \in [Orgs -> Prefixes]
    /\ \A u \in Users : users[u] # Absent =>
         /\ users[u].org \in Orgs /\ users[u].role \in {"OPERATOR", "ORGANIZATION_ADMIN"}
         /\ users[u].mail \in Mails \union {NoMail} /\ users[u].status \in 0..2

\* However updates, roles and PINs were changed before: an administrator can be
\* mailed a code and has no PIN, an operator has an id to sign in with.  Exempt is
\* who has been changed by two calls at once, or had his role set by the role
\* endpoint, or is from before the ids, and has not been updated since.
CredentialsFitRole ==
    \A u \in Users \ (raced \union bare) : users[u] # Absent =>
        IF users[u].role = "OPERATOR" THEN users[u].id # NoId
        ELSE users[u].mail # NoMail /\ ~users[u].pin

\* An operator's id never changes, through renamings of the company, other roles and
\* back, and the migrations, unless two calls held him at once.
IdIsForLife ==
    [][\A u \in Users \ raced : users[u].id # NoId => users'[u].id = users[u].id]_vars

\* The id a request holds and has not stored.
Drawn(c) == IF call[c].new THEN call[c].copy.id
            ELSE IF "id" \in DOMAIN call[c].changes THEN call[c].changes.id ELSE NoId

\* A number that is drawn is new to its organization, whatever the company was called
\* when others were: an id that is refused is another organization's, and a second
\* attempt can help.
NumbersAreFresh ==
    \A c \in Callers : call[c].pc = "save" /\ Drawn(c) # NoId =>
        /\ \A u \in Users : users[u].org = call[c].copy.org => users[u].id # Drawn(c)
        /\ \A d \in Callers \ {c} : Drawn(d) = Drawn(c) => call[d].copy.org # call[c].copy.org
=============================================================================
