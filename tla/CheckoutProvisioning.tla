------------------------ MODULE CheckoutProvisioning ------------------------
(***************************************************************************)
(* The public checkout (services/public-checkout.service.ts) and what the  *)
(* payment webhooks do with a captured order (services/payment.service.ts, *)
(* controllers/public-checkout.controller.ts): lead, payment row,          *)
(* organization with its admin user, and the subscription grant.           *)
(*                                                                         *)
(* One step is one awaited Mongo or gateway call.  A handler is one webhook*)
(* request in some API process; the gateway notifies a captured order as   *)
(* often as it likes, also while an earlier notification is being handled. *)
(* Strike is the fault model: an awaited call throws, or the process dies. *)
(* grantSubscription is one step here (SubscriptionLifecycle has its own   *)
(* steps); it may also throw after it created the row.                     *)
(*                                                                         *)
(* Left out: leads of createLead (no payment refers to them), prices,      *)
(* forged notifications and those of orders this API never opened (they    *)
(* are refused and change nothing), the mails and the dashboard cache.     *)
(***************************************************************************)
EXTENDS Naturals, FiniteSets

CONSTANTS Orders,     \* checkouts, each with its lead, gateway order and payment
          Handlers,   \* webhook requests handled at the same time
          Emails,     \* the customers' addresses
          MaxFaults   \* bound on the number of faults

ASSUME CheckoutAssumption ==
    /\ IsFiniteSet(Orders) /\ IsFiniteSet(Handlers) /\ IsFiniteSet(Emails) /\ Orders # {}
    /\ MaxFaults \in Nat

VARIABLES
    email,      \* the address each lead gave
    via,        \* the gateway each customer chose
    lead,       \* GuestLead.status
    gateway,    \* the order at the gateway
    payment,    \* Payment.status
    payOrg,     \* Payment.organization_id, as a set of at most one
    orgs,       \* organizations <<email, nr>>
    users,      \* addresses a tbl_user row has
    admins,     \* organizations whose admin user was created
    subs,       \* subscriptions <<order, organization, nr>>
    pc,         \* where each handler stands
    order,      \* the order it handles
    org,        \* the organization it resolved, as a set of at most one
    faults,     \* number of faults so far
    disturbed,  \* history: orders handled twice at once, or struck after a grant
    contended,  \* history: addresses with two resolutions at once, or one struck
    cut         \* history: orders whose failure was only half recorded

form    == <<email, via>>
store   == <<form, lead, gateway, payment, payOrg, orgs, users, admins, subs>>
handler == <<pc, order, org>>
history == <<disturbed, contended, cut>>
vars    == <<store, handler, faults, history>>

\* The steps of a handler: those inside the try block, then those of its catch.
Trying   == {"organization", "isEmailTaken", "findTaken", "createOrganization",
             "createUser", "grant", "savePayment", "saveLead"}
Catching == {"failLead", "failPayment"}
Stages   == {"idle", "findPayment", "findLead"} \union Trying \union Catching

\* The part of the try block that looks up or creates the organization.
Resolving == {"organization", "isEmailTaken", "findTaken", "createOrganization",
              "createUser"}

SubsOf(o)    == {s \in subs : s[1] = o}
OrgsOf(e)    == {g \in orgs : g[1] = e}
InFlight(o)  == {h \in Handlers : pc[h] # "idle" /\ order[h] = o}
Contending(e) == {h \in Handlers : pc[h] \in Resolving /\ email[order[h]] = e}

Init ==
    /\ email \in [Orders -> Emails]
    /\ via \in [Orders -> {"stripe", "razorpay"}]
    /\ lead = [o \in Orders |-> "absent"]
    /\ gateway = [o \in Orders |-> "absent"]
    /\ payment = [o \in Orders |-> "absent"]
    /\ payOrg = [o \in Orders |-> {}]
    \* some customers have an organization already, some addresses belong to
    \* a user of an organization with another address
    /\ \E known \in SUBSET Emails :
          /\ orgs = {<<e, 1>> : e \in known}
          /\ admins = orgs
          /\ users \in {known \union other : other \in SUBSET Emails}
    /\ subs = {}
    /\ pc = [h \in Handlers |-> "idle"]
    /\ order \in [Handlers -> {CHOOSE o \in Orders : TRUE}]
    /\ org = [h \in Handlers |-> {}]
    /\ faults = 0
    /\ disturbed = {} /\ contended = {} /\ cut = {}

Goto(h, stage) == pc' = [pc EXCEPT ![h] = stage]

-----------------------------------------------------------------------------
(* createCheckout, and the customer at the gateway.                        *)

CreateLead(o) ==
    /\ lead[o] = "absent"
    /\ lead' = [lead EXCEPT ![o] = "initiated"]
    /\ UNCHANGED <<form, gateway, payment, payOrg, orgs, users, admins, subs,
                   handler, faults, history>>

\* createCheckoutSession or createRazorpayOrder; when it throws, the lead stays
\* 'initiated' and nothing else happens.
OpenOrder(o) ==
    /\ lead[o] = "initiated" /\ gateway[o] = "absent"
    /\ gateway' = [gateway EXCEPT ![o] = "open"]
    /\ UNCHANGED <<form, lead, payment, payOrg, orgs, users, admins, subs,
                   handler, faults, history>>

CreatePayment(o) ==
    /\ gateway[o] = "open" /\ payment[o] = "absent"
    /\ payment' = [payment EXCEPT ![o] = "CREATED"]
    /\ UNCHANGED <<form, lead, gateway, payOrg, orgs, users, admins, subs,
                   handler, faults, history>>

\* The customer has the checkout only once the response is sent, after the
\* payment row is there.
Capture(o) ==
    /\ gateway[o] = "open" /\ payment[o] # "absent"
    /\ gateway' = [gateway EXCEPT ![o] = "captured"]
    /\ UNCHANGED <<form, lead, payment, payOrg, orgs, users, admins, subs,
                   handler, faults, history>>

-----------------------------------------------------------------------------
(* The webhook endpoints.  Notifications are genuine: the header carries   *)
(* the gateway's signature of the body it sends.                           *)

\* HMAC-SHA256 under the shared secret: other texts have other signatures.
Sign(text) == <<"signature", text>>

Body(o)       == <<"body", o>>        \* the request body of a notification
Completion(o) == <<"completion", o>>  \* the text order_id|payment_id

VerifyWebhookSignature(o, signature) == signature = Sign(Body(o))

VerifyPaymentSignature(o, signature) == signature = Sign(Completion(o))

\* stripeWebhook checks the signature of the body.  razorpayWebhook checks the
\* one header twice, as the signature of the body and as that of the
\* completion text.  A notification that is not verified is answered with 400.
Verified(o) ==
    LET signature == Sign(Body(o)) IN
    /\ VerifyWebhookSignature(o, signature)
    /\ via[o] = "razorpay" => VerifyPaymentSignature(o, signature)

-----------------------------------------------------------------------------
(* processGatewaySuccess, step by step.                                    *)

Notify(o, h) ==
    /\ gateway[o] = "captured" /\ pc[h] = "idle"
    /\ Verified(o)
    /\ Goto(h, "findPayment")
    /\ order' = [order EXCEPT ![h] = o]
    /\ org' = [org EXCEPT ![h] = {}]
    /\ disturbed' = IF InFlight(o) = {} THEN disturbed ELSE disturbed \union {o}
    /\ UNCHANGED <<store, faults, contended, cut>>

\* An order that succeeded before is answered with alreadyHandled.
FindPayment(h) ==
    /\ pc[h] = "findPayment"
    /\ Goto(h, IF payment[order[h]] = "TXN_SUCCESS" THEN "idle" ELSE "findLead")
    /\ UNCHANGED <<store, order, org, faults, history>>

\* (Mutant) any lead will do, one that failed before included.
FindLeadAny(h) ==
    LET e == email[order[h]] IN
    /\ pc[h] = "findLead"
    /\ Goto(h, "organization")
    /\ contended' = IF Contending(e) = {} THEN contended
                                          ELSE contended \union {e}
    /\ UNCHANGED <<store, order, org, faults, disturbed, cut>>

\* Only a lead in 'initiated' is processed.
FindLead(h) ==
    LET e == email[order[h]] IN
    /\ pc[h] = "findLead"
    /\ \/ /\ lead[order[h]] = "initiated"
          /\ Goto(h, "organization")
          /\ contended' = IF Contending(e) = {} THEN contended
                                                ELSE contended \union {e}
       \/ /\ lead[order[h]] # "initiated"
          /\ Goto(h, "idle")
          /\ UNCHANGED contended
    /\ UNCHANGED <<store, order, org, faults, disturbed, cut>>

\* Organization.findOne by the lead's address; with several, any of them.
FindOrganization(h) ==
    LET found == OrgsOf(email[order[h]]) IN
    /\ pc[h] = "organization"
    /\ \/ /\ found = {}
          /\ Goto(h, "isEmailTaken")
          /\ UNCHANGED org
       \/ \E g \in found :
             /\ org' = [org EXCEPT ![h] = {g}]
             /\ Goto(h, "grant")
    /\ UNCHANGED <<store, order, faults, history>>

\* (Mutant) the check of the address is left to the unique index.
IsEmailTakenSkipped(h) ==
    /\ pc[h] = "isEmailTaken"
    /\ Goto(h, "createOrganization")
    /\ UNCHANGED <<store, order, org, faults, history>>

\* createOrganization: User.isEmailTaken.
IsEmailTaken(h) ==
    /\ pc[h] = "isEmailTaken"
    /\ Goto(h, IF email[order[h]] \in users THEN "findTaken"
                                            ELSE "createOrganization")
    /\ UNCHANGED <<store, order, org, faults, history>>

\* (Mutant) the second lookup is trusted to find the organization.
FindTakenBlindly(h) ==
    /\ pc[h] = "findTaken"
    /\ org' = [org EXCEPT ![h] = OrgsOf(email[order[h]])]
    /\ Goto(h, "grant")
    /\ UNCHANGED <<store, order, faults, history>>

\* 'Email already taken': look for the organization again, or give up.
FindTaken(h) ==
    LET found == OrgsOf(email[order[h]]) IN
    /\ pc[h] = "findTaken"
    /\ \/ /\ found = {}
          /\ Goto(h, "failLead")
          /\ UNCHANGED org
       \/ \E g \in found :
             /\ org' = [org EXCEPT ![h] = {g}]
             /\ Goto(h, "grant")
    /\ UNCHANGED <<store, order, faults, history>>

\* createOrganization: Organization.create ...
CreateOrganization(h) ==
    LET e == email[order[h]]
        g == <<e, Cardinality(OrgsOf(e)) + 1>>
    IN
    /\ pc[h] = "createOrganization"
    /\ orgs' = orgs \union {g}
    /\ org' = [org EXCEPT ![h] = {g}]
    /\ Goto(h, "createUser")
    /\ UNCHANGED <<form, lead, gateway, payment, payOrg, users, admins, subs,
                   order, faults, history>>

\* ... then User.create, which the unique index refuses for a known address.
CreateUser(h) ==
    LET e == email[order[h]] IN
    /\ pc[h] = "createUser"
    /\ \/ /\ e \notin users
          /\ users' = users \union {e}
          /\ admins' = admins \union org[h]
          /\ Goto(h, "grant")
          /\ UNCHANGED org
       \/ /\ e \in users
          /\ Goto(h, "failLead")
          /\ org' = [org EXCEPT ![h] = {}]
          /\ UNCHANGED <<users, admins>>
    /\ UNCHANGED <<form, lead, gateway, payment, payOrg, orgs, subs, order,
                   faults, history>>

GrantSubscription(h) ==
    LET o == order[h] IN
    /\ pc[h] = "grant"
    /\ \E g \in org[h] :
          subs' = subs \union {<<o, g, Cardinality(SubsOf(o)) + 1>>}
    /\ Goto(h, "savePayment")
    /\ UNCHANGED <<form, lead, gateway, payment, payOrg, orgs, users, admins,
                   order, org, faults, history>>

\* (Mutant) the payment row is closed without the organization it was for.
SavePaymentBare(h) ==
    /\ pc[h] = "savePayment"
    /\ payment' = [payment EXCEPT ![order[h]] = "TXN_SUCCESS"]
    /\ Goto(h, "saveLead")
    /\ UNCHANGED <<form, lead, gateway, payOrg, orgs, users, admins, subs, order,
                   org, faults, history>>

SavePayment(h) ==
    LET o == order[h] IN
    /\ pc[h] = "savePayment"
    /\ payment' = [payment EXCEPT ![o] = "TXN_SUCCESS"]
    /\ payOrg' = [payOrg EXCEPT ![o] = org[h]]
    /\ Goto(h, "saveLead")
    /\ UNCHANGED <<form, lead, gateway, orgs, users, admins, subs, order, org,
                   faults, history>>

SaveLead(h) ==
    /\ pc[h] = "saveLead"
    /\ lead' = [lead EXCEPT ![order[h]] = "success"]
    /\ Goto(h, "idle")
    /\ UNCHANGED <<form, gateway, payment, payOrg, orgs, users, admins, subs,
                   order, org, faults, history>>

-----------------------------------------------------------------------------
(* The catch block: the lead fails, then the payment.  Here org is what    *)
(* the payment document in memory still has to save of the try block.      *)

FailLead(h) ==
    /\ pc[h] = "failLead"
    /\ lead' = [lead EXCEPT ![order[h]] = "failed"]
    /\ Goto(h, "failPayment")
    /\ UNCHANGED <<form, gateway, payment, payOrg, orgs, users, admins, subs,
                   order, org, faults, history>>

\* (Mutant) the failure is logged but the payment row is left as it was.
FailPaymentForgets(h) ==
    /\ pc[h] = "failPayment"
    /\ Goto(h, "idle")
    /\ UNCHANGED <<store, order, org, faults, history>>

FailPayment(h) ==
    /\ pc[h] = "failPayment"
    /\ payment' = [payment EXCEPT ![order[h]] = "FAILED"]
    /\ payOrg' = [payOrg EXCEPT ![order[h]] = IF org[h] = {} THEN @ ELSE org[h]]
    /\ Goto(h, "idle")
    /\ UNCHANGED <<form, lead, gateway, orgs, users, admins, subs, order,
                   org, faults, history>>

-----------------------------------------------------------------------------
(* Faults: the awaited call of a handler throws, or its process dies.      *)

\* The call throws: inside the try block the catch block runs, anywhere else
\* the request ends with an error.  A grant may throw after its row is there,
\* and the row of a created organization stays.
Throw(h) ==
    /\ pc[h] \in Trying
    /\ \/ UNCHANGED subs
       \/ /\ pc[h] = "grant"
          /\ \E g \in org[h] :
                subs' = subs \union
                    {<<order[h], g, Cardinality(SubsOf(order[h])) + 1>>}
    /\ org' = [org EXCEPT ![h] = IF pc[h] = "savePayment" THEN @ ELSE {}]
    /\ Goto(h, "failLead")
    /\ UNCHANGED cut

Die(h) ==
    /\ pc[h] # "idle"
    /\ cut' = IF pc[h] = "failPayment" THEN cut \union {order[h]} ELSE cut
    /\ Goto(h, "idle")
    /\ UNCHANGED <<subs, org>>

Strike(h) ==
    LET o == order[h] IN
    /\ faults < MaxFaults
    /\ faults' = faults + 1
    /\ Throw(h) \/ Die(h)
    /\ disturbed' = IF {s \in subs' : s[1] = o} # {} THEN disturbed \union {o}
                                                     ELSE disturbed
    /\ contended' = IF pc[h] = "createUser" THEN contended \union {email[o]}
                                            ELSE contended
    /\ UNCHANGED <<form, lead, gateway, payment, payOrg, orgs, users, admins,
                   order>>

-----------------------------------------------------------------------------
Step(h) ==
    \/ FindPayment(h) \/ FindLead(h) \/ FindOrganization(h) \/ IsEmailTaken(h)
    \/ FindTaken(h) \/ CreateOrganization(h) \/ CreateUser(h)
    \/ GrantSubscription(h) \/ SavePayment(h) \/ SaveLead(h)
    \/ FailLead(h) \/ FailPayment(h)

Checkout(o) == CreateLead(o) \/ OpenOrder(o) \/ CreatePayment(o) \/ Capture(o)

Next ==
    \/ \E o \in Orders : Checkout(o)
    \/ \E o \in Orders, h \in Handlers : Notify(o, h)
    \/ \E h \in Handlers : Step(h)
    \/ \E h \in Handlers : Strike(h)

\* A request runs to its end unless a fault stops it, and the gateway repeats
\* the notification of an order that is not settled.
Fairness ==
    /\ \A h \in Handlers : WF_vars(Step(h))
    /\ \A o \in Orders :
          SF_vars(payment[o] = "CREATED" /\ \E h \in Handlers : Notify(o, h))

Spec == Init /\ [][Next]_vars /\ Fairness

-----------------------------------------------------------------------------
(* Properties.                                                             *)

\* State types: rows have the statuses the code writes, a handler past the
\* organization lookup holds an organization, rows refer to rows that exist.
TypeOK ==
    /\ email \in [Orders -> Emails]
    /\ via \in [Orders -> {"stripe", "razorpay"}]
    /\ lead \in [Orders -> {"absent", "initiated", "success", "failed"}]
    /\ gateway \in [Orders -> {"absent", "open", "captured"}]
    /\ payment \in [Orders -> {"absent", "CREATED", "TXN_SUCCESS", "FAILED"}]
    /\ payOrg \in [Orders -> SUBSET orgs]
    /\ orgs \subseteq Emails \X (Nat \ {0})
    /\ users \subseteq Emails
    /\ admins \subseteq orgs
    /\ \A s \in subs : s[1] \in Orders /\ s[2] \in orgs /\ s[3] \in Nat
    /\ pc \in [Handlers -> Stages]
    /\ order \in [Handlers -> Orders]
    /\ org \in [Handlers -> SUBSET orgs]
    /\ \A h \in Handlers :
          pc[h] \in {"createUser", "grant", "savePayment", "saveLead"}
              => Cardinality(org[h]) = 1
    /\ faults \in 0 .. MaxFaults
    /\ disturbed \subseteq Orders /\ cut \subseteq Orders
    /\ contended \subseteq Emails

\* A payment that is TXN_SUCCESS names an organization, and that organization
\* was granted a subscription for this very order: however many handlers raced
\* on the row and whichever of them failed, the last one that reported success
\* reported its own grant (payment.service.ts:103-120).
SuccessIsBacked ==
    \A o \in Orders : payment[o] = "TXN_SUCCESS" =>
        /\ payOrg[o] # {}
        /\ \A g \in payOrg[o] : \E s \in SubsOf(o) : s[2] = g

\* Two organizations with one address, or an organization with subscriptions
\* and nobody to administer it, come only from resolutions of that address at
\* the same time, or from a fault between the organization and its admin: there
\* is no transaction and no unique index (organizations.service.ts:86-105).
ContentionOnly ==
    \A e \in Emails : e \notin contended =>
        /\ Cardinality(OrgsOf(e)) <= 1
        /\ \A s \in subs : s[2][1] = e => s[2] \in admins

Outcome(o) ==
    CASE payment[o] = "TXN_SUCCESS" -> "paid"
      [] payment[o] = "FAILED"      -> "failed"
      [] OTHER                      -> "open"

Book == INSTANCE OrderBook WITH
            grants    <- [o \in Orders |-> Cardinality(SubsOf(o))],
            outcome   <- [o \in Orders |-> Outcome(o)],
            disturbed <- disturbed

\* The handlers implement the order book: an order whose notifications were
\* handled one after the other and unharmed, however often the gateway repeats
\* them, is settled once, with one subscription if it is paid and none if it
\* failed (payment.service.ts:51-67 and 138-156).
ImplementsOrderBook == Book!Spec

Settled(o) == payment[o] \in {"TXN_SUCCESS", "FAILED"} \/ o \in cut

\* An order captured by Stripe is recorded as paid or failed in the end, unless
\* the process died between the two writes of the catch block: then the failed
\* lead turns every later notification away and the payment stays CREATED for
\* good (payment.service.ts:58-67 and 138-145).
CapturedIsSettled ==
    \A o \in Orders :
        (gateway[o] = "captured" /\ via[o] = "stripe") ~> Settled(o)

\* What the tests of the checkout say of Razorpay: its webhook provisions a
\* captured order.  Their verifiers are mocks that accept everything; the real
\* ones compare one header with the signatures of two different texts
\* (public-checkout.controller.ts:82-115, razorpay.service.ts:54-86).
RazorpayIsSettled ==
    \A o \in Orders :
        (gateway[o] = "captured" /\ via[o] = "razorpay") ~> Settled(o)
=============================================================================
