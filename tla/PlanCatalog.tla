----------------------------- MODULE PlanCatalog -----------------------------
(***************************************************************************)
(* Plans and what they cost: services/admin/plans.service.ts, the price    *)
(* arithmetic of utils/plan-features.util.ts, and the two migrations of    *)
(* prices, scripts/migrate-plan-currency-usd.ts and                        *)
(* scripts/migrate-plan-billing-cycle.ts.                                  *)
(*                                                                         *)
(* Prices are in cents.  A plan is edited as Mongoose does: the document   *)
(* is read, changed, and the fields that changed are written.  The         *)
(* quarterly price is stored, and follows from fields that another request *)
(* may have changed in between.                                            *)
(*                                                                         *)
(* Left out: descriptions, features, flags, trial days, the list's filters *)
(* and order.  Names that differ in case only are one name.                *)
(***************************************************************************)
EXTENDS Integers, FiniteSets

CONSTANTS Callers, Ids,
          Legacy,           \* the plans there are at first
          NewPlans,         \* bodies of createPlan
          Edits,            \* bodies of updatePlanById
          MaxPlanRequests,  \* bound of the requests
          Keep              \* a field that is not in the body

NoPlan == [status |-> 2, name |-> "", version |-> 0]
Idle == [op |-> "none"]

VARIABLES plans,
          call,            \* what each request has read
          migration,       \* what the currency migration has read, by plan
          planRequests,
          crossed,         \* history: plans written from a copy that was out of date
          nameRaces,       \* history: a name was taken between the check and the write
          override         \* history: the quarterly price given for a plan; Keep: none

vars == <<plans, call, migration, planRequests, crossed, nameRaces, override>>

-----------------------------------------------------------------------------
(* Prices.                                                                 *)

\* Three months less the discount, rounded to cents, unless a price is given.
computeQuarterlyPrice(price, discount, given) ==
    IF given \notin {Keep, 0} THEN given ELSE (300 * price - 3 * price * discount + 50) \div 100

\* -1 is PLAN_QUARTERLY_PRICE_REQUIRED; Keep, a null price, of a plan that predates it.
priceForCycle(plan, cycle) ==
    IF cycle # "quarterly" THEN plan.price ELSE IF plan.quarterly = Keep THEN -1 ELSE plan.quarterly

\* -2 is PLAN_CYCLE_MISMATCH; Keep asks for the plan's own cycle, "" one it has not got.
resolvePlanPrice(plan, requested) ==
    LET own == IF plan.cycle = "" THEN "month" ELSE plan.cycle
        cycle == IF requested = Keep THEN own ELSE requested
    IN IF cycle # own THEN -2 ELSE priceForCycle(plan, cycle)

listPublicPlans == {i \in Ids : plans[i].status = 1 /\ ~plans[i].custom}
planNameTaken(name, exclude) == \E i \in Ids \ exclude : plans[i].status # 2 /\ plans[i].name = name

\* A quarterly price that does not follow from the others was given.
Init ==
    /\ plans \in [Ids -> {NoPlan} \union Legacy] /\ \E i \in Ids : plans[i] = NoPlan
    /\ \A i \in Ids : plans[i] # NoPlan => ~planNameTaken(plans[i].name, {i})
    /\ call = [c \in Callers |-> Idle]
    /\ migration = [i \in {} |-> 0]
    /\ planRequests = 0 /\ crossed = {} /\ nameRaces = FALSE
    /\ override = [i \in Ids |->
         IF plans[i] = NoPlan \/ plans[i].quarterly = computeQuarterlyPrice(plans[i].price, plans[i].discount, Keep)
         THEN Keep ELSE plans[i].quarterly]

-----------------------------------------------------------------------------
(* Requests.                                                               *)

Ask(c, what) ==
    /\ call[c] = Idle /\ planRequests < MaxPlanRequests
    /\ planRequests' = planRequests + 1
    /\ call' = [call EXCEPT ![c] = what]

Answer(c) == call' = [call EXCEPT ![c] = Idle]

\* createPlan: the name is free.
CreateCheck(c, body) ==
    /\ ~planNameTaken(body.name, {})
    /\ Ask(c, [op |-> "create", body |-> body])
    /\ UNCHANGED <<plans, migration, crossed, nameRaces, override>>

CreateInsert(c, i) ==
    LET body == call[c].body
    IN /\ call[c].op = "create" /\ plans[i] = NoPlan
       /\ plans' = [plans EXCEPT ![i] =
            [name |-> body.name, price |-> body.price, discount |-> body.discount, cycle |-> body.cycle,
             quarterly |-> computeQuarterlyPrice(body.price, body.discount, body.quarterly),
             currency |-> "usd", custom |-> FALSE, status |-> 1, version |-> 1]]
       /\ override' = [override EXCEPT ![i] = IF body.quarterly = 0 THEN Keep ELSE body.quarterly]
       /\ nameRaces' = (nameRaces \/ planNameTaken(body.name, {}))
       /\ Answer(c)
       /\ UNCHANGED <<migration, planRequests, crossed>>

\* updatePlanById, updatePlanStatusById, deletePlanById: getPlanById.
Find(c, i, edit) ==
    /\ plans[i].status # 2
    /\ Ask(c, [op |-> "check", id |-> i, plan |-> plans[i], body |-> edit])
    /\ UNCHANGED <<plans, migration, crossed, nameRaces, override>>

\* The name, if there is one, must be free; else the request fails.
CheckName(c) ==
    LET name == call[c].body.name IN
    /\ call[c].op = "check"
    /\ IF name # Keep /\ planNameTaken(name, {call[c].id}) THEN Answer(c)
       ELSE call' = [call EXCEPT ![c].op = "save"]
    /\ UNCHANGED <<plans, migration, planRequests, crossed, nameRaces, override>>

Given(new, old) == IF new = Keep THEN old ELSE new

(* Mutant: another cycle does not price the plan anew. *)
CycleKeepsPrice(plan, body) ==
    IF body.price = Keep /\ body.discount = Keep /\ body.quarterly = Keep THEN plan.quarterly
    ELSE computeQuarterlyPrice(Given(body.price, plan.price), Given(body.discount, plan.discount), body.quarterly)

\* The quarterly price an edit leaves a plan with.  A price given earlier is not kept.
Repriced(plan, body) ==
    IF body.price = Keep /\ body.discount = Keep /\ body.quarterly = Keep /\ body.cycle = Keep
    THEN plan.quarterly
    ELSE computeQuarterlyPrice(Given(body.price, plan.price), Given(body.discount, plan.discount), body.quarterly)

\* save: the fields that differ from those read, a cycle by default, and updated_at
\* (version).
Save(c) ==
    LET i == call[c].id
        held == call[c].plan
        body == call[c].body
        repriced == Repriced(held, body)
        status == CASE body.status = "toggle" -> IF held.status = 1 THEN 0 ELSE 1
                    [] body.status = "delete" -> 2
                    [] OTHER -> held.status
        cycle == IF body.cycle = Keep /\ held.cycle = "" THEN "month" ELSE Given(body.cycle, held.cycle)
        now == plans[i]
        written(new, old, current) == IF new = old THEN current ELSE new
        edited(new, old, current) == written(Given(new, old), old, current)
    IN /\ call[c].op = "save"
       /\ plans' = [plans EXCEPT ![i] =
            [name |-> edited(body.name, held.name, now.name),
             price |-> edited(body.price, held.price, now.price),
             discount |-> edited(body.discount, held.discount, now.discount),
             cycle |-> written(cycle, held.cycle, now.cycle),
             quarterly |-> written(repriced, held.quarterly, now.quarterly),
             status |-> written(status, held.status, now.status),
             currency |-> now.currency, custom |-> now.custom, version |-> now.version + 1]]
       /\ override' = [override EXCEPT ![i] =
            IF body.quarterly \notin {Keep, 0} THEN body.quarterly
            ELSE IF body.price = Keep /\ body.discount = Keep /\ body.quarterly = Keep /\ body.cycle = Keep
                 THEN @ ELSE Keep]
       /\ crossed' = IF plans[i].version # held.version THEN crossed \union {i} ELSE crossed
       /\ nameRaces' = (nameRaces \/ (body.name # Keep /\ planNameTaken(body.name, {i})))
       /\ Answer(c)
       /\ UNCHANGED <<migration, planRequests>>

-----------------------------------------------------------------------------
(* Migrations.                                                             *)

\* migrate-plan-billing-cycle: one updateMany.
MigrateCycles ==
    /\ \E i \in Ids : plans[i] # NoPlan /\ plans[i].cycle = ""
    /\ plans' = [i \in Ids |-> IF plans[i] # NoPlan /\ plans[i].cycle = ""
                               THEN [plans[i] EXCEPT !.cycle = "month"] ELSE plans[i]]
    /\ UNCHANGED <<call, migration, planRequests, crossed, nameRaces, override>>

\* migrate-plan-currency-usd: the plans in rupees, deleted ones too.
MigrateFind ==
    LET legacy == {i \in Ids : plans[i] # NoPlan /\ plans[i].currency = "inr"}
    IN /\ DOMAIN migration = {} /\ legacy # {}
       /\ migration' = [i \in legacy |-> plans[i]]
       /\ UNCHANGED <<plans, call, planRequests, crossed, nameRaces, override>>

\* A hundredth in cents, round2.
Rescaled(cents) == (cents + 50) \div 100
MinRupees == 100 * 100

\* The update of one plan, from what was read; below 100 rupees only the currency.
MigrateWrite(i) ==
    LET held == migration[i]
        now == plans[i]
        small == held.price < MinRupees
        price == IF small THEN now.price ELSE Rescaled(held.price)
        quarterly == IF small \/ held.quarterly \in {Keep, 0} THEN now.quarterly ELSE Rescaled(held.quarterly)
    IN /\ plans' = [plans EXCEPT ![i] =
            [name |-> now.name, price |-> price, discount |-> now.discount, cycle |-> now.cycle,
             quarterly |-> quarterly, status |-> now.status,
             currency |-> "usd", custom |-> now.custom, version |-> now.version + 1]]
       /\ override' = [override EXCEPT ![i] = IF small \/ @ = Keep THEN @ ELSE Rescaled(@)]
       /\ crossed' = IF plans[i].version # held.version THEN crossed \union {i} ELSE crossed
       /\ migration' = [j \in DOMAIN migration \ {i} |-> migration[j]]
       /\ UNCHANGED <<call, planRequests, nameRaces>>

Next ==
    \/ \E c \in Callers :
        \/ \E body \in NewPlans : CreateCheck(c, body)
        \/ \E i \in Ids : CreateInsert(c, i) \/ \E edit \in Edits : Find(c, i, edit)
        \/ CheckName(c) \/ Save(c)
    \/ MigrateCycles \/ MigrateFind
    \/ \E i \in DOMAIN migration : MigrateWrite(i)

Spec == Init /\ [][Next]_vars

-----------------------------------------------------------------------------
Present == {i \in Ids : plans[i] # NoPlan}

\* Type invariant: the fields of a plan, in either currency.
TypeOK ==
    /\ \A i \in Present :
          /\ plans[i].price \in Nat /\ plans[i].discount \in 0..100 /\ plans[i].quarterly \in Nat \union {Keep}
          /\ plans[i].cycle \in {"", "month", "quarterly"} /\ plans[i].currency \in {"inr", "usd"}
          /\ plans[i].status \in 0..2
    /\ DOMAIN migration \subseteq Present /\ crossed \subseteq Present
    /\ planRequests \in 0..MaxPlanRequests

\* Whatever was edited and migrated, a plan's quarterly price is the one that was given
\* since its price, discount or cycle was last set, else the one that follows from its
\* price and discount, to two cents where a migration rounded both; unless two writers
\* crossed on it.  A price that is missing since before is left missing.
PricesFollow ==
    \A i \in Present \ crossed :
        LET p == plans[i]
            due == computeQuarterlyPrice(p.price, p.discount, Keep)
        IN \/ p.quarterly \in {Keep, override[i]}
           \/ override[i] = Keep /\ p.quarterly \in due - 2..due + 2

\* Every plan on sale has a price for the cycle it is sold on, and for no other.
SoldPlansHavePrice ==
    \A i \in listPublicPlans \ crossed :
        /\ resolvePlanPrice(plans[i], Keep) >= 0
        /\ \A cycle \in {"month", "quarterly"} :
              resolvePlanPrice(plans[i], cycle) \in {-2, resolvePlanPrice(plans[i], Keep)}

\* Two plans have one name only if it was taken between a check and a write, or while a
\* request had the other one in hand, and then a deleted plan can come back.
NamesAreUnique ==
    ~nameRaces => \A i, j \in Present \ crossed :
        (i # j /\ plans[i].status # 2 /\ plans[j].status # 2) => plans[i].name # plans[j].name
=============================================================================
