---------------------------- MODULE MCBackOffice ----------------------------
(* TLC instance of BackOffice. *)
EXTENDS BackOffice, MCQuestions

OneDayAndSameDay == <<1, 0>>

\* An administrator, an operator with an id made from an older name of the company, and
\* one from before the ids.
OldPrefixes == [o1 |-> "BE", o2 |-> "AC"]
Person(where, role, id, pin, mail) ==
    [org |-> where, role |-> role, id |-> id, pin |-> pin, mail |-> mail, status |-> 1]
FirstPeople == [a |-> Person("o1", "ORGANIZATION_ADMIN", <<"none", 0>>, FALSE, "m1"),
                b |-> Person("o2", "OPERATOR", <<"AC", 1>>, TRUE, "none"),
                d |-> Person("o1", "OPERATOR", <<"none", 0>>, FALSE, "none")]

\* Rows in rupees from before the migrations, of every cycle, with prices that follow and
\* one that was given; no row with a discount and a quarterly price that rounds.
Rupees(price, discount, quarterly, cycle) ==
    [name |-> "a", price |-> price, discount |-> discount, quarterly |-> quarterly, cycle |-> cycle,
     currency |-> "inr", custom |-> FALSE, status |-> 1, version |-> 1]
Body(name, price, discount, quarterly, cycle) ==
    [name |-> name, price |-> price, discount |-> discount, quarterly |-> quarterly, cycle |-> cycle]
Change(name, price, discount, quarterly, cycle, to) ==
    [name |-> name, price |-> price, discount |-> discount, quarterly |-> quarterly, cycle |-> cycle,
     status |-> to]
InRupees == {Rupees(149900, 0, Keep, ""), Rupees(9950, 10, 26865, "month"),
             Rupees(149933, 33, 301365, "quarterly"), Rupees(20000, 10, 30, "month")}
Bodies == {Body("a", 1999, 0, Keep, "month"), Body("b", 1999, 10, 5000, "quarterly")}
Changes == {Change("b", Keep, Keep, Keep, Keep, Keep), Change(Keep, 2500, Keep, Keep, Keep, Keep),
            Change(Keep, Keep, 33, Keep, Keep, Keep), Change(Keep, Keep, Keep, 7000, Keep, Keep),
            Change(Keep, Keep, Keep, 0, Keep, Keep),
            Change(Keep, Keep, Keep, Keep, "quarterly", Keep),
            Change(Keep, Keep, Keep, Keep, Keep, "toggle"), Change(Keep, Keep, Keep, Keep, Keep, "delete")}

TwoEach == [r \in 1..2 |-> {<<r, 1>>, <<r, 2>>}]
Counts == <<2, 1, 0>>

\* A body of the new form and one of the old, with names of its own.
Company(name, contact1) == [company |-> name, country |-> "", contact |-> contact1, status |-> 1]
Owner(name, contact1) == [name |-> "A", company |-> name, country |-> "", contact |-> contact1]
CountryNames == [IN |-> "India", US |-> "USA", India |-> "India"]
Beginnings == {[org |-> Company("X", "1"), admin |-> Owner("X", "1"), country |-> "IN"],
               [org |-> Company("X", "1"), admin |-> Owner("Y", "1"), country |-> "unknown"]}
CompanyEdits == {[company |-> "Z"], [company |-> "Y", contact |-> ""], [country |-> "US", name |-> "B"],
                 [country |-> "unknown"]}
ProfileEdits == {[company |-> "W"], [country |-> "IN", contact |-> "2"], [contact |-> "3"]}
=============================================================================
