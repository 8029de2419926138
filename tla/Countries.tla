------------------------------ MODULE Countries ------------------------------
(***************************************************************************)
(* Country names: services/country-resolver.service.ts, and the migration  *)
(* scripts/migrate-country-aliases.ts, which seeds the aliases and then    *)
(* renames what organizations and users have stored.                       *)
(*                                                                         *)
(* A label is a pair <<key, spelling>>: normalizeCountryKey folds case,    *)
(* accents and punctuation, so spellings of one key are one country to the *)
(* last look-up, and different strings to Mongo.  The table is a sequence  *)
(* of rows [code, name, aliases], in the order a find returns them; a code *)
(* is a key.                                                               *)
(*                                                                         *)
(* Left out: the code in another case, blank values, reports.              *)
(***************************************************************************)
EXTENDS Integers, FiniteSets, Sequences, SequencesExt

Key(label) == label[1]
None == <<>>

Names(row) == {row.name} \union ToSet(row.aliases)
Keys(row) == {Key(l) : l \in Names(row)}

(* Mutant: the fallback scan does not look at the aliases. *)
ScanNamesOnly(table, label) ==
    LET byCode == {i \in DOMAIN table : label = table[i].code}
        exact == {i \in DOMAIN table : label \in Names(table[i])}
        folded == {i \in DOMAIN table : Key(label) \in {Key(table[i].name), Key(table[i].code)}}
    IN IF byCode # {} THEN byCode ELSE IF exact # {} THEN exact ELSE folded

\* resolveCountry, by the code, by a name or alias as it is spelled, and folded: the
\* first of these rows is the answer.
resolveCountry(table, label) ==
    LET byCode == {i \in DOMAIN table : label = table[i].code}
        exact == {i \in DOMAIN table : label \in Names(table[i])}
        folded == {i \in DOMAIN table : Key(label) \in Keys(table[i]) \union {Key(table[i].code)}}
    IN IF byCode # {} THEN byCode ELSE IF exact # {} THEN exact ELSE folded

resolveCountryName(table, label) ==
    LET found == resolveCountry(table, label) IN IF found = {} THEN None ELSE table[Min(found)].name

\* The labels of a list that have a key no earlier one has.
uniqueAliases(list) ==
    LET kept == {i \in DOMAIN list : \A j \in 1..i - 1 : Key(list[j]) # Key(list[i])}
    IN [n \in 1..Cardinality(kept) |->
          list[CHOOSE i \in kept : Cardinality({j \in kept : j < i}) = n - 1]]

\* seedAliases: a row is saved if the number of its aliases changes.
seedAliases(table, byCode) ==
    [i \in DOMAIN table |->
        LET r == table[i]
            merged == IF r.code \in DOMAIN byCode THEN uniqueAliases(r.aliases \o byCode[r.code]) ELSE r.aliases
        IN IF Len(merged) # Len(r.aliases) THEN [r EXCEPT !.aliases = merged] ELSE r]

\* normalizeStores: what resolves to another name is rewritten.
normalizeStores(table, stored) ==
    [o \in DOMAIN stored |->
        LET name == resolveCountryName(table, stored[o]) IN IF name = None THEN stored[o] ELSE name]

-----------------------------------------------------------------------------
(* Properties of one table, the aliases to seed and what is stored.        *)

\* No key belongs to two countries, nor is it another one's code.
Unambiguous(table, byCode) ==
    \A i, j \in DOMAIN table : i # j =>
        LET claims(r) == Keys(r) \union {Key(r.code)}
                         \union (IF r.code \in DOMAIN byCode THEN {Key(l) : l \in ToSet(byCode[r.code])} ELSE {})
        IN claims(table[i]) \intersect claims(table[j]) = {}

\* The migration can be run again: a second run finds nothing to write, in a country's
\* aliases or in a store, if no label claims two countries.
MigrationIsIdempotent(table, byCode, stored) ==
    LET seeded == seedAliases(table, byCode)
        renamed == normalizeStores(seeded, stored)
    IN Unambiguous(table, byCode) =>
         /\ seedAliases(seeded, byCode) = seeded
         /\ normalizeStores(seeded, renamed) = renamed

\* After it, every spelling of a seeded alias means its country, and a store holds a
\* name of the table or what it held; unless a row kept its number of aliases, because
\* it lost a duplicate as it gained one.
AliasesResolve(table, byCode, stored) ==
    LET seeded == seedAliases(table, byCode)
        renamed == normalizeStores(seeded, stored)
        stuck(i) == seeded[i] = table[i]
    IN Unambiguous(table, byCode) =>
         /\ \A i \in DOMAIN table : table[i].code \in DOMAIN byCode /\ ~stuck(i) =>
               \A l \in ToSet(byCode[table[i].code]), spelling \in 1..2 :
                  resolveCountryName(seeded, <<Key(l), spelling>>) = table[i].name
         /\ \A o \in DOMAIN stored :
               renamed[o] = stored[o] \/ \E i \in DOMAIN table : renamed[o] = table[i].name

\* A name a write path has stored is left as it is by the next one.
ResolvedIsCanonical(table, byCode, stored) ==
    Unambiguous(table, byCode) => \A o \in DOMAIN stored :
        LET name == resolveCountryName(table, stored[o])
        IN name # None => resolveCountryName(table, name) = name
=============================================================================
