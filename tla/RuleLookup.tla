------------------------------- MODULE RuleLookup -------------------------------
(***************************************************************************)
(* The domain index of agent/internal/rules/lookup.go and the decision     *)
(* policy.Engine makes with it.  Names are abstract: a domain is a model   *)
(* value and Parents gives its enclosing domains, nearest first.  A rule   *)
(* file's content is the set of its entries, [base, sub]: ".example.com"   *)
(* has sub = TRUE, "example.com" sub = FALSE.  The order of a file's lines *)
(* does not matter, all of them belong to the file's one category.         *)
(***************************************************************************)
EXTENDS Integers, Sequences

CONSTANTS
    Domain,
    Parents,    \* Parents[d]: the domains above d, nearest first
    NoMatch     \* Lookup's "not found"

ASSUME ParentsAssumption == Parents \in [Domain -> Seq(Domain)]

Entry == [base : Domain, sub : BOOLEAN]

\* rules.Lookup: two partial functions from domains to categories.
EmptyLookup == [exact |-> <<>>, wildcard |-> <<>>]

\* Mutant: the last file that has a name wins.
OverridingIndexed(m, D, category) ==
    [d \in (DOMAIN m) \cup D |-> IF d \in D THEN category ELSE m[d]]

\* The names D enter the map m: a name already there keeps its category.
Indexed(m, D, category) ==
    [d \in (DOMAIN m) \cup D |-> IF d \in DOMAIN m THEN m[d] ELSE category]

\* The domains a file names, and those it opens to their subdomains.
NamedBy(src) == {e.base : e \in src.entries}
OpenedBy(src) == {e.base : e \in {f \in src.entries : f.sub}}

\* Lookup.add
AddSource(l, src) ==
    [exact    |-> Indexed(l.exact, NamedBy(src), src.category),
     wildcard |-> Indexed(l.wildcard, OpenedBy(src), src.category)]

\* rules.Build, file by file.
Built(sources) ==
    LET built[i \in 0..Len(sources)] ==
            IF i = 0 THEN EmptyLookup ELSE AddSource(built[i - 1], sources[i])
    IN  built

Build(sources) == Built(sources)[Len(sources)]

Least(S) == CHOOSE i \in S : \A j \in S : i <= j

\* Mutant: a wildcard above the domain wins over the domain itself.
LookupFromAbove(l, d) ==
    LET open == {k \in DOMAIN Parents[d] : Parents[d][k] \in DOMAIN l.wildcard}
    IN  IF open # {} THEN l.wildcard[Parents[d][Least(open)]]
        ELSE IF d \in DOMAIN l.exact THEN l.exact[d] ELSE NoMatch

\* Lookup.Lookup: an exact hit, else the nearest parent with a wildcard.
LookupDomain(l, d) ==
    IF d \in DOMAIN l.exact THEN l.exact[d]
    ELSE LET open == {k \in DOMAIN Parents[d] : Parents[d][k] \in DOMAIN l.wildcard}
         IN  IF open = {} THEN NoMatch ELSE l.wildcard[Parents[d][Least(open)]]

\* Engine.CheckDomain.  policies is the category_policies table; a category
\* without a row is denied.
CheckDomain(l, policies, d) ==
    LET category == LookupDomain(l, d)
    IN  IF category = NoMatch THEN "allow"
        ELSE IF category \in DOMAIN policies THEN policies[category]
        ELSE "deny"

-----------------------------------------------------------------------------
(* What the index promises, without building one.                          *)

\* The first file that has an entry of E, if one has.
FirstWith(sources, E) == {i \in DOMAIN sources : sources[i].entries \cap E # {}}

CategoryOf(sources, d) ==
    LET naming == FirstWith(sources, [base : {d}, sub : BOOLEAN])
        opening(k) == FirstWith(sources, {[base |-> Parents[d][k], sub |-> TRUE]})
        above == {k \in DOMAIN Parents[d] : opening(k) # {}}
    IN  IF naming # {} THEN sources[Least(naming)].category
        ELSE IF above # {} THEN sources[Least(opening(Least(above)))].category
        ELSE NoMatch
=============================================================================
