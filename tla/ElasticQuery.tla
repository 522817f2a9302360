------------------------------ MODULE ElasticQuery ------------------------------
(***************************************************************************)
(* The builder ElasticQuery (src/packages/elastic/src/entities/            *)
(* elastic.query.ts): a caller adds conditions one by one, and toJson()    *)
(* makes a query of them, which cleanupApiValueRecursively()               *)
(* (src/packages/http/src/api.utils.ts) strips of everything empty.        *)
(*                                                                         *)
(* A query is the set of the documents it matches.  Fields, pagination and *)
(* sort have no part in that; extra, which may replace the query, is left  *)
(* out.                                                                    *)
(***************************************************************************)
EXTENDS Integers, FiniteSets

CONSTANTS
  Fields,         \* the fields of a document
  FieldValues,    \* their values, in the order of time for a timestamp
  Missing,        \* the value of a field a document does not have
  Now,            \* Date.now()
  MaxConditions   \* bound on the conditions of a query

ASSUME QueryAssumption ==
  FieldValues \subseteq Nat /\ Missing \notin FieldValues /\ Now \in Nat /\ MaxConditions \in Nat

Docs == [Fields -> FieldValues \cup {Missing}]

VARIABLES
  condition,  \* the field condition, and filter and terms; the queries in each
  wanted,     \* history: the documents that satisfy all that must and must not be, and the filters
  anyOf,      \* history: those that satisfy one of the conditions of withShouldCondition()
  dropped,    \* history: whether a condition was asked for that the query does not have
  conditions  \* history: their number

queryVars == <<condition, wanted, anyOf, dropped, conditions>>

NoConditions == [must |-> {}, must_not |-> {}, should |-> {}, filter |-> {}, terms |-> {}]

QueryInit ==
  /\ condition = NoConditions
  /\ wanted = Docs /\ anyOf = {}
  /\ dropped = FALSE
  /\ conditions = 0

------------------------------------------------------------------------------
(* Queries *)

MatchDocs(f, v) == {d \in Docs : d[f] = v}
ExistsDocs(f) == {d \in Docs : d[f] # Missing}

\* gte and lte, each of them or both.
RangeDocs(f, low, high) == {d \in ExistsDocs(f) : low <= d[f] /\ d[f] <= high}

\* External: what Elasticsearch makes of a bool query.  Without minimum_should_match, one of the
\* queries in should has to match if nothing is in must and filter, and otherwise none.
BoolDocs(b, minimum) ==
  LET least == CASE minimum # "default" -> 1
                 [] b.must \cup b.filter = {} /\ b.should # {} -> 1
                 [] OTHER -> 0
  IN {d \in Docs : /\ \A q \in b.must \cup b.filter : d \in q
                   /\ \A q \in b.must_not : d \notin q
                   /\ least = 1 => \E q \in b.should : d \in q}

\* QueryType.Should() and Must(): cleaned up, one without queries is an empty bool, which matches
\* every document.
ShouldDocs(queries) == BoolDocs([NoConditions EXCEPT !.should = queries], "default")
MustDocs(queries, not) == BoolDocs([NoConditions EXCEPT !.must = queries, !.must_not = not], "default")

------------------------------------------------------------------------------
(* The builder; a condition whose value is undefined changes nothing. *)

Asked(n) ==
  /\ conditions + n <= MaxConditions
  /\ conditions' = conditions + n

\* withCondition()
Added(option, q) == [condition EXCEPT ![option] = @ \cup {q}]

\* withMustCondition(), withMustNotCondition() and withShouldCondition(), and the methods that
\* call them for one query.
WithCondition(q) ==
  /\ Asked(1)
  /\ \/ /\ condition' = Added("must", q)
        /\ wanted' = wanted \cap q
        /\ UNCHANGED anyOf
     \/ /\ condition' = Added("must_not", q)
        /\ wanted' = wanted \ q
        /\ UNCHANGED anyOf
     \/ /\ condition' = Added("should", q)
        /\ anyOf' = anyOf \cup q
        /\ UNCHANGED wanted
  /\ UNCHANGED dropped

\* The caller wants one of the alternatives to be satisfied.
OneOf(queries) ==
  /\ condition' = Added("must", ShouldDocs(queries))
  /\ wanted' = wanted \cap UNION queries
  /\ dropped' = (dropped \/ queries = {})
  /\ UNCHANGED anyOf

\* withMustMultiShouldCondition(): for no values the alternatives are an empty list.
WithMustMultiShould(f) == \E values \in SUBSET FieldValues :
  /\ Asked(1)
  /\ OneOf({MatchDocs(f, v) : v \in values})

\* withSearchCondition(): a term of the search is to be in one of the keys; terms that are shorter
\* than three letters are skipped.
WithSearch(keys) == \E term \in FieldValues :
  /\ Asked(1)
  /\ OneOf({MatchDocs(f, term) : f \in keys})

\* withRangeFilter()
WithRange(f, low, high) ==
  /\ Asked(1)
  /\ condition' = Added("filter", RangeDocs(f, low, high))
  /\ wanted' = wanted \cap RangeDocs(f, low, high)
  /\ UNCHANGED <<anyOf, dropped>>

\* withDateRangeFilter(): a lower limit that is missing is 0, an upper one now.  But a limit of 0 is
\* like undefined if the other is missing or 0 too, and the range that was asked for is dropped.
WithDateRange(f) == \E before, after \in FieldValues \cup {Missing} :
  LET high == IF before = Missing THEN Now ELSE before
      low  == IF after = Missing THEN 0 ELSE after
      nothing == before = Missing /\ after = Missing
  IN IF before \in {0, Missing} /\ after \in {0, Missing}
     THEN /\ Asked(1)
          /\ wanted' = IF nothing THEN wanted ELSE wanted \cap RangeDocs(f, low, high)
          /\ dropped' = (dropped \/ ~nothing)
          /\ UNCHANGED <<condition, anyOf>>
     ELSE WithRange(f, low, high)

\* withTerms(): documents with one of the values; the terms replace those before, which are dropped.
WithTerms(f) == \E values \in SUBSET FieldValues \ {{}} :
  /\ Asked(1)
  /\ condition' = [condition EXCEPT !.terms = {UNION {MatchDocs(f, v) : v \in values}}]
  /\ wanted' = wanted \cap UNION {MatchDocs(f, v) : v \in values}
  /\ dropped' = (dropped \/ condition.terms # {})
  /\ UNCHANGED anyOf

\* Another query: create()
Create ==
  /\ conditions > 0
  /\ condition' = NoConditions /\ wanted' = Docs /\ anyOf' = {}
  /\ dropped' = FALSE /\ conditions' = 0

------------------------------------------------------------------------------
(* toJson() *)

\* Mutant of MinimumShouldMatch: left to Elasticsearch.
MinimumLeftOut(should) == "default"

MinimumShouldMatch(should) == IF should # {} THEN "one" ELSE "default"

BoolIsEmpty == \A option \in {"must", "must_not", "should", "filter"} : condition[option] = {}

\* Elasticsearch refuses terms beside a bool.
WellFormed == condition.terms = {} \/ BoolIsEmpty

\* A bool without conditions is deleted, and without terms the query matches all.
ToJson == IF ~BoolIsEmpty
  THEN BoolDocs(condition, MinimumShouldMatch(condition.should))
  ELSE IF condition.terms = {} THEN Docs ELSE UNION condition.terms

QueryNext ==
  \/ \E f \in Fields :
       \/ \E v \in FieldValues : WithCondition(MatchDocs(f, v))
       \/ WithCondition(ExistsDocs(f))
       \/ WithMustMultiShould(f) \/ WithDateRange(f) \/ WithTerms(f)
       \/ \E low, high \in FieldValues : WithRange(f, low, high)
       \/ \E v \in FieldValues, not \in FieldValues :
            WithCondition(MustDocs({MatchDocs(f, v)}, {MatchDocs(f, not)}))
  \/ \E keys \in SUBSET Fields : WithSearch(keys)
  \/ Create

QuerySpec == QueryInit /\ [][QueryNext]_queryVars

------------------------------------------------------------------------------
(* Properties *)

\* A query that Elasticsearch accepts finds the documents that satisfy every condition the caller
\* asked for, and one of the alternatives if there are any, in whatever number and order they were
\* added.  It finds more, and never less, where the builder has dropped a condition: a list of no
\* alternatives, a date range up to or from 0 only, or all but the last of several withTerms().
QueryFindsAsked == WellFormed =>
  LET asked == IF condition.should = {} THEN wanted ELSE wanted \cap anyOf
  IN asked \subseteq ToJson /\ (ToJson \subseteq asked \/ dropped)

=============================================================================
