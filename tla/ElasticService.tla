----------------------------- MODULE ElasticService -----------------------------
(***************************************************************************)
(* ElasticService (src/packages/elastic/src/elastic.service.ts):           *)
(* getScrollableList(), which passes everything a query finds to an action *)
(* page by page while the index changes, requests fail and the scroll may  *)
(* expire; and the custom values of a document, which searches see only    *)
(* after the next refresh of the index.                                    *)
(***************************************************************************)
EXTENDS Integers, Sequences, SequencesExt

CONSTANTS
  Documents,    \* the number of documents in the index at first
  PageSize,     \* the size of the query
  Attributes,   \* the attributes of custom values
  Versions,     \* the values they are given
  MaxOutages    \* bound on failed requests and actions

ASSUME ElasticAssumption ==
  Documents \in Nat /\ PageSize \in Nat \ {0} /\ MaxOutages \in Nat

VARIABLES
  index,      \* the documents a query finds now, numbered in the order they came
  snapshot,   \* external: what the scroll is about, as it was when it began
  unread,     \* external: what the scroll has not returned yet
  scroll,     \* external: "none", "open", "deleted" or "expired"
  acted,      \* the documents action() was called for
  page,       \* the page that is to be passed to action()
  lister,     \* the step of getScrollableList(), or how it ended
  custom,     \* the custom values of one document
  searchable, \* ... as searches find them
  outages

elasticVars == <<index, snapshot, unread, scroll, acted, page, lister, custom, searchable, outages>>

ElasticInit ==
  /\ index = [i \in 1..Documents |-> i]
  /\ snapshot = <<>> /\ unread = <<>> /\ scroll = "none"
  /\ acted = <<>> /\ page = <<>>
  /\ lister = "idle"
  /\ custom = [a \in Attributes |-> 0] /\ searchable = custom
  /\ outages = 0

Outage == outages < MaxOutages /\ outages' = outages + 1

Page(s) == SubSeq(s, 1, IF PageSize < Len(s) THEN PageSize ELSE Len(s))
After(s) == SubSeq(s, PageSize + 1, Len(s))

------------------------------------------------------------------------------
(* getScrollableList() *)

\* The search opens the scroll and answers its first page; an error is thrown, and if its answer
\* was lost the scroll stays open until it expires.
Search ==
  /\ lister \in {"idle", "returned", "thrown"}
  /\ scroll \in {"none", "deleted", "expired"}
  /\ acted' = <<>>
  /\ \/ /\ snapshot' = index
        /\ unread' = After(index) /\ scroll' = "open"
        /\ \/ page' = Page(index) /\ lister' = "act" /\ UNCHANGED outages
           \/ Outage /\ lister' = "thrown" /\ page' = <<>>
     \/ /\ Outage
        /\ lister' = "thrown" /\ page' = <<>>
        /\ snapshot' = <<>> /\ unread' = <<>> /\ scroll' = "none"
  /\ UNCHANGED <<index, custom, searchable>>

\* The first page is passed to action() even if it is empty.
Act ==
  /\ lister = "act"
  /\ acted' = acted \o page
  /\ page' = <<>>
  /\ \/ lister' = "scroll" /\ UNCHANGED outages
     \/ Outage /\ lister' = "failed"
  /\ UNCHANGED <<index, snapshot, unread, scroll, custom, searchable>>

\* Mutant of IsLast: the last page is the first that is not full.
IsLastUnfilled(documents) == Len(documents) < PageSize

IsLast(documents) == documents = <<>>

\* The next page; a page whose answer is lost is not returned again, and a scroll that expired
\* while action() was busy is an error.
NextPage ==
  /\ lister = "scroll"
  /\ \/ /\ scroll = "open"
        /\ page' = Page(unread) /\ unread' = After(unread)
        /\ lister' = IF IsLast(Page(unread)) THEN "read" ELSE "act"
        /\ UNCHANGED outages
     \/ /\ scroll # "open" \/ outages < MaxOutages
        /\ outages' = IF scroll = "open" THEN outages + 1 ELSE outages
        /\ unread' \in {unread, After(unread)}
        /\ lister' = "failed" /\ UNCHANGED page
  /\ UNCHANGED <<index, snapshot, scroll, acted, custom, searchable>>

\* In the end, and after every error, the scroll is deleted; an error of that is thrown instead.
DeleteScroll ==
  /\ lister \in {"read", "failed"}
  /\ \/ /\ scroll' = "deleted"
        /\ lister' = IF lister = "read" THEN "returned" ELSE "thrown"
        /\ UNCHANGED outages
     \/ /\ Outage
        /\ scroll' \in {scroll, "deleted"}
        /\ lister' = "thrown"
  /\ page' = <<>>
  /\ UNCHANGED <<index, snapshot, unread, acted, custom, searchable>>

ScrollExpires ==
  /\ scroll = "open"
  /\ scroll' = "expired"
  /\ UNCHANGED <<index, snapshot, unread, acted, page, lister, custom, searchable, outages>>

\* A document is indexed, or the oldest removed.
IndexChanges ==
  /\ \/ Len(index) <= Documents /\ index' = Append(index, Documents + 1)
     \/ index # <<>> /\ index' = Tail(index)
  /\ UNCHANGED <<snapshot, unread, scroll, acted, page, lister, custom, searchable, outages>>

------------------------------------------------------------------------------
(* Custom values: setCustomValue() and setCustomValues() update some attributes of the document
   and leave the others; an update that fails is thrown, executed or not. *)

SetCustomValues == \E dict \in UNION {[S -> Versions] : S \in SUBSET Attributes \ {{}}} :
  /\ lister = "idle"
  /\ custom' = [a \in Attributes |-> IF a \in DOMAIN dict THEN dict[a] ELSE custom[a]]
  /\ UNCHANGED outages \/ Outage
  /\ UNCHANGED <<index, snapshot, unread, scroll, acted, page, lister, searchable>>

Refresh ==
  /\ searchable' = custom
  /\ UNCHANGED <<index, snapshot, unread, scroll, acted, page, lister, custom, outages>>

\* getCustomValue(): what the last refresh made searchable.
CustomValue(a) == searchable[a]

ElasticNext ==
  \/ Search \/ Act \/ NextPage \/ DeleteScroll \/ ScrollExpires \/ IndexChanges
  \/ SetCustomValues \/ Refresh

ElasticSpec == ElasticInit /\ [][ElasticNext]_elasticVars

------------------------------------------------------------------------------
(* Properties *)

\* action() gets the documents of the snapshot in their order, none twice and none left out before
\* another; when getScrollableList() returns it has got all of them, whatever was indexed
\* meanwhile, and the scroll is not left open.  A page that was lost ends in an error instead.
ScrollIsComplete ==
  /\ IsPrefix(acted, snapshot)
  /\ lister = "returned" => acted = snapshot
  /\ lister \in {"returned", "thrown"} /\ outages = 0 => scroll # "open"

=============================================================================
