----------------------------- MODULE ArrayExtensions -----------------------------
(***************************************************************************)
(* The methods that common/src/utils/extensions/array.extensions.ts adds   *)
(* to arrays: the loops of the code beside what they are for.  An array    *)
(* grows, loses elements and is shuffled; the others only read it.         *)
(*                                                                         *)
(* A predicate is the set of the elements it accepts, any other function   *)
(* of an element a function on Items.  Elements are not undefined.         *)
(***************************************************************************)
EXTENDS Integers, Sequences, FiniteSets, SequencesExt

CONSTANTS
  Items,      \* the elements of arrays: numbers
  MaxLength,  \* bound on their length
  Undefined,  \* what the ...OrUndefined methods answer for none
  Throws      \* the outcome of a method that throws

VARIABLES
  array,
  shuffled,   \* the copy that shuffle() works on
  remaining   \* its currentIndex: the elements before it are yet to be swapped

arrayVars == <<array, shuffled, remaining>>

ArrayInit == array = <<>> /\ shuffled = <<>> /\ remaining = 0

Projections == [Items -> 0..1]
Empty == [k \in {} |-> <<>>]

------------------------------------------------------------------------------
(* Reading methods *)

GroupBy(s, f) == FoldLeft(LAMBDA groups, x :
  [k \in DOMAIN groups \cup {f[x]} |->
     (IF k \in DOMAIN groups THEN groups[k] ELSE <<>>) \o (IF k = f[x] THEN <<x>> ELSE <<>>)],
  Empty, s)

SelectMany(s, f) == FoldLeft(LAMBDA result, x : result \o f[x], <<>>, s)

\* The first element accepted, or the outcome for none; without a predicate P is all of Items.
FirstOr(s, P, none) ==
  LET i == SelectInSeq(s, LAMBDA x : x \in P) IN IF i = 0 THEN none ELSE s[i]

FirstOrUndefined(s, P) == FirstOr(s, P, Undefined)
FirstElement(s, P) == FirstOr(s, P, Throws)

LastOrUndefined(s, P) == FoldLeft(LAMBDA last, x : IF x \in P THEN x ELSE last, Undefined, s)
LastElement(s, P) == FoldLeft(LAMBDA last, x : IF x \in P THEN x ELSE last, Throws, s)

\* The loop stops at a second element.
SingleOr(s, P, none) ==
  LET accepted == FoldLeft(LAMBDA last, x : IF x \in P THEN <<last[1] + 1, x>> ELSE last, <<0, none>>, s)
  IN IF accepted[1] > 1 THEN none ELSE accepted[2]

Single(s, P) == SingleOr(s, P, Throws)
SingleOrUndefined(s, P) == SingleOr(s, P, Undefined)

Zipped(s, t) == [i \in DOMAIN s |-> <<s[i], IF i \in DOMAIN t THEN t[i] ELSE Undefined>>]

Except(s, t) == SelectSeq(s, LAMBDA x : ~Contains(t, x))

\* distinct(): the first element of each projection; without one the projection is the element.
Distinct(s, f) == FoldLeft(LAMBDA result, x :
  IF f[x] \in {f[y] : y \in ToSet(result)} THEN result ELSE Append(result, x), <<>>, s)

\* toRecord(), and toRecordAsync() whose values are all awaited before the first key is set: the
\* later of two elements with one key is kept.
ToRecord(s, f) == FoldLeft(LAMBDA record, x :
  [k \in DOMAIN record \cup {f[x]} |-> IF k = f[x] THEN x ELSE record[k]], Empty, s)

MapIndexed(s, items, f) ==
  [i \in DOMAIN s |-> IF s[i] \in DOMAIN ToRecord(items, f) THEN ToRecord(items, f)[s[i]] ELSE Undefined]

\* External: Array.prototype.sort() keeps the order of elements that compare equal.
Sorted(s, f) ==
  LET values == SetToSortSeq({f[x] : x \in ToSet(s)}, <)
  IN FlattenSeq([i \in DOMAIN values |-> SelectSeq(s, LAMBDA x : f[x] = values[i])])

\* With two functions, the second for those the first finds equal.
SortedBy(s, f, g) == Sorted(Sorted(s, g), f)

SortedDescending(s, f) == Reverse(Sorted(s, f))

\* reduce() without an initial value throws for no elements; that of sumBigInt() begins with 0.
SumBigInt(s) == FoldLeft(LAMBDA a, b : a + b, 0, s)
SumOf(s) == IF s = <<>> THEN Throws ELSE SumBigInt(s)

IncludesSome(s, t)  == \E i \in DOMAIN t : Contains(s, t[i])
IncludesNone(s, t)  == ~IncludesSome(s, t)
IncludesEvery(s, t) == \A i \in DOMAIN t : Contains(s, t[i])
NoneOf(s, P) == ~\E i \in DOMAIN s : s[i] \in P

------------------------------------------------------------------------------
(* Methods that change the array, or a copy of it; each is one turn, the swaps of shuffle() too. *)

Grow(x) ==
  /\ remaining = 0 /\ Len(array) < MaxLength
  /\ array' = Append(array, x)
  /\ shuffled' = <<>>
  /\ UNCHANGED remaining

\* Mutant of Removed, and the remove() that line 290 replaces: only the first one goes.
RemovedOnce(s, x) == RemoveFirst(s, x)

\* remove(): one after the other until indexOf() finds no more.
Removed(s, x) ==
  LET rest[n \in 0..Len(s)] == IF n = 0 THEN s ELSE RemoveFirst(rest[n - 1], x)
  IN rest[Len(s)]

RemoveElement(x) ==
  /\ remaining = 0 /\ Contains(array, x)
  /\ array' = Removed(array, x)
  /\ shuffled' = <<>>
  /\ UNCHANGED remaining

Shuffle ==
  /\ remaining = 0
  /\ shuffled' = array
  /\ remaining' = Len(array)
  /\ UNCHANGED array

Swapped(s, i, j) == [s EXCEPT ![i] = s[j], ![j] = s[i]]

ShuffleNext == \E random \in 1..remaining :
  /\ remaining' = remaining - 1
  /\ shuffled' = Swapped(shuffled, remaining, random)
  /\ UNCHANGED array

ArrayNext ==
  \/ \E x \in Items : Grow(x) \/ RemoveElement(x)
  \/ Shuffle \/ ShuffleNext

ArraySpec == ArrayInit /\ [][ArrayNext]_arrayVars

------------------------------------------------------------------------------
(* Properties *)

Accepted(s, P) == SelectSeq(s, LAMBDA x : x \in P)

Permuted(s, t) == \A x \in Items : Len(Accepted(s, {x})) = Len(Accepted(t, {x}))

InOrder(s, Before(_, _)) == \A i, j \in DOMAIN s : i < j => Before(s[i], s[j])

\* What searches answer: the first, the last and the only one of the elements that are accepted.
SearchesAgree == \A P \in SUBSET Items :
  LET accepted == Accepted(array, P)
  IN /\ accepted = <<>> =>
          /\ {FirstElement(array, P), LastElement(array, P), Single(array, P)} = {Throws}
          /\ {FirstOrUndefined(array, P), LastOrUndefined(array, P),
              SingleOrUndefined(array, P)} = {Undefined}
     /\ accepted # <<>> =>
          /\ FirstElement(array, P) = Head(accepted) /\ FirstOrUndefined(array, P) = Head(accepted)
          /\ LastElement(array, P) = Last(accepted) /\ LastOrUndefined(array, P) = Last(accepted)
          /\ Single(array, P) = IF Len(accepted) = 1 THEN Head(accepted) ELSE Throws
          /\ SingleOrUndefined(array, P) = IF Len(accepted) = 1 THEN Head(accepted) ELSE Undefined
     /\ NoneOf(array, P) = (accepted = <<>>)

\* Groups and records hold every element under its key, in the order of the array or the last one;
\* distinct() keeps the first of each key; both sorts are stable in the direction they promise.
KeysAgree == \A f \in Projections :
  /\ GroupBy(array, f) = [k \in {f[x] : x \in ToSet(array)} |-> SelectSeq(array, LAMBDA x : f[x] = k)]
  /\ ToRecord(array, f) = [k \in DOMAIN GroupBy(array, f) |-> Last(GroupBy(array, f)[k])]
  /\ ToSet(Distinct(array, f)) = {Head(GroupBy(array, f)[k]) : k \in DOMAIN GroupBy(array, f)}
  /\ Len(Distinct(array, f)) = Cardinality(DOMAIN GroupBy(array, f))
  /\ \A g \in Projections : LET s == SortedBy(array, f, g)
       IN Permuted(s, array) /\ InOrder(s, LAMBDA x, y : f[x] < f[y] \/ (f[x] = f[y] /\ g[x] <= g[y]))
  /\ Permuted(SortedDescending(array, f), array)
  /\ InOrder(SortedDescending(array, f), LAMBDA x, y : f[x] >= f[y])

\* remove() leaves all others, in their order; except() and the includes...() methods go by what is in both arrays.
ChangesAgree ==
  /\ \A x \in Items : Removed(array, x) = Except(array, <<x>>)
  /\ \A t \in {Reverse(array), Distinct(array, [x \in Items |-> x])} :
       /\ IncludesEvery(array, t) /\ (IncludesSome(array, t) \/ t = <<>>)
       /\ IncludesNone(Except(array, t), t)
       /\ SumBigInt(array) >= SumBigInt(t)

\* Each element of s is in one place of t, and none is lost or there twice.
Rearranged(s, t) ==
  \E p \in Bijection(DOMAIN s, DOMAIN t) : \A i \in DOMAIN s : t[p[i]] = s[i]

\* shuffle() has a rearrangement of the array at hand after every swap, whatever it picks.
ShuffleRearranges == shuffled # <<>> => Rearranged(array, shuffled)

\* The methods do what they are for, for every array but the empty one, predicate and key up to the bounds, and
\* shuffle() gives a permutation of what it was given, with whatever it picks.
ArraysAgree ==
  /\ array # <<>> => SearchesAgree /\ KeysAgree /\ ChangesAgree
  /\ ShuffleRearranges

=============================================================================
