----------------------------- MODULE Pagination -----------------------------
(***************************************************************************)
(* Page arithmetic of the three listings: IssueService.List, ListActivity  *)
(* and UserService.List, with the statements they lead to.  A row is the   *)
(* number of its place in the order of the listing; an int is one of w     *)
(* bits, MaxInt being the largest.                                         *)
(***************************************************************************)
EXTENDS Integers, FiniteSets

CONSTANTS
  MaxInt,
  DefaultSize,  \* of a page, when the request names none (20)
  MaxSize       \* of a page (100)

ASSUME PaginationAssumption ==
  /\ MaxInt \in Nat /\ MaxSize \in 1..MaxInt /\ DefaultSize \in 1..MaxSize

\* What is left of n in an int.
Wrapped(n) == ((n + MaxInt + 1) % (2 * (MaxInt + 1))) - (MaxInt + 1)

Larger(m, n) == IF m < n THEN n ELSE m

PageOf(page) == IF page = 0 THEN 1 ELSE page

SizeOf(size) == IF size = 0 THEN DefaultSize ELSE size

\* invalidPage and invalidPageSize, of every listing.
InBounds(page, size) == page >= 1 /\ size \in 1..MaxSize

\* "Page is too large": issues and users, but not activities.
TooLarge(page, size) == page - 1 > MaxInt \div size

Offset(page, size) == Wrapped((page - 1) * size)

\* Slip: a page that is not full is not counted.
TotalPagesFull(total, size) == IF total > 0 THEN total \div size ELSE 0

TotalPages(total, size) == IF total > 0 THEN (total + size - 1) \div size ELSE 0

\* pageOutOfRange
InRange(page, pages) == page <= Larger(1, pages)

\* How many rows of S come before row i.
Rank(i, S) == Cardinality({j \in S : j < i})

\* ORDER BY ... LIMIT ? OFFSET ?; an offset that is not positive is left out.
Slice(S, limit, offset) ==
  {i \in S : Larger(0, offset) <= Rank(i, S) /\ Rank(i, S) < Larger(0, offset) + limit}

\* What each listing accepts before it reads, and answers after.
Listable(page, size) ==
  LET p == PageOf(page)  s == SizeOf(size) IN InBounds(p, s) /\ ~TooLarge(p, s)

ActivityListable(page, size) == InBounds(PageOf(page), SizeOf(size))

Page(S, page, size) == Slice(S, SizeOf(size), Offset(PageOf(page), SizeOf(size)))

Answerable(page, total, size) == InRange(PageOf(page), TotalPages(total, SizeOf(size)))
=============================================================================
