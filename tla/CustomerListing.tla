---------------------------- MODULE CustomerListing --------------------------
(***************************************************************************)
(* The admins' list of customers, a page at a time.  A page is two queries *)
(* that run side by side, one for its rows and one for the total; the rows *)
(* are ordered by time of creation and then by id, so that a position in   *)
(* the list is a number of rows to skip.  Meanwhile customers register and *)
(* change the status, or the name, by which the list is filtered.          *)
(*                                                                         *)
(* One admin walks through the list, from page 1 to the last page that the *)
(* latest answer names.                                                    *)
(***************************************************************************)
EXTENDS Integers, SequencesExt

CONSTANTS
  Customers,     \* numbers: the order of the list
  DefaultLimit,  \* USERS_DEFAULT_LIMIT
  MaxLimit,      \* USERS_MAX_LIMIT
  NotYet         \* a query that has not answered

ASSUME CustomerListingAssumption ==
  /\ Customers \subseteq Int /\ IsFiniteSet(Customers)
  /\ DefaultLimit \in Nat \ {0} /\ MaxLimit \in Nat \ {0}
  /\ NotYet \notin Nat /\ NotYet \notin Seq(Customers)

VARIABLES
  rows,      \* the customers in the table
  matching,  \* those that the filter, if there is one, lets through
  walk,      \* where the admin has come to
  items,     \* what findCustomers has answered for the current page
  total,     \* what countCustomers has
  seen,      \* the customers on the pages so far
  \* History variables: no code reads them.
  begun,     \* those that were on the list when the walk began
  twice,     \* those that were on two pages
  events     \* what has happened to the list during the walk

vars == <<rows, matching, walk, items, total, seen, begun, twice, events>>

\* "limit" 0: the query names none.  Events: "came" or "left": a customer
\* came onto the list or left it; "torn": that happened between the two
\* queries of the current page.
Walk == [pc : {"idle", "asked", "done"}, page : Nat, limit : Nat,
         filter : BOOLEAN]

Init ==
  /\ rows \in SUBSET Customers /\ matching \in SUBSET rows
  /\ walk = [pc |-> "idle", page |-> 1, limit |-> 0, filter |-> FALSE]
  /\ items = NotYet /\ total = NotYet
  /\ seen = {} /\ begun = {} /\ twice = {} /\ events = {}

-----------------------------------------------------------------------------
(* The page, as computed by the use case and the two queries. *)

Listed == IF walk.filter THEN matching ELSE rows

\* A customer is as far down the list as customers come no later.
Position(S, c) == Cardinality({d \in S : d <= c})
Ordered(S) ==
  [i \in 1..Cardinality(S) |-> CHOOSE c \in S : Position(S, c) = i]

Limit(l) == IF l = 0 THEN DefaultLimit ELSE Min({l, MaxLimit})

\* The first form counts pages from 0.
SkipMutant(page, limit) == page * limit
Skip(page, limit) == (page - 1) * limit

\* The first form takes a row more, as for a "next" link.
PageMutant(S, page, limit) ==
  LET skip == Skip(page, limit)
  IN  SubSeq(Ordered(S), skip + 1, Min({skip + limit + 1, Cardinality(S)}))
Page(S, page, limit) ==
  LET skip == Skip(page, limit)
  IN  SubSeq(Ordered(S), skip + 1, Min({skip + limit, Cardinality(S)}))

\* Rounded up; the first form rounds down.
PagesMutant(n, limit) == n \div limit
Pages(n, limit) == (n + limit - 1) \div limit

-----------------------------------------------------------------------------
(* The admin's requests. *)

\* listCustomersQuerySchema refuses a limit above the largest.
Begin(limit, filter) ==
  /\ walk.pc = "idle"
  /\ walk' = [pc |-> "asked", page |-> 1, limit |-> limit, filter |-> filter]
  /\ begun' = IF filter THEN matching ELSE rows
  /\ UNCHANGED <<rows, matching, items, total, seen, twice, events>>

FindCustomers ==
  /\ walk.pc = "asked" /\ items = NotYet
  /\ items' = Page(Listed, walk.page, Limit(walk.limit))
  /\ UNCHANGED <<rows, matching, walk, total, seen, begun, twice, events>>

CountCustomers ==
  /\ walk.pc = "asked" /\ total = NotYet
  /\ total' = Cardinality(Listed)
  /\ UNCHANGED <<rows, matching, walk, items, seen, begun, twice, events>>

\* Both have answered: the admin goes on to the next page, or the walk ends.
Answered == items # NotYet /\ total # NotYet
Answer ==
  /\ walk.pc = "asked" /\ Answered
  /\ seen' = seen \union Range(items)
  /\ twice' = twice \union (seen \intersect Range(items))
  /\ IF walk.page < Pages(total, Limit(walk.limit))
     THEN /\ walk' = [walk EXCEPT !.page = @ + 1]
          /\ items' = NotYet /\ total' = NotYet
          /\ events' = events \ {"torn"}
     ELSE /\ walk' = [walk EXCEPT !.pc = "done"]
          /\ UNCHANGED <<items, total, events>>
  /\ UNCHANGED <<rows, matching, begun>>

-----------------------------------------------------------------------------
(* Meanwhile. *)

\* A customer comes onto the admin's list, or leaves it.
Happens(changed, event) ==
  events' = IF walk.pc # "asked" \/ ~changed THEN events
            ELSE events \union {event}
                   \union (IF (items = NotYet) # (total = NotYet)
                           THEN {"torn"} ELSE {})

\* A registration commits.  The order is that of the time the row was made,
\* not of the commit, so that it may come in anywhere.
Register(c, matches) ==
  /\ c \notin rows /\ walk.pc # "done"
  /\ rows' = rows \union {c}
  /\ matching' = IF matches THEN matching \union {c} ELSE matching
  /\ Happens(walk.filter => matches, "came")
  /\ UNCHANGED <<walk, items, total, seen, begun, twice>>

\* A status, or a name the filter searches, changes.  The first form does
\* not ask whether there is such a customer.
ChangeMutant(c) ==
  /\ walk.pc # "done"
  /\ matching' = IF c \in matching THEN matching \ {c} ELSE matching \union {c}
  /\ Happens(walk.filter, IF c \in matching THEN "left" ELSE "came")
  /\ UNCHANGED <<rows, walk, items, total, seen, begun, twice>>
Change(c) ==
  /\ c \in rows /\ walk.pc # "done"
  /\ matching' = IF c \in matching THEN matching \ {c} ELSE matching \union {c}
  /\ Happens(walk.filter, IF c \in matching THEN "left" ELSE "came")
  /\ UNCHANGED <<rows, walk, items, total, seen, begun, twice>>

Next ==
  \/ \E limit \in 0..MaxLimit, filter \in BOOLEAN : Begin(limit, filter)
  \/ FindCustomers \/ CountCustomers \/ Answer
  \/ \E c \in Customers, matches \in BOOLEAN : Register(c, matches)
  \/ \E c \in Customers : Change(c)

Spec == Init /\ [][Next]_vars

-----------------------------------------------------------------------------
(* Properties. *)

TypeOK ==
  /\ rows \subseteq Customers /\ matching \subseteq rows
  /\ walk \in Walk
  /\ items = NotYet \/ (IsInjective(items) /\ Range(items) \subseteq Customers)
  /\ total = NotYet \/ total \in 0..Cardinality(Customers)
  /\ seen \subseteq Customers /\ begun \subseteq Customers
  /\ twice \subseteq Customers /\ events \subseteq {"came", "left", "torn"}

\* A page and its total agree, unless somebody came or left between the two
\* queries: the page has as many rows as the pages before it leave.
PageFitsTotal ==
  Answered /\ "torn" \notin events =>
    LET limit == Limit(walk.limit)
        before == (walk.page - 1) * limit
    IN  Len(items) = Max({0, Min({limit, total - before})})

\* A walk misses nobody who was on the list from its beginning to its end,
\* unless somebody left the list during it or its last page was torn.
\* Registrations only push customers on to later pages.
WalkMissesNobody ==
  walk.pc = "done" /\ events \intersect {"left", "torn"} = {}
    => begun \subseteq seen

\* Nobody is on two pages of a walk unless somebody came onto the list.
NobodyTwice == "came" \notin events => twice = {}
=============================================================================
