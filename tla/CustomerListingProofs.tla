------------------------ MODULE CustomerListingProofs -----------------------
(***************************************************************************)
(* Proofs about CustomerListing, for any number of customers and any limit *)
(* of a page.                                                              *)
(*                                                                         *)
(* A page is a stretch of positions, and that is all the proofs need of it *)
(* (PageFacts): whoever comes onto the list pushes positions up, whoever   *)
(* leaves it pulls them down, and the invariants say which customers the   *)
(* walk has seen in terms of the positions they have now.                  *)
(***************************************************************************)
EXTENDS CustomerListing, FiniteSetTheorems, SequenceTheorems, TLAPS

LEMMA MinOfTwo ==
  ASSUME NEW a \in Int, NEW b \in Int
  PROVE  Min({a, b}) = IF a <= b THEN a ELSE b
<1> DEFINE m == IF a <= b THEN a ELSE b
<1>1. m \in {a, b} /\ \A y \in {a, b} : m <= y
  OBVIOUS
<1>2. \A x \in {a, b} : (\A y \in {a, b} : x <= y) => x = m
  OBVIOUS
<1> HIDE DEF m
<1>3. Min({a, b}) = m
  BY <1>1, <1>2 DEF Min
<1> QED BY <1>3 DEF m

LEMMA MaxOfTwo ==
  ASSUME NEW a \in Int, NEW b \in Int
  PROVE  Max({a, b}) = IF a <= b THEN b ELSE a
<1> DEFINE m == IF a <= b THEN b ELSE a
<1>1. m \in {a, b} /\ \A y \in {a, b} : m >= y
  OBVIOUS
<1>2. \A x \in {a, b} : (\A y \in {a, b} : x >= y) => x = m
  OBVIOUS
<1> HIDE DEF m
<1>3. Max({a, b}) = m
  BY <1>1, <1>2 DEF Max
<1> QED BY <1>3 DEF m

-----------------------------------------------------------------------------
(* Positions in the list. *)

Upto(S, c) == {d \in S : d <= c}

LEMMA ListFacts ==
  ASSUME NEW S \in SUBSET Customers
  PROVE  /\ S \subseteq Int /\ IsFiniteSet(S) /\ Cardinality(S) \in Nat
         /\ Cardinality(S) <= Cardinality(Customers)
         /\ Cardinality(Customers) \in Nat
BY CustomerListingAssumption, FS_Subset, FS_CardinalityType

LEMMA UptoFacts ==
  ASSUME NEW S \in SUBSET Customers, NEW c
  PROVE  /\ Upto(S, c) \in SUBSET S /\ IsFiniteSet(Upto(S, c))
         /\ Position(S, c) = Cardinality(Upto(S, c))
         /\ Position(S, c) \in 0..Cardinality(S)
<1>1. Upto(S, c) \in SUBSET S
  BY DEF Upto
<1>2. IsFiniteSet(Upto(S, c)) /\ Cardinality(Upto(S, c)) <= Cardinality(S)
  BY <1>1, ListFacts, FS_Subset
<1>3. Position(S, c) = Cardinality(Upto(S, c))
  BY DEF Position, Upto
<1> QED BY <1>1, <1>2, <1>3, ListFacts, FS_CardinalityType

\* Later in the order, further down the list.
LEMMA PositionsGrow ==
  ASSUME NEW S \in SUBSET Customers, NEW c \in S, NEW d \in S, c < d
  PROVE  Position(S, c) < Position(S, d)
<1>1. /\ Upto(S, c) \in SUBSET Upto(S, d)
      /\ d \in Upto(S, d) /\ d \notin Upto(S, c)
  BY ListFacts DEF Upto
<1>2. /\ Cardinality(Upto(S, c)) <= Cardinality(Upto(S, d))
      /\ Cardinality(Upto(S, c)) # Cardinality(Upto(S, d))
  BY <1>1, UptoFacts, FS_Subset
<1> QED BY <1>2, UptoFacts

\* Every position is somebody's, and nobody else's.
LEMMA PositionsTaken ==
  ASSUME NEW S \in SUBSET Customers
  PROVE  /\ \A c \in S : Position(S, c) \in 1..Cardinality(S)
         /\ \A c, d \in S : Position(S, c) = Position(S, d) => c = d
         /\ \A i \in 1..Cardinality(S) : \E c \in S : Position(S, c) = i
<1> DEFINE n == Cardinality(S)
           f == [c \in S |-> Position(S, c)]
<1>0. n \in Nat /\ IsFiniteSet(S) /\ S \subseteq Int
  BY ListFacts
<1>1. ASSUME NEW c \in S
      PROVE  Position(S, c) \in 1..n
  <2>1. c \in Upto(S, c)
    BY <1>0 DEF Upto
  <2>2. Cardinality(Upto(S, c)) # 0
    BY <2>1, UptoFacts, FS_EmptySet
  <2> QED BY <1>0, <2>2, UptoFacts
<1>2. ASSUME NEW c \in S, NEW d \in S, Position(S, c) = Position(S, d)
      PROVE  c = d
  <2>1. ~(c < d) /\ ~(d < c)
    BY <1>1, <1>2, PositionsGrow, <1>0
  <2> QED BY <1>0, <2>1
<1>3. f \in Injection(S, 1..n)
  BY <1>1, <1>2 DEF Injection, IsInjective
<1>4. IsFiniteSet(1..n) /\ Cardinality(1..n) = n
  BY <1>0, FS_Interval
<1> HIDE DEF f
<1>5. f \in Surjection(S, 1..n)
  BY <1>3, <1>4, FS_Injection
<1>6. \A i \in 1..n : \E c \in S : f[c] = i
  BY <1>5 DEF Surjection
<1>7. \A i \in 1..n : \E c \in S : Position(S, c) = i
  BY <1>6 DEF f
<1> QED BY <1>1, <1>2, <1>7

\* Whoever comes onto the list pushes the others' positions up.
LEMMA PositionsPushed ==
  ASSUME NEW T \in SUBSET Customers, NEW S \in SUBSET T, NEW c
  PROVE  Position(S, c) <= Position(T, c)
<1>1. Upto(S, c) \in SUBSET Upto(T, c)
  BY DEF Upto
<1>2. S \in SUBSET Customers
  OBVIOUS
<1> QED BY <1>1, <1>2, UptoFacts, FS_Subset

LEMMA OrderedFacts ==
  ASSUME NEW S \in SUBSET Customers, NEW i \in 1..Cardinality(S)
  PROVE  Ordered(S)[i] \in S /\ Position(S, Ordered(S)[i]) = i
BY PositionsTaken DEF Ordered

-----------------------------------------------------------------------------
(* A page. *)

\* The rows that a list of n leaves for a page.
Fits(n, page, limit) == Max({0, Min({limit, n - (page - 1) * limit})})

LEMMA SkipFacts ==
  ASSUME NEW page \in Nat \ {0}, NEW limit \in Nat \ {0}
  PROVE  /\ Skip(page, limit) \in Nat
         /\ Skip(page, limit) = (page - 1) * limit
         /\ Skip(page + 1, limit) = Skip(page, limit) + limit
         /\ page * limit = Skip(page, limit) + limit
         /\ page = 1 => Skip(page, limit) = 0
<1>1. (page - 1) * limit \in Nat
  BY SMT
<1>2. page * limit = (page - 1) * limit + limit
  BY SMT
<1>3. ((page + 1) - 1) * limit = page * limit
  BY SMT
<1> QED BY <1>1, <1>2, <1>3 DEF Skip

\* A page holds the customers at its positions, each once, and is as long as
\* the list allows.
LEMMA PageFacts ==
  ASSUME NEW S \in SUBSET Customers,
         NEW page \in Nat \ {0}, NEW limit \in Nat \ {0}
  PROVE  /\ Page(S, page, limit) \in Seq(Customers)
         /\ IsInjective(Page(S, page, limit))
         /\ Len(Page(S, page, limit)) = Fits(Cardinality(S), page, limit)
         /\ \A c : c \in Range(Page(S, page, limit)) <=>
                     /\ c \in S
                     /\ Position(S, c) > Skip(page, limit)
                     /\ Position(S, c) <= Skip(page, limit) + limit
<1> DEFINE n == Cardinality(S)
           skip == Skip(page, limit)
           o == Ordered(S)
           e == IF skip + limit <= n THEN skip + limit ELSE n
           P == Page(S, page, limit)
           len == IF skip + 1 <= e THEN e - (skip + 1) + 1 ELSE 0
<1>0. n \in Nat /\ skip \in Nat /\ e \in Nat /\ limit \in Nat
  <2>1. n \in Nat /\ skip \in Nat
    BY ListFacts, SkipFacts
  <2> HIDE DEF n, skip
  <2> QED BY <2>1
<1>1. P = SubSeq(o, skip + 1, e)
  <2>1. Min({skip + limit, n}) = e
    BY <1>0, MinOfTwo
  <2> QED BY <2>1 DEF Page
<1>2. \A i \in 1..n : o[i] \in S /\ Position(S, o[i]) = i
  BY OrderedFacts
<1> HIDE DEF o, P
<1>3. \A i \in (skip + 1)..e : o[i] \in S
  BY <1>0, <1>2
<1>4. /\ P \in Seq(S) /\ Len(P) = len
      /\ \A i \in 1..(e - (skip + 1) + 1) : P[i] = o[(skip + 1) + i - 1]
  <2>1. skip + 1 \in Int /\ e \in Int
    BY <1>0
  <2> HIDE DEF e, skip
  <2> QED BY <1>1, <1>3, <2>1, SubSeqProperties
<1>5. /\ len \in Nat /\ DOMAIN P = 1..len
      /\ \A i \in 1..len : P[i] = o[skip + i] /\ skip + i \in 1..n
  <2>1. DOMAIN P = 1..len
    BY <1>4
  <2>2. ASSUME NEW i \in 1..len
        PROVE  P[i] = o[skip + i] /\ skip + i \in 1..n
    <3>1. i \in 1..(e - (skip + 1) + 1) /\ (skip + 1) + i - 1 = skip + i
          /\ skip + i \in 1..n
      BY <1>0, <2>2
    <3> HIDE DEF e, skip
    <3> QED BY <1>4, <3>1
  <2> QED BY <1>0, <2>1, <2>2
<1>6. IsInjective(P)
  <2> SUFFICES ASSUME NEW i \in 1..len, NEW j \in 1..len, P[i] = P[j]
               PROVE  i = j
    BY <1>5 DEF IsInjective
  <2>1. /\ Position(S, o[skip + i]) = skip + i
        /\ Position(S, o[skip + j]) = skip + j
    BY <1>2, <1>5
  <2>2. skip + i = skip + j
    BY <1>5, <2>1
  <2> QED BY <1>0, <2>2
<1>7. Len(P) = Fits(n, page, limit)
  <2>1. Fits(n, page, limit) = Max({0, Min({limit, n - skip})})
    BY SkipFacts DEF Fits
  <2>2. Min({limit, n - skip}) = IF limit <= n - skip THEN limit ELSE n - skip
    BY <1>0, MinOfTwo
  <2> DEFINE k == Min({limit, n - skip})
  <2>3. k \in Int /\ 0 \in Int
    BY <1>0, <2>2
  <2> HIDE DEF k
  <2>4. Max({0, k}) = IF 0 <= k THEN k ELSE 0
    BY <2>3, MaxOfTwo
  <2>5. Fits(n, page, limit) = Max({0, k})
    BY <2>1 DEF k
  <2>6. k = IF limit <= n - skip THEN limit ELSE n - skip
    BY <2>2 DEF k
  <2> QED BY <1>0, <1>4, <2>4, <2>5, <2>6
<1>8. ASSUME NEW c
      PROVE  c \in Range(P) <=> /\ c \in S
                                /\ Position(S, c) > skip
                                /\ Position(S, c) <= skip + limit
  <2>1. ASSUME c \in Range(P)
        PROVE  /\ c \in S
               /\ Position(S, c) > skip
               /\ Position(S, c) <= skip + limit
    <3>1. PICK i \in 1..len : c = P[i]
      BY <1>5, <2>1 DEF Range
    <3>2. c \in S /\ Position(S, c) = skip + i
      BY <1>2, <1>5, <3>1
    <3> QED BY <1>0, <3>2
  <2>2. ASSUME c \in S, Position(S, c) > skip, Position(S, c) <= skip + limit
        PROVE  c \in Range(P)
    <3> DEFINE p == Position(S, c)
    <3>1. p \in 1..n
      BY <2>2, PositionsTaken
    <3>2. o[p] = c
      BY <1>2, <2>2, <3>1, PositionsTaken
    <3> HIDE DEF p
    <3>3. p > skip /\ p <= skip + limit
      BY <2>2 DEF p
    <3>4. p - skip \in 1..len /\ skip + (p - skip) = p
      BY <1>0, <3>1, <3>3
    <3>5. P[p - skip] = c
      BY <1>5, <3>2, <3>4
    <3> QED BY <1>5, <3>4, <3>5 DEF Range
  <2> QED BY <2>1, <2>2
<1>9. P \in Seq(Customers)
  BY <1>4, SeqMonotonic
<1> QED BY <1>6, <1>7, <1>8, <1>9 DEF P

-----------------------------------------------------------------------------
(* The walk. *)

Cap == Limit(walk.limit)
Before == Skip(walk.page, Cap)

Types ==
  /\ rows \subseteq Customers /\ matching \subseteq rows
  /\ walk \in [pc : {"idle", "asked", "done"}, page : Nat \ {0}, limit : Nat,
               filter : BOOLEAN]
  /\ items = NotYet \/ (items \in Seq(Customers) /\ IsInjective(items))
  /\ total = NotYet \/ total \in 0..Cardinality(Customers)
  /\ seen \subseteq Customers /\ begun \subseteq Customers
  /\ twice \subseteq Customers /\ events \subseteq {"came", "left", "torn"}
  /\ walk.pc = "idle" => /\ walk.page = 1
                         /\ items = NotYet /\ total = NotYet
                         /\ seen = {} /\ twice = {} /\ events = {}

\* The customers on the list, as the page's count has it or will have it.
Told == IF total = NotYet THEN Cardinality(Listed) ELSE total

\* Whichever query answered first told of the list as it still is, unless
\* the page is torn.
Untorn ==
  "torn" \notin events =>
    /\ items = NotYet /\ total # NotYet => total = Cardinality(Listed)
    /\ items # NotYet => Len(items) = Fits(Told, walk.page, Cap)

\* As long as nobody comes, whoever was on a page stays at a position before
\* the next one's.
NoneAgain ==
  "came" \notin events =>
    /\ twice = {}
    /\ walk.pc = "asked" =>
         /\ \A c \in Listed \intersect seen : Position(Listed, c) <= Before
         /\ items # NotYet =>
              /\ Range(items) \intersect seen = {}
              /\ \A c \in Listed \intersect Range(items) :
                   Position(Listed, c) <= Before + Cap

\* As long as nobody leaves, whoever is at a position before the next page's
\* was on a page; an untorn page whose total names no further page is the
\* last for the list as the queries saw it.
NoneMissed ==
  "left" \notin events =>
    /\ walk.pc = "asked" =>
         /\ begun \subseteq Listed
         /\ \A c \in begun : Position(Listed, c) <= Before => c \in seen
         /\ items # NotYet =>
              /\ \A c \in begun : Position(Listed, c) <= Before + Cap =>
                                    c \in seen \union Range(items)
              /\ "torn" \notin events /\ Told <= Before + Cap =>
                   begun \subseteq seen \union Range(items)
    /\ walk.pc = "done" /\ "torn" \notin events => begun \subseteq seen

-----------------------------------------------------------------------------
(* Types. *)

LEMMA LimitType ==
  ASSUME NEW l \in Nat
  PROVE  Limit(l) \in Nat \ {0}
<1>1. DefaultLimit \in Nat \ {0} /\ MaxLimit \in Nat \ {0}
  BY CustomerListingAssumption
<1>2. Min({l, MaxLimit}) = IF l <= MaxLimit THEN l ELSE MaxLimit
  BY <1>1, MinOfTwo
<1> QED BY <1>1, <1>2 DEF Limit

LEMMA WalkFacts ==
  ASSUME Types
  PROVE  /\ walk.pc \in {"idle", "asked", "done"}
         /\ walk.page \in Nat \ {0} /\ walk.limit \in Nat
         /\ walk.filter \in BOOLEAN
         /\ Cap \in Nat \ {0} /\ Before \in Nat
         /\ Listed \in SUBSET Customers
         /\ Cardinality(Listed) \in 0..Cardinality(Customers)
         /\ items # NotYet => items \in Seq(Customers)
                              /\ Range(items) \subseteq Customers
<1>1. /\ walk.pc \in {"idle", "asked", "done"}
      /\ walk.page \in Nat \ {0} /\ walk.limit \in Nat
      /\ walk.filter \in BOOLEAN
  BY DEF Types
<1>2. Cap \in Nat \ {0} /\ Before \in Nat
  BY <1>1, LimitType, SkipFacts DEF Cap, Before
<1>3. Listed \in SUBSET Customers
  BY DEF Types, Listed
<1>4. items # NotYet => items \in Seq(Customers)
                        /\ Range(items) \subseteq Customers
  BY DEF Types, Range
<1> QED BY <1>1, <1>2, <1>3, <1>4, ListFacts

LEMMA NotYetFacts ==
  /\ \A n \in Nat : n # NotYet
  /\ \A s \in Seq(Customers) : s # NotYet
BY CustomerListingAssumption

(***************************************************************************)
(* What a registration or a change does to the admin's list: it grows when *)
(* somebody comes, shrinks when somebody leaves, and a page is torn when   *)
(* that happens between its queries.                                       *)
(***************************************************************************)
ListStep ==
  /\ UNCHANGED <<walk, items, total, seen, begun, twice>>
  /\ rows' \subseteq Customers /\ matching' \subseteq rows'
  /\ events' \subseteq {"came", "left", "torn"}
  /\ walk.pc # "done"
  /\ walk.pc # "asked" => events' = events
  /\ walk.pc = "asked" =>
       /\ events \subseteq events'
       /\ "came" \notin events' => Listed' \subseteq Listed
       /\ "left" \notin events' => Listed \subseteq Listed'
       /\ "torn" \notin events' =>
            Listed' = Listed \/ ((items = NotYet) <=> (total = NotYet))

LEMMA ListStepTypes ==
  ASSUME ListStep
  PROVE  Listed' \in SUBSET Customers
BY DEF ListStep, Listed

LEMMA ListSteps ==
  ASSUME Types,
         \/ \E c \in Customers, matches \in BOOLEAN : Register(c, matches)
         \/ \E c \in Customers : Change(c)
  PROVE  ListStep
<1>0. /\ rows \subseteq Customers /\ matching \subseteq rows
      /\ events \subseteq {"came", "left", "torn"}
      /\ walk.filter \in BOOLEAN
  BY WalkFacts DEF Types
<1>1. ASSUME NEW c \in Customers, NEW matches \in BOOLEAN,
             Register(c, matches)
      PROVE  ListStep
  <2>1. /\ rows' = rows \union {c}
        /\ matching' = IF matches THEN matching \union {c} ELSE matching
        /\ Happens(walk.filter => matches, "came")
        /\ walk' = walk
    BY <1>1 DEF Register
  <2>2. CASE walk.filter /\ ~matches
    <3>1. Listed' = Listed /\ events' = events
      BY <2>1, <2>2 DEF Happens, Listed
    <3> QED BY <1>0, <1>1, <2>1, <3>1 DEF Register, ListStep
  <2>3. CASE walk.filter => matches
    <3>1. Listed' = Listed \union {c}
      BY <1>0, <2>1, <2>3 DEF Listed
    <3>2. CASE walk.pc # "asked"
      BY <1>0, <1>1, <2>1, <3>2 DEF Register, ListStep, Happens
    <3>3. CASE walk.pc = "asked"
      <4>1. events' = events \union {"came"}
                        \union (IF (items = NotYet) # (total = NotYet)
                                THEN {"torn"} ELSE {})
        BY <2>1, <2>3, <3>3 DEF Happens
      <4> QED BY <1>0, <1>1, <2>1, <3>1, <3>3, <4>1 DEF Register, ListStep
    <3> QED BY <3>2, <3>3
  <2> QED BY <1>0, <2>2, <2>3
<1>2. ASSUME NEW c \in Customers, Change(c)
      PROVE  ListStep
  <2> DEFINE event == IF c \in matching THEN "left" ELSE "came"
  <2>1. /\ c \in rows /\ rows' = rows /\ walk' = walk
        /\ matching' = IF c \in matching THEN matching \ {c}
                       ELSE matching \union {c}
        /\ Happens(walk.filter, event)
    BY <1>2 DEF Change
  <2>2. CASE ~walk.filter
    <3>1. Listed' = Listed /\ events' = events
      BY <2>1, <2>2 DEF Happens, Listed
    <3> QED BY <1>0, <1>2, <2>1, <3>1 DEF Change, ListStep
  <2>3. CASE walk.filter
    <3>1. Listed' = IF event = "left" THEN Listed \ {c}
                    ELSE Listed \union {c}
      BY <2>1, <2>3 DEF Listed
    <3>2. CASE walk.pc # "asked"
      BY <1>0, <1>2, <2>1, <3>2 DEF Change, ListStep, Happens
    <3>3. CASE walk.pc = "asked"
      <4>1. events' = events \union {event}
                        \union (IF (items = NotYet) # (total = NotYet)
                                THEN {"torn"} ELSE {})
        BY <2>1, <2>3, <3>3 DEF Happens
      <4>2. event \in {"left", "came"}
        OBVIOUS
      <4> HIDE DEF event
      <4> QED BY <1>0, <1>2, <2>1, <3>1, <3>3, <4>1, <4>2
              DEF Change, ListStep
    <3> QED BY <3>2, <3>3
  <2> QED BY <1>0, <2>2, <2>3
<1> QED BY <1>1, <1>2

LEMMA TypesStep == Types /\ [Next]_vars => Types'
<1> SUFFICES ASSUME Types, [Next]_vars PROVE Types'
  OBVIOUS
<1>1. CASE UNCHANGED vars
  BY <1>1 DEF Types, vars
<1>2. ASSUME NEW limit \in 0..MaxLimit, NEW filter \in BOOLEAN,
             Begin(limit, filter)
      PROVE  Types'
  <2>1. limit \in Nat
    BY CustomerListingAssumption
  <2> QED BY <1>2, <2>1 DEF Types, Begin
<1>3. CASE FindCustomers
  <2>1. items' \in Seq(Customers) /\ IsInjective(items')
    BY <1>3, WalkFacts, PageFacts DEF FindCustomers, Cap
  <2> QED BY <1>3, <2>1 DEF Types, FindCustomers
<1>4. CASE CountCustomers
  <2>1. total' \in 0..Cardinality(Customers)
    BY <1>4, WalkFacts DEF CountCustomers
  <2> QED BY <1>4, <2>1 DEF Types, CountCustomers
<1>5. CASE Answer
  <2>1. /\ seen' \subseteq Customers /\ twice' \subseteq Customers
        /\ rows' = rows /\ matching' = matching /\ begun' = begun
        /\ events' \subseteq events
        /\ \/ items' = NotYet /\ total' = NotYet
           \/ items' = items /\ total' = total
    <3>1. Range(items) \subseteq Customers
      BY <1>5, WalkFacts DEF Answer, Answered
    <3>2. seen \subseteq Customers /\ twice \subseteq Customers
      BY DEF Types
    <3> QED BY <1>5, <3>1, <3>2 DEF Answer
  <2>2. /\ walk' \in [pc : {"asked", "done"}, page : Nat \ {0}, limit : Nat,
                      filter : BOOLEAN]
    <3>1. walk \in [pc : {"idle", "asked", "done"}, page : Nat \ {0},
                    limit : Nat, filter : BOOLEAN]
      BY DEF Types
    <3>2. walk.pc = "asked" /\ walk.page + 1 \in Nat \ {0}
      BY <1>5, <3>1 DEF Answer
    <3>3. \/ walk' = [walk EXCEPT !.page = walk.page + 1]
          \/ walk' = [walk EXCEPT !.pc = "done"]
      BY <1>5 DEF Answer
    <3> QED BY <3>1, <3>2, <3>3
  <2>3. walk'.pc # "idle" /\ walk' \in [pc : {"idle", "asked", "done"},
          page : Nat \ {0}, limit : Nat, filter : BOOLEAN]
    BY <2>2
  <2> QED BY <2>1, <2>3 DEF Types
<1>6. CASE ListStep
  BY <1>6 DEF Types, ListStep
<1> QED BY <1>1, <1>2, <1>3, <1>4, <1>5, <1>6, ListSteps DEF Next

LEMMA TypesInvariant == Spec => []Types
<1>1. Init => Types
  BY CustomerListingAssumption DEF Init, Types
<1> QED BY <1>1, TypesStep, PTL DEF Spec

\* A page never holds a customer twice, and neither answer names anybody who
\* is not in the table.
THEOREM ListingTypeCorrect == Spec => []TypeOK
<1>1. Types => TypeOK
  <2> SUFFICES ASSUME Types PROVE TypeOK
    OBVIOUS
  <2>1. walk \in Walk
    BY DEF Types, Walk
  <2>2. items = NotYet
          \/ (IsInjective(items) /\ Range(items) \subseteq Customers)
    BY WalkFacts DEF Types
  <2> QED BY <2>1, <2>2 DEF Types, TypeOK
<1> QED BY <1>1, TypesInvariant, PTL

-----------------------------------------------------------------------------
(* Steps of the walk. *)

\* The last page holds the last row.
LEMMA PagesFacts ==
  ASSUME NEW n \in Nat, NEW limit \in Nat \ {0}, NEW page \in Nat,
         ~(page < Pages(n, limit))
  PROVE  n <= page * limit
<1> DEFINE q == (n + limit - 1) \div limit
<1>1. /\ q \in Int /\ n + limit - 1 < (q + 1) * limit
  BY SMT
<1>2. q <= page
  BY <1>1 DEF Pages
<1> HIDE DEF q
<1>3. q * limit <= page * limit
  BY <1>1, <1>2, SMT
<1>4. (q + 1) * limit = q * limit + limit
  BY <1>1, SMT
<1>5. q * limit \in Int /\ page * limit \in Int
  BY <1>1, SMT
<1> QED BY <1>1, <1>3, <1>4, <1>5

LEMMA Kept ==
  /\ walk' = walk => Cap' = Cap /\ Before' = Before
  /\ walk' = walk /\ rows' = rows /\ matching' = matching => Listed' = Listed
BY DEF Cap, Before, Listed

LEMMA BeginFacts ==
  ASSUME Types, NEW limit \in 0..MaxLimit, NEW filter \in BOOLEAN,
         Begin(limit, filter)
  PROVE  /\ walk'.pc = "asked" /\ walk'.page = 1 /\ Before' = 0
         /\ items' = NotYet /\ total' = NotYet
         /\ seen' = {} /\ twice' = {} /\ events' = {}
         /\ begun' = Listed'
         /\ Listed' \in SUBSET Customers
<1>1. /\ walk'.pc = "asked" /\ walk'.page = 1
      /\ walk'.filter = filter
      /\ walk.pc = "idle"
  BY DEF Begin
<1>2. Listed' = IF filter THEN matching ELSE rows
  BY <1>1 DEF Begin, Listed
<1>3. Cap' \in Nat \ {0} /\ Listed' \in SUBSET Customers
  <2>1. Types'
    BY TypesStep DEF Next
  <2>2. walk'.limit \in Nat
    BY <2>1 DEF Types
  <2> QED BY <2>1, <2>2, LimitType DEF Cap, Types, Listed
<1>4. Before' = 0
  BY <1>1, <1>3, SkipFacts DEF Before
<1> QED BY <1>1, <1>2, <1>3, <1>4 DEF Begin, Types

LEMMA AnswerFacts ==
  ASSUME Types, Answer
  PROVE  /\ walk.pc = "asked" /\ items # NotYet /\ total \in Nat
         /\ Listed' = Listed /\ Cap' = Cap /\ begun' = begun
         /\ seen' = seen \union Range(items)
         /\ twice' = twice \union (seen \intersect Range(items))
         /\ \/ /\ walk'.pc = "asked" /\ Before' = Before + Cap
               /\ items' = NotYet /\ total' = NotYet
               /\ events' = events \ {"torn"}
            \/ /\ walk'.pc = "done" /\ walk'.page = walk.page
               /\ items' = items /\ total' = total /\ events' = events
               /\ total <= Before + Cap
<1>1. /\ walk.pc = "asked" /\ items # NotYet /\ total \in Nat
      /\ seen' = seen \union Range(items)
      /\ twice' = twice \union (seen \intersect Range(items))
      /\ begun' = begun /\ rows' = rows /\ matching' = matching
  BY ListFacts DEF Answer, Answered, Types
<1>2. /\ walk.page \in Nat \ {0} /\ Cap \in Nat \ {0} /\ Before \in Nat
      /\ walk.page * Cap = Before + Cap
      /\ Skip(walk.page + 1, Cap) = Before + Cap
  <2>1. walk.page \in Nat \ {0} /\ Cap \in Nat \ {0}
    BY WalkFacts
  <2> QED BY <2>1, SkipFacts DEF Before
<1>3. CASE walk.page < Pages(total, Limit(walk.limit))
  <2>1. /\ walk' = [walk EXCEPT !.page = walk.page + 1]
        /\ items' = NotYet /\ total' = NotYet
        /\ events' = events \ {"torn"}
    BY <1>3 DEF Answer
  <2>2. /\ walk'.pc = "asked" /\ walk'.page = walk.page + 1
        /\ walk'.limit = walk.limit /\ walk'.filter = walk.filter
    BY <1>1, <2>1 DEF Types
  <2>3. Listed' = Listed /\ Cap' = Cap /\ Before' = Before + Cap
    BY <1>1, <1>2, <2>2 DEF Listed, Cap, Before
  <2> QED BY <1>1, <2>1, <2>2, <2>3
<1>4. CASE ~(walk.page < Pages(total, Limit(walk.limit)))
  <2>1. /\ walk' = [walk EXCEPT !.pc = "done"]
        /\ items' = items /\ total' = total /\ events' = events
    BY <1>4 DEF Answer
  <2>2. /\ walk'.pc = "done" /\ walk'.page = walk.page
        /\ walk'.limit = walk.limit /\ walk'.filter = walk.filter
    BY <2>1 DEF Types
  <2>3. Listed' = Listed /\ Cap' = Cap
    BY <1>1, <2>2 DEF Listed, Cap
  <2>4. total <= Before + Cap
    BY <1>1, <1>2, <1>4, PagesFacts DEF Cap
  <2> QED BY <1>1, <2>1, <2>2, <2>3, <2>4
<1> QED BY <1>3, <1>4

LEMMA FindFacts ==
  ASSUME Types, FindCustomers
  PROVE  /\ walk.pc = "asked" /\ items = NotYet /\ items' # NotYet
         /\ UNCHANGED <<walk, total, seen, begun, twice, events>>
         /\ Listed' = Listed /\ Cap' = Cap /\ Before' = Before
         /\ Len(items') = Fits(Cardinality(Listed), walk.page, Cap)
         /\ \A c : c \in Range(items') <=>
                     /\ c \in Listed
                     /\ Position(Listed, c) > Before
                     /\ Position(Listed, c) <= Before + Cap
<1>1. items' = Page(Listed, walk.page, Cap)
  BY DEF FindCustomers, Cap
<1>2. /\ Listed \in SUBSET Customers
      /\ walk.page \in Nat \ {0} /\ Cap \in Nat \ {0}
  BY WalkFacts
<1>3. items' \in Seq(Customers)
  BY <1>1, <1>2, PageFacts
<1>4. items' # NotYet
  BY <1>3, NotYetFacts
<1> QED BY <1>1, <1>2, <1>4, PageFacts, Kept DEF FindCustomers, Before

LEMMA CountFacts ==
  ASSUME Types, CountCustomers
  PROVE  /\ walk.pc = "asked" /\ total = NotYet /\ total' # NotYet
         /\ UNCHANGED <<walk, items, seen, begun, twice, events>>
         /\ Listed' = Listed /\ Cap' = Cap /\ Before' = Before
         /\ total' = Cardinality(Listed)
<1>1. Cardinality(Listed) \in Nat
  BY WalkFacts, ListFacts
<1> QED BY <1>1, NotYetFacts, Kept DEF CountCustomers

-----------------------------------------------------------------------------
(* A page and its total. *)

LEMMA UntornStep == Types /\ Untorn /\ [Next]_vars => Untorn'
<1> SUFFICES ASSUME Types, Untorn, [Next]_vars PROVE Untorn'
  OBVIOUS
<1>1. CASE UNCHANGED vars
  BY <1>1 DEF vars, Untorn, Told, Listed, Cap
<1>2. ASSUME NEW limit \in 0..MaxLimit, NEW filter \in BOOLEAN,
             Begin(limit, filter)
      PROVE  Untorn'
  BY <1>2, BeginFacts DEF Untorn
<1>3. CASE FindCustomers
  BY <1>3, FindFacts DEF Untorn, Told
<1>4. CASE CountCustomers
  BY <1>4, CountFacts DEF Untorn, Told
<1>5. CASE Answer
  BY <1>5, AnswerFacts DEF Untorn, Told
<1>6. CASE ListStep
  BY <1>6, WalkFacts, Kept DEF ListStep, Untorn, Told, Types
<1> QED BY <1>1, <1>2, <1>3, <1>4, <1>5, <1>6, ListSteps DEF Next

\* A page holds as many rows as the pages before it leave of its total,
\* unless somebody came or left between its two queries.
THEOREM PagesFitTotals == Spec => []PageFitsTotal
<1>1. Init => Untorn
  BY DEF Init, Untorn
<1>2. Types /\ Untorn => PageFitsTotal
  BY DEF Untorn, Told, PageFitsTotal, Answered, Fits, Cap
<1> QED BY <1>1, <1>2, UntornStep, TypesInvariant, PTL DEF Spec

-----------------------------------------------------------------------------
(* Nobody twice. *)

LEMMA NoneAgainStep == Types /\ NoneAgain /\ [Next]_vars => NoneAgain'
<1> SUFFICES ASSUME Types, NoneAgain, [Next]_vars, "came" \notin events'
             PROVE  NoneAgain'
  BY DEF NoneAgain
<1> USE DEF NoneAgain
<1>0. /\ Cap \in Nat \ {0} /\ Before \in Nat
      /\ Listed \in SUBSET Customers
      /\ \A S \in SUBSET Customers : \A c : Position(S, c) \in Nat
  <2>1. ASSUME NEW S \in SUBSET Customers, NEW c
        PROVE  Position(S, c) \in Nat
    <3>1. Position(S, c) \in 0..Cardinality(S) /\ Cardinality(S) \in Nat
      BY UptoFacts, ListFacts
    <3> QED BY <3>1
  <2> QED BY <2>1, WalkFacts
<1>1. CASE UNCHANGED vars
  BY <1>1, Kept DEF vars
<1>2. ASSUME NEW limit \in 0..MaxLimit, NEW filter \in BOOLEAN,
             Begin(limit, filter)
      PROVE  NoneAgain'
  BY <1>2, BeginFacts
<1>3. CASE FindCustomers
  <2>1. /\ walk.pc = "asked" /\ items = NotYet
        /\ UNCHANGED <<walk, total, seen, begun, twice, events>>
        /\ Listed' = Listed /\ Cap' = Cap /\ Before' = Before
    BY <1>3, FindFacts
  <2>2. \A c \in Range(items') : /\ c \in Listed
                                 /\ Position(Listed, c) > Before
                                 /\ Position(Listed, c) <= Before + Cap
    BY <1>3, FindFacts
  <2>3. \A c \in Listed \intersect seen : Position(Listed, c) <= Before
    BY <2>1
  <2>4. Range(items') \intersect seen = {}
    <3> SUFFICES ASSUME NEW c \in Range(items'), c \in seen PROVE FALSE
      OBVIOUS
    <3>1. Position(Listed, c) > Before /\ Position(Listed, c) <= Before
      BY <2>2, <2>3
    <3> QED BY <1>0, <3>1
  <2> QED BY <2>1, <2>2, <2>3, <2>4
<1>4. CASE CountCustomers
  BY <1>4, CountFacts
<1>5. CASE Answer
  <2>1. /\ walk.pc = "asked" /\ items # NotYet
        /\ Listed' = Listed /\ "came" \notin events
        /\ seen' = seen \union Range(items)
        /\ twice' = twice \union (seen \intersect Range(items))
        /\ \/ walk'.pc = "asked" /\ Before' = Before + Cap /\ items' = NotYet
           \/ walk'.pc = "done"
    BY <1>5, AnswerFacts
  <2>2. twice' = {}
    BY <2>1
  <2>3. \A c \in Listed \intersect (seen \union Range(items)) :
          Position(Listed, c) <= Before + Cap
    <3> SUFFICES ASSUME NEW c \in Listed, c \in seen \/ c \in Range(items)
                 PROVE  Position(Listed, c) <= Before + Cap
      OBVIOUS
    <3>1. Position(Listed, c) <= Before \/ Position(Listed, c) <= Before + Cap
      BY <2>1
    <3>2. Position(Listed, c) \in Nat
      BY <1>0
    <3> QED BY <1>0, <3>1, <3>2
  <2> QED BY <2>1, <2>2, <2>3
<1>6. CASE ListStep
  <2>1. /\ UNCHANGED <<walk, items, total, seen, begun, twice>>
        /\ Cap' = Cap /\ Before' = Before
        /\ "came" \notin events
    BY <1>6, WalkFacts, Kept DEF ListStep
  <2>2. ASSUME walk.pc = "asked", NEW c \in Listed'
        PROVE  /\ c \in Listed /\ Position(Listed', c) \in Nat
               /\ Position(Listed, c) \in Nat
               /\ Position(Listed', c) <= Position(Listed, c)
    <3>1. Listed' \in SUBSET Listed
      BY <1>6, <2>2 DEF ListStep
    <3>2. Listed' \in SUBSET Customers
      BY <1>0, <3>1
    <3> QED BY <1>0, <2>2, <3>1, <3>2, PositionsPushed
  <2>3. ASSUME walk.pc = "asked", NEW c \in Listed',
               NEW b \in Nat, Position(Listed, c) <= b
        PROVE  Position(Listed', c) <= b
    BY <2>2, <2>3
  <2>4. Before + Cap \in Nat
    BY <1>0
  <2> QED BY <1>0, <2>1, <2>2, <2>3, <2>4
<1> QED BY <1>1, <1>2, <1>3, <1>4, <1>5, <1>6, ListSteps DEF Next

\* Nobody is on two pages of a walk unless somebody came onto the list.
THEOREM NobodySeenTwice == Spec => []NobodyTwice
<1>1. Init => NoneAgain
  BY DEF Init, NoneAgain
<1>2. NoneAgain => NobodyTwice
  BY DEF NoneAgain, NobodyTwice
<1> QED BY <1>1, <1>2, NoneAgainStep, TypesInvariant, PTL DEF Spec

-----------------------------------------------------------------------------
(* Nobody missed. *)

LEMMA NoneMissedStep ==
  Types /\ Untorn /\ NoneMissed /\ [Next]_vars => NoneMissed'
<1> SUFFICES ASSUME Types, Untorn, NoneMissed, [Next]_vars,
                    "left" \notin events'
             PROVE  NoneMissed'
  BY DEF NoneMissed
<1>0. /\ Cap \in Nat \ {0} /\ Before \in Nat
      /\ Listed \in SUBSET Customers
      /\ \A S \in SUBSET Customers : \A c :
           Position(S, c) \in Nat /\ Position(S, c) <= Cardinality(S)
      /\ \A S \in SUBSET Customers : Cardinality(S) \in Nat
  <2>1. ASSUME NEW S \in SUBSET Customers, NEW c
        PROVE  Position(S, c) \in Nat /\ Position(S, c) <= Cardinality(S)
               /\ Cardinality(S) \in Nat
    <3>1. Position(S, c) \in 0..Cardinality(S) /\ Cardinality(S) \in Nat
      BY UptoFacts, ListFacts
    <3> QED BY <3>1
  <2> QED BY <2>1, WalkFacts
<1>1. CASE UNCHANGED vars
  BY <1>1, Kept DEF vars, NoneMissed, Told
<1>2. ASSUME NEW limit \in 0..MaxLimit, NEW filter \in BOOLEAN,
             Begin(limit, filter)
      PROVE  NoneMissed'
  <2>1. /\ walk'.pc = "asked" /\ Before' = 0 /\ items' = NotYet
        /\ begun' = Listed' /\ Listed' \in SUBSET Customers
    BY <1>2, BeginFacts
  <2>2. \A c \in Listed' : ~(Position(Listed', c) <= 0)
    <3>1. ASSUME NEW c \in Listed'
          PROVE  Position(Listed', c) \in 1..Cardinality(Listed')
      BY <2>1, PositionsTaken
    <3>2. Cardinality(Listed') \in Nat
      BY <1>0, <2>1
    <3> QED BY <3>1, <3>2
  <2> QED BY <2>1, <2>2 DEF NoneMissed
<1>3. CASE FindCustomers
  <2>1. /\ walk.pc = "asked" /\ items = NotYet
        /\ UNCHANGED <<walk, total, seen, begun, twice, events>>
        /\ Listed' = Listed /\ Cap' = Cap /\ Before' = Before
        /\ \A c : c \in Range(items') <=>
                    /\ c \in Listed
                    /\ Position(Listed, c) > Before
                    /\ Position(Listed, c) <= Before + Cap
    BY <1>3, FindFacts
  <2>2. /\ begun \subseteq Listed
        /\ \A c \in begun : Position(Listed, c) <= Before => c \in seen
    BY <2>1 DEF NoneMissed
  <2>3. ASSUME NEW c \in begun, Position(Listed, c) <= Before + Cap
        PROVE  c \in seen \union Range(items')
    <3>1. Position(Listed, c) <= Before \/ Position(Listed, c) > Before
      BY <1>0
    <3> QED BY <2>1, <2>2, <2>3, <3>1
  <2>4. ASSUME "torn" \notin events, Told' <= Before + Cap
        PROVE  begun \subseteq seen \union Range(items')
    <3>1. Told' = Cardinality(Listed)
      BY <2>1, <2>4 DEF Told, Untorn
    <3>2. Position(Listed, 0) \in Nat /\ Cardinality(Listed) \in Nat
      BY <1>0
    <3>3. ASSUME NEW c \in begun
          PROVE  Position(Listed, c) <= Before + Cap
      <4>1. /\ Position(Listed, c) \in Nat
            /\ Position(Listed, c) <= Cardinality(Listed)
        BY <1>0
      <4> QED BY <1>0, <2>4, <3>1, <3>2, <4>1
    <3> QED BY <2>3, <3>3
  <2> QED BY <2>1, <2>2, <2>3, <2>4 DEF NoneMissed
<1>4. CASE CountCustomers
  <2>1. /\ UNCHANGED <<walk, items, seen, begun, twice, events>>
        /\ Listed' = Listed /\ Cap' = Cap /\ Before' = Before
    BY <1>4, CountFacts
  <2>2. Told' = Told
    BY <1>4, CountFacts DEF Told
  <2> QED BY <2>1, <2>2 DEF NoneMissed
<1>5. CASE Answer
  <2>1. /\ walk.pc = "asked" /\ items # NotYet /\ total \in Nat
        /\ "left" \notin events
        /\ Listed' = Listed /\ begun' = begun
        /\ seen' = seen \union Range(items)
    BY <1>5, AnswerFacts
  <2>2. /\ begun \subseteq Listed
        /\ \A c \in begun : Position(Listed, c) <= Before + Cap =>
                              c \in seen'
        /\ "torn" \notin events /\ Told <= Before + Cap =>
             begun \subseteq seen'
    BY <2>1 DEF NoneMissed
  <2>3. CASE /\ walk'.pc = "asked" /\ Before' = Before + Cap
             /\ items' = NotYet
    BY <2>1, <2>2, <2>3 DEF NoneMissed
  <2>4. CASE walk'.pc = "done" /\ events' = events /\ total <= Before + Cap
    <3>1. Told = total
      BY <2>1, NotYetFacts DEF Told
    <3> QED BY <2>1, <2>2, <2>4, <3>1 DEF NoneMissed
  <2> QED BY <1>5, <2>3, <2>4, AnswerFacts
<1>6. CASE ListStep
  <2>1. /\ UNCHANGED <<walk, items, total, seen, begun, twice>>
        /\ Cap' = Cap /\ Before' = Before /\ walk.pc # "done"
        /\ "left" \notin events
    BY <1>6, WalkFacts, Kept DEF ListStep
  <2>2. CASE walk.pc # "asked"
    BY <2>1, <2>2 DEF NoneMissed
  <2>3. CASE walk.pc = "asked"
    <3>1. /\ begun \subseteq Listed /\ Listed \subseteq Listed'
          /\ events \subseteq events'
          /\ "torn" \notin events' =>
               Listed' = Listed \/ ((items = NotYet) <=> (total = NotYet))
      BY <1>6, <2>1, <2>3 DEF ListStep, NoneMissed
    <3>2. Listed' \in SUBSET Customers
      BY <1>6, ListStepTypes
    <3>3. ASSUME NEW c, NEW b \in Nat, Position(Listed', c) <= b
          PROVE  Position(Listed, c) <= b
      <4>1. /\ Position(Listed, c) \in Nat /\ Position(Listed', c) \in Nat
            /\ Position(Listed, c) <= Position(Listed', c)
        BY <1>0, <3>1, <3>2, PositionsPushed
      <4> QED BY <3>3, <4>1
    <3>4. items # NotYet /\ "torn" \notin events' => Told' = Told
      BY <2>1, <3>1 DEF Told
    <3>5. Before + Cap \in Nat
      BY <1>0
    <3>6. \A c \in begun : Position(Listed', c) <= Before => c \in seen
      BY <1>0, <2>1, <2>3, <3>3 DEF NoneMissed
    <3>7. items # NotYet =>
            \A c \in begun : Position(Listed', c) <= Before + Cap =>
                               c \in seen \union Range(items)
      BY <2>1, <2>3, <3>3, <3>5 DEF NoneMissed
    <3>8. items # NotYet /\ "torn" \notin events' /\ Told' <= Before + Cap =>
            begun \subseteq seen \union Range(items)
      BY <2>1, <2>3, <3>1, <3>4 DEF NoneMissed
    <3> QED BY <2>1, <2>3, <3>1, <3>6, <3>7, <3>8 DEF NoneMissed
  <2> QED BY <2>2, <2>3
<1> QED BY <1>1, <1>2, <1>3, <1>4, <1>5, <1>6, ListSteps DEF Next

\* A walk misses nobody who was on the list all the time, unless somebody
\* left it or the last page was torn.
THEOREM WalksMissNobody == Spec => []WalkMissesNobody
<1>1. Init => Untorn /\ NoneMissed
  BY DEF Init, Untorn, NoneMissed
<1>2. NoneMissed => WalkMissesNobody
  BY DEF NoneMissed, WalkMissesNobody
<1> QED BY <1>1, <1>2, UntornStep, NoneMissedStep, TypesInvariant, PTL
        DEF Spec
=============================================================================
