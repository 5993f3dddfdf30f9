-------------------------- MODULE DocSearch_proofs --------------------------
(***************************************************************************)
(* Theorems about the search of the bundled API documentation, for any     *)
(* terms and any answers of the five indexes.  First what renderResults    *)
(* computes from an answer, then the invariants: of the page's types and   *)
(* life, of the search page (address, tabs, redirect), of the box in the   *)
(* header (menu and re-runs).                                              *)
(***************************************************************************)
EXTENDS DocSearch, SumFacts

---------------------------------------------------------------------------
(* Categories and answers *)

LEMMA FiveCategories ==
  /\ Category = {"types", "members", "packages", "modules", "searchTags"}
  /\ IsFiniteSet(Category) /\ Category # {} /\ None \notin Category
<1>1. Category = {"types", "members", "packages", "modules", "searchTags"}
  <2>1. DOMAIN Order = 1 .. 5
    BY DEF Order
  <2>2. 1 .. 5 = {1, 2, 3, 4, 5}
    OBVIOUS
  <2>3. /\ Order[1] = "types" /\ Order[2] = "members" /\ Order[3] = "packages"
        /\ Order[4] = "modules" /\ Order[5] = "searchTags"
    BY DEF Order
  <2> QED
    BY <2>1, <2>2, <2>3, Zenon DEF Category, ToSet
<1>2. IsFiniteSet(Category)
  <2>1. Category = {"types"} \cup ({"members"} \cup ({"packages"} \cup
                     ({"modules"} \cup {"searchTags"})))
    BY <1>1
  <2> QED
    BY <2>1, FS_Union, FS_Singleton
<1>3. None \notin Category
  BY <1>1 DEF None
<1> QED
  BY <1>1, <1>2, <1>3

LEMMA Positions ==
  /\ \A c \in Category : Position(c) \in 1 .. 5
  /\ \A c, d \in Category : Position(c) = Position(d) => c = d
<1>1. /\ DOMAIN Order = 1 .. 5
      /\ Order[1] = "types" /\ Order[2] = "members" /\ Order[3] = "packages"
      /\ Order[4] = "modules" /\ Order[5] = "searchTags"
  BY DEF Order
<1>2. ASSUME NEW c \in Category PROVE Position(c) \in 1 .. 5 /\ Order[Position(c)] = c
  <2>1. \E i \in DOMAIN Order : Order[i] = c
    BY DEF Category, ToSet
  <2>2. Position(c) \in DOMAIN Order /\ Order[Position(c)] = c
    BY <2>1 DEF Position
  <2> QED
    BY <1>1, <2>2
<1> QED
  BY <1>2

(* The sum over the five categories, written out. *)
LEMMA TotalIs ==
  ASSUME NEW r, \A c \in Category : r[c].count \in Nat
  PROVE  Total(r) = r["types"].count + r["members"].count + r["packages"].count
                      + r["modules"].count + r["searchTags"].count
<1> DEFINE f == [c \in Category |-> r[c].count]
           Sum(s) == SumFunctionOnSet(f, s)
<1>1. Total(r) = Sum(Category)
  BY DEF Total, SumFunction
<1>2. \A c \in Category : f[c] = r[c].count /\ f[c] \in Nat
  OBVIOUS
<1> HIDE DEF f
<1>3. ASSUME NEW s \in SUBSET Category, NEW c \in s, NEW u, u = s \ {c}
      PROVE  Sum(s) = f[c] + Sum(u)
  <2>1. IsFiniteSet(s) /\ \A x \in s : f[x] \in Nat
    BY <1>2, FiveCategories, FS_Subset
  <2> QED
    BY <1>3, <2>1, SumAnyOrder
<1>4. Sum({}) = 0
  BY SumEmpty
<1> HIDE DEF Sum
<1> DEFINE Tail2 == {"modules", "searchTags"}
           Tail3 == {"packages"} \cup Tail2
           Tail4 == {"members"} \cup Tail3
<1>5. Sum({"searchTags"}) = f["searchTags"] + 0
  BY <1>3, <1>4, FiveCategories
<1>6. Sum(Tail2) = f["modules"] + Sum({"searchTags"})
  BY <1>3, FiveCategories
<1>7. Sum(Tail3) = f["packages"] + Sum(Tail2)
  BY <1>3, FiveCategories
<1>8. Sum(Tail4) = f["members"] + Sum(Tail3)
  BY <1>3, FiveCategories
<1>9. Sum(Category) = f["types"] + Sum(Tail4)
  BY <1>3, FiveCategories
<1> HIDE DEF Tail2, Tail3, Tail4
<1> QED
  BY <1>1, <1>2, <1>5, <1>6, <1>7, <1>8, <1>9, FiveCategories

(* A total of zero is a total of zeros. *)
LEMMA TotalZero ==
  ASSUME NEW r, \A c \in Category : r[c].count \in Nat, Total(r) = 0
  PROVE  \A c \in Category : r[c].count = 0
<1> DEFINE f == [c \in Category |-> r[c].count]
<1>1. \A c \in Category : f[c] = r[c].count /\ f[c] \in Nat
  OBVIOUS
<1>2. SumFunctionOnSet(f, Category) = 0
  BY DEF Total, SumFunction
<1> HIDE DEF f
<1>3. \A c \in Category : f[c] = 0
  BY <1>1, <1>2, FiveCategories, SumZero
<1> QED
  BY <1>1, <1>3

LEMMA MinOfTwo ==
  ASSUME NEW m \in Nat, NEW n \in Nat
  PROVE  Min({m, n}) = IF m <= n THEN m ELSE n
BY DEF Min

(* An answer has an entry per category; those of the indexes that are there  *)
(* have a score exactly if they have an entry.                               *)
LEMMA AnswerTyped ==
  ASSUME NEW t \in Terms, NEW idx, NEW n \in Nat
  PROVE  Results(t, idx, n) \in [Category -> Entry]
<1>1. \A c \in Category : Found[t][c].count \in Nat /\ Found[t][c].score \in Nat
  BY FoundAssumption
<1>2. \A c \in Category : Min({Found[t][c].count, n}) \in Nat
  BY <1>1, MinOfTwo
<1> QED
  BY <1>1, <1>2 DEF Results, Entry, Loading

LEMMA AnswerScored ==
  ASSUME NEW t \in Terms, NEW idx, NEW n \in Nat \ {0}, NEW c \in Category
  PROVE  LET r == Results(t, idx, n)
         IN /\ c \in idx => r[c].ready /\ (r[c].count > 0 <=> r[c].score > 0)
            /\ c \notin idx => r[c] = Loading
<1>1. /\ Found[t][c].count \in Nat /\ Found[t][c].score \in Nat
      /\ Found[t][c].count > 0 <=> Found[t][c].score > 0
  BY FoundAssumption
<1>2. Min({Found[t][c].count, n}) > 0 <=> Found[t][c].count > 0
  BY <1>1, MinOfTwo
<1> QED
  BY <1>1, <1>2 DEF Results

(* Among categories there is a first one with the best score. *)
LEMMA BestExists ==
  ASSUME NEW r \in [Category -> Entry], NEW S \in SUBSET Category, S # {}
  PROVE  \E c \in S : \A d \in S :
            r[c].score > r[d].score \/ (r[c].score = r[d].score /\ Position(c) <= Position(d))
<1> DEFINE Upper == {n \in Nat : \A c \in S : r[c].score <= n}
<1>1. \A c \in Category : r[c].score \in Nat
  BY DEF Entry
<1>2. Upper # {}
  <2> DEFINE n == r["types"].score + r["members"].score + r["packages"].score
                    + r["modules"].score + r["searchTags"].score
  <2>1. n \in Nat /\ \A c \in Category : r[c].score <= n
    BY <1>1, FiveCategories
  <2> QED
    BY <2>1
<1>3. PICK n \in Upper : \A m \in Upper : n <= m
  BY <1>2, Least
<1>4. PICK a \in S : r[a].score = n
  <2>1. SUFFICES ASSUME \A c \in S : r[c].score # n PROVE FALSE
    OBVIOUS
  <2>2. \A c \in S : r[c].score <= n - 1
    BY <1>1, <1>3, <2>1
  <2>3. n - 1 \in Nat
    BY <1>1, <1>3, <2>2
  <2> QED
    BY <1>3, <2>2, <2>3
<1> DEFINE First5 == {Position(c) : c \in {d \in S : r[d].score = n}}
<1>5. First5 \in SUBSET Nat /\ First5 # {}
  BY <1>4, Positions
<1>6. PICK p \in First5 : \A q \in First5 : p <= q
  BY <1>5, Least
<1>7. PICK c \in S : r[c].score = n /\ Position(c) = p
  BY <1>6
<1>8. ASSUME NEW d \in S
      PROVE  r[c].score > r[d].score \/ (r[c].score = r[d].score /\ Position(c) <= Position(d))
  <2>1. r[d].score <= n /\ r[d].score \in Nat /\ n \in Nat
    BY <1>1, <1>3
  <2>2. CASE r[d].score = n
    <3>1. Position(d) \in First5
      BY <2>2
    <3> QED
      BY <1>6, <1>7, <2>2, <3>1
  <2>3. CASE r[d].score # n
    BY <1>7, <2>1, <2>3
  <2> QED
    BY <2>2, <2>3
<1> QED
  BY <1>8

Scored(r) == {c \in Category : r[c].score > 0}

(* The tab that leads has a score; it is any tab only if nothing has one. *)
LEMMA LeadingIs ==
  ASSUME NEW r \in [Category -> Entry], NEW tab
  PROVE  /\ Scored(r) = {} => Leading(r, tab) = tab
         /\ Scored(r) # {} => Leading(r, tab) \in Scored(r)
         /\ Scored(r) # {} => \A other : Leading(r, other) = Leading(r, tab)
<1> DEFINE Best(c) ==
             \A d \in Scored(r) :
               r[c].score > r[d].score \/ (r[c].score = r[d].score /\ Position(c) <= Position(d))
<1>1. \A x : Leading(r, x) = IF Scored(r) = {} THEN x ELSE CHOOSE c \in Scored(r) : Best(c)
  BY DEF Leading, Scored
<1>2. Scored(r) # {} => \E c \in Scored(r) : Best(c)
  BY BestExists DEF Scored
<1> HIDE DEF Best
<1> QED
  BY <1>1, <1>2

(* The tab renderResults ends with is a tab, unless it starts from a stray one. *)
LEMMA TabIsTab ==
  ASSUME NEW r \in [Category -> Entry], NEW tab \in RealTabs, NEW t, NEW fix
  PROVE  FirstTab(r, tab, fix) \in RealTabs /\ TabFor(r, t, tab, fix) \in RealTabs
<1>1. Leading(r, tab) \in RealTabs
  BY LeadingIs DEF Scored, RealTabs
<1>2. FirstTab(r, tab, fix) \in RealTabs
  BY <1>1 DEF FirstTab
<1>3. "members" \in RealTabs /\ "types" \in RealTabs
  BY FiveCategories DEF RealTabs
<1> QED
  BY <1>2, <1>3 DEF TabFor, MemberTab

(* An answer with a scored category leads to a tab that has entries. *)
LEMMA TabHasEntries ==
  ASSUME NEW r \in [Category -> Entry], Scored(r) # {}, Scored(r) \subseteq Hit(r),
         NEW tab \in RealTabs, NEW t, NEW fix
  PROVE  TabFor(r, t, tab, fix) \in Hit(r)
<1>1. \A c \in Category : r[c].count \in Nat
  BY DEF Entry
<1>2. Leading(r, tab) \in Hit(r)
  BY LeadingIs
<1>3. FirstTab(r, tab, fix) \in Hit(r)
  BY <1>1, <1>2 DEF FirstTab, RealTabs, Hit
<1>4. r["members"].count > r["types"].count => "members" \in Hit(r)
  BY <1>1, FiveCategories DEF Hit
<1>5. r["types"].count > r["packages"].count => "types" \in Hit(r)
  BY <1>1, FiveCategories DEF Hit
<1> QED
  BY <1>3, <1>4, <1>5 DEF TabFor, MemberTab

(* Scored categories have entries; more than twenty entries, or any at all   *)
(* when no index is missing, are not all notices of a missing index.         *)
LEMMA AnswerHits ==
  ASSUME NEW t \in Terms, NEW idx, NEW n \in Nat \ {0}
  PROVE  LET r == Results(t, idx, n)
         IN /\ Scored(r) \subseteq Hit(r)
            /\ Total(r) > 20 => Scored(r) # {}
            /\ idx = Category /\ Total(r) > 0 => Scored(r) # {}
            /\ Total(r) = 0 => Hit(r) = {} /\ Category \subseteq idx
<1> DEFINE r == Results(t, idx, n)
<1>1. r \in [Category -> Entry] /\ \A c \in Category : r[c].count \in Nat /\ r[c].score \in Nat
  BY AnswerTyped DEF Entry
<1>2. \A c \in Category : r[c] = Loading \/ (r[c].count > 0 <=> r[c].score > 0)
  BY AnswerScored
<1>3. \A c \in Category : c \notin idx <=> ~r[c].ready
  BY AnswerScored DEF Loading
<1>4. \A c \in Category : ~r[c].ready => r[c].count = 1
  BY <1>3, AnswerScored DEF Loading
<1>5. Total(r) = r["types"].count + r["members"].count + r["packages"].count
                      + r["modules"].count + r["searchTags"].count
  BY <1>1, TotalIs
<1>6. Scored(r) = {} => \A c \in Category : r[c].count = 0 \/ r[c] = Loading
  BY <1>1, <1>2 DEF Scored
<1>7. idx = Category => \A c \in Category : r[c].count > 0 <=> r[c].score > 0
  BY AnswerScored
<1> HIDE DEF r
<1>8. Scored(r) \subseteq Hit(r)
  BY <1>1, <1>2 DEF Scored, Hit, Loading
<1>9. ASSUME Scored(r) = {} PROVE Total(r) <= 5
  <2>1. \A c \in Category : r[c].count = 0 \/ r[c].count = 1
    BY <1>6, <1>9 DEF Loading
  <2> QED
    BY <1>5, <2>1, FiveCategories
<1>10. ASSUME idx = Category, Scored(r) = {} PROVE Total(r) = 0
  <2>1. \A c \in Category : r[c].count = 0
    BY <1>1, <1>7, <1>10 DEF Scored
  <2> QED
    BY <1>5, <2>1, FiveCategories
<1>11. ASSUME Total(r) = 0 PROVE Hit(r) = {} /\ Category \subseteq idx
  <2>1. \A c \in Category : r[c].count = 0
    BY <1>1, <1>11, TotalZero
  <2>2. Hit(r) = {}
    BY <2>1 DEF Hit
  <2>3. \A c \in Category : c \in idx
    BY <1>3, <1>4, <2>1
  <2> QED
    BY <2>2, <2>3
<1>12. Total(r) \in Nat
  BY <1>1, <1>5, FiveCategories
<1>13. Total(r) > 20 => Scored(r) # {}
  BY <1>9, <1>12
<1>14. idx = Category /\ Total(r) > 0 => Scored(r) # {}
  BY <1>10, <1>12
<1> QED
  BY <1>8, <1>13, <1>14, <1>11 DEF r

---------------------------------------------------------------------------
(* Types *)

LEMMA TrimIs ==
  ASSUME NEW t \in Texts
  PROVE  /\ Trim(t) \in Terms \cup {Empty}
         /\ t \in Terms \cup {Empty} => Trim(t) = t
         /\ Trim(Empty) = Empty
         /\ Trim(t) # Empty => Trim(t) \in Terms
BY TermsAssumption DEF Trim, Texts, Empty, Blank, None

(* What a term is read back as. *)
LEMMA ReadBackIs ==
  ASSUME NEW t \in Terms
  PROVE  ReadBack[t].q \in Texts /\ ReadBack[t].c \in Tabs /\ ReadBack[t].r \in BOOLEAN
BY ReadBackAssumption DEF Texts, Tabs, RealTabs

LEMMA AddressTyped ==
  ASSUME NEW t \in Texts, NEW tab \in Tabs, NEW fix \in BOOLEAN
  PROVE  AddressOf(t, tab, fix) \in Address
<1>1. NoQuery \in Address
  BY DEF NoQuery, Address, Texts, Tabs, RealTabs
<1>2. ASSUME NEW u \in Terms, NEW c \in Tabs PROVE Written(u, c) \in Address
  BY <1>2, ReadBackIs DEF Written, Address
<1>3. (IF fix THEN tab ELSE None) \in Tabs
  BY DEF Tabs, RealTabs
<1> QED
  BY <1>1, <1>2, <1>3, TrimIs DEF AddressOf

(* The query and the flag of the address are those the term is read back as. *)
LEMMA AddressReads ==
  ASSUME NEW t \in Texts, NEW tab, NEW fix \in BOOLEAN
  PROVE  /\ AddressOf(t, tab, fix).q = AddressOf(t, None, FALSE).q
         /\ AddressOf(t, tab, fix).r => ReadBack[Trim(t)].r
BY TrimIs DEF AddressOf, Written, NoQuery

(* A term that is read back whole leaves the tab in the address alone. *)
LEMMA WholeAddress ==
  ASSUME NEW t \in Texts, Whole(Trim(t)), NEW tab, NEW fix \in BOOLEAN
  PROVE  AddressOf(t, tab, fix).q = Trim(t)
         /\ AddressOf(t, tab, fix).c = IF fix THEN tab ELSE None
<1>1. Trim(t) # Empty
  BY TermsAssumption DEF Whole
<1> QED
  BY <1>1 DEF Whole, AddressOf, Written

LEMMA AgainTyped ==
  ASSUME NEW t \in Terms \cup {Empty}, NEW idx, NEW b \in BOOLEAN
  PROVE  Again(t, idx, b) \in Rerun
BY DEF Again, Idle, Rerun

LEMMA MenuTyped ==
  /\ \A idx : \A t \in Terms :
       MenuFor(t, idx) \in Menu
  /\ Closed \in Menu
<1>1. \A idx : \A t \in Terms : Results(t, idx, 300) \in [Category -> Entry]
  BY AnswerTyped
<1>2. Closed \in Menu
  BY DEF Closed, Nothing, Entry, Menu
<1> QED
  BY <1>1, <1>2 DEF MenuFor, Menu

LEMMA HiddenTyped ==
  ASSUME NEW t \in Terms \cup {Empty} PROVE Hidden(t) \in View
BY DEF Hidden, View, RealTabs

(* What renderResults leaves, for the answer to a term. *)
LEMMA RenderTyped ==
  ASSUME TypeOK, NEW t \in Terms, NEW tab \in Tabs, NEW fix \in BOOLEAN, NEW lucky \in BOOLEAN,
         Render(t, Results(t, loaded, 1200), tab, fix, lucky)
  PROVE  /\ activeTab' \in Tabs /\ notify' \in {"none", "one", "many", "redirecting"}
         /\ phase' \in {"ready", "left"} /\ view' \in View
         /\ visibleTabs' \in TabLists
<1> DEFINE r == Results(t, loaded, 1200)
           first == FirstTab(r, tab, fix)
           final == MemberTab(r, t, first)
<1>1. r \in [Category -> Entry]
  BY AnswerTyped
<1>2. final = TabFor(r, t, tab, fix)
  BY DEF TabFor
<1>3. tab # Stray => first \in RealTabs /\ final \in RealTabs
  BY <1>1, <1>2, TabIsTab DEF Tabs
<1>r. RealTabs \subseteq Tabs
  BY DEF Tabs
<1>4. view \in View /\ visibleTabs \in TabLists
  BY DEF TypeOK
<1>5. Hit(r) \in SUBSET Category /\ Drawn(r) \in SUBSET Category
  BY DEF Hit, Drawn
<1>6. Hidden(t) \in View
  BY HiddenTyped
<1>9. CASE tab = Stray
  <2>1. /\ activeTab' = Stray /\ notify' = Count(r) /\ phase' = "ready"
        /\ view' = [Hidden(t) EXCEPT !.open = view.open] /\ visibleTabs' = visibleTabs
    BY <1>9 DEF Render, RenderStray
  <2>2. Count(r) \in {"none", "one", "many"}
    BY DEF Count
  <2> QED
    BY <1>4, <1>6, <2>1, <2>2 DEF View, Tabs
<1>7. CASE tab # Stray /\ lucky /\ first # None
  <2>1. /\ activeTab' = first /\ notify' = "redirecting" /\ phase' = "left"
        /\ view' = [Hidden(t) EXCEPT !.open = view.open] /\ visibleTabs' = visibleTabs
    BY <1>7 DEF Render
  <2> QED
    BY <1>3, <1>r, <1>4, <1>6, <1>7, <2>1 DEF View
<1>8. CASE tab # Stray /\ ~(lucky /\ first # None)
  <2>1. /\ activeTab' = final /\ notify' = Count(r) /\ phase' = "ready"
        /\ IF Wide(r) THEN DrawTabs(t, r, final) ELSE DrawAll(t, r)
    BY <1>8 DEF Render
  <2>2. Count(r) \in {"none", "one", "many"}
    BY DEF Count
  <2>3. CASE Wide(r)
    <3>1. Scored(r) # {} /\ Scored(r) \subseteq Hit(r)
      BY <2>3, AnswerHits DEF Wide
    <3>2. final \in Hit(r)
      BY <1>1, <1>2, <1>8, <3>1, TabHasEntries DEF Tabs
    <3>3. r[final].ready \in BOOLEAN /\ final \in Category
      BY <1>1, <3>2 DEF Hit, Entry
    <3>4. /\ visibleTabs' = Keys(r)
          /\ view' = [open    |-> r[final].ready \/ view.open, term |-> t,
                      tables  |-> IF r[final].ready THEN {final} ELSE {},
                      marked  |-> final, buttons |-> Hit(r)]
      BY <2>1, <2>3 DEF DrawTabs
    <3>5. view' \in View
      BY <1>3, <1>4, <1>5, <1>8, <3>3, <3>4 DEF View
    <3> QED
      BY <1>3, <1>r, <1>5, <1>8, <2>1, <2>2, <3>4, <3>5 DEF Keys, TabLists
  <2>4. CASE ~Wide(r)
    <3>1. /\ visibleTabs' = <<>>
          /\ view' = [open   |-> Drawn(r) = Hit(r) \/ view.open, term |-> t,
                      tables |-> Drawn(r), marked |-> None, buttons |-> {}]
      BY <2>1, <2>4 DEF DrawAll
    <3>2. view' \in View
      <4>1. (Drawn(r) = Hit(r) \/ view.open) \in BOOLEAN
        OBVIOUS
      <4> QED
        BY <1>5, <3>1, <4>1 DEF View, RealTabs
    <3> QED
      BY <1>3, <1>r, <1>8, <2>1, <2>2, <3>1, <3>2 DEF TabLists
  <2> QED
    BY <2>3, <2>4
<1> QED
  BY <1>7, <1>8, <1>9

(* doPageSearch keeps the types of the search page. *)
LEMMA PageSearchTyped ==
  ASSUME TypeOK, NEW t \in Texts, NEW tab \in Tabs, NEW fix \in BOOLEAN, NEW lucky \in BOOLEAN,
         PageSearch(t, tab, fix, lucky)
  PROVE  /\ url' \in Address
         /\ rerun' \in Rerun
         /\ activeTab' \in Tabs /\ fixedTab' \in BOOLEAN /\ feelingLucky' \in BOOLEAN
         /\ visibleTabs' \in TabLists
         /\ notify' \in {"loading", "enter", "none", "one", "many", "redirecting"}
         /\ phase' \in {"ready", "left"} /\ view' \in View
<1>1. url' \in Address /\ feelingLucky' \in BOOLEAN
  BY AddressTyped DEF PageSearch
<1>2. CASE Trim(t) = Empty
  <2>1. view' \in View
    BY <1>2, HiddenTyped DEF PageSearch
  <2>2. /\ activeTab' = None /\ fixedTab' = FALSE /\ notify' = "enter" /\ phase' = "ready"
        /\ visibleTabs' = visibleTabs /\ rerun' = rerun
    BY <1>2 DEF PageSearch
  <2> QED
    BY <1>1, <2>1, <2>2 DEF Tabs, RealTabs, TypeOK
<1>3. CASE Trim(t) # Empty
  <2>1. Trim(t) \in Terms
    BY <1>3, TrimIs
  <2>2. /\ fixedTab' = fix /\ rerun' = Again(Trim(t), loaded, TRUE)
        /\ Render(Trim(t), Results(Trim(t), loaded, 1200), tab, fix, lucky)
    BY <1>3 DEF PageSearch
  <2>3. rerun' \in Rerun
    BY <2>1, <2>2, AgainTyped
  <2>4. /\ activeTab' \in Tabs /\ notify' \in {"none", "one", "many", "redirecting"}
        /\ phase' \in {"ready", "left"} /\ view' \in View /\ visibleTabs' \in TabLists
    BY <2>1, <2>2, RenderTyped
  <2> QED
    BY <1>1, <2>2, <2>3, <2>4
<1> QED
  BY <1>2, <1>3

LEMMA ShowTabTyped ==
  ASSUME TypeOK, NEW c \in Category, ShowTab(c) PROVE TypeOK'
<1>1. activeTab' \in Tabs /\ fixedTab' \in BOOLEAN
  BY DEF ShowTab, Tabs, RealTabs
<1>2. url' \in Address
  BY <1>1, AddressTyped DEF ShowTab, TypeOK
<1>3. view \in View /\ view' = [view EXCEPT !.tables = IF c \in loaded THEN {c} ELSE {},
                                           !.marked = IF c \in loaded THEN c ELSE @]
  BY DEF ShowTab, TypeOK
<1>4. view' \in View
  BY <1>3 DEF View, RealTabs
<1> QED
  BY <1>1, <1>2, <1>4 DEF ShowTab, TypeOK, box, loading

LEMMA TurnTyped ==
  ASSUME TypeOK, NEW step, Turn(step)
  PROVE  \E c \in view.buttons : ShowTab(c)
BY DEF Turn

LEMMA InitTyped == Init => TypeOK
<1> SUFFICES ASSUME Init PROVE TypeOK
  OBVIOUS
<1>1. url \in Address
  <2>1. CASE \E t \in Terms \cup {Empty}, c \in Category \cup {None} : url = AddressOf(t, c, TRUE)
    <3>1. PICK t \in Terms \cup {Empty}, c \in Category \cup {None} : url = AddressOf(t, c, TRUE)
      BY <2>1
    <3>2. t \in Texts /\ c \in Tabs
      BY DEF Texts, Tabs, RealTabs
    <3> QED
      BY <3>1, <3>2, AddressTyped
  <2>2. CASE \E t \in Terms, lucky \in BOOLEAN : url = [q |-> t, c |-> None, r |-> lucky]
    BY <2>2 DEF Address, Texts, Tabs, RealTabs
  <2> QED
    BY <2>1, <2>2 DEF Init, Opened
<1>2. rerun \in Rerun
  BY DEF Init, Idle, Rerun
<1>3. view \in View
  BY HiddenTyped DEF Init
<1>4. menu \in Menu /\ visibleTabs \in TabLists /\ activeTab \in Tabs /\ text \in Texts
  BY MenuTyped DEF Init, Tabs, RealTabs, Texts, TabLists
<1> QED
  BY <1>1, <1>2, <1>3, <1>4 DEF Init, TypeOK

LEMMA ReloadTyped == ASSUME TypeOK, Reload PROVE TypeOK'
<1>2. rerun' \in Rerun
  BY DEF Reload, Idle, Rerun
<1>3. view' \in View
  BY HiddenTyped DEF Reload
<1>4. menu' \in Menu /\ visibleTabs' \in TabLists /\ activeTab' \in Tabs /\ text' \in Texts
  BY MenuTyped DEF Reload, Tabs, RealTabs, Texts, TabLists
<1> QED
  BY <1>2, <1>3, <1>4 DEF Reload, TypeOK

(* A search that is to be run again has a term, so its answer has a type;    *)
(* the box remembers a term once it has searched.                            *)
RerunHasTerm == rerun # Idle => rerun.term \in Terms
BoxHasTerm == boxTerm = None => ~menu.open /\ (page = "doc" => rerun = Idle)

(* A page starts with nothing in it, and the search page answers no input    *)
(* before every index file has answered.                                     *)
Fresh ==
  phase = "loading" =>
    /\ rerun = Idle /\ text = Empty /\ ~timer /\ ~feelingLucky /\ view = Hidden(Empty)
    /\ activeTab = None /\ menu = Closed /\ notify = "loading"
AllAnswered == page = "search" /\ phase # "loading" => loaded \cup failed = Category
BoxIsElsewhere == page = "search" => menu = Closed

Life == RerunHasTerm /\ BoxHasTerm /\ Fresh /\ AllAnswered /\ BoxIsElsewhere
TypeInv == TypeOK /\ Life

LEMMA IndexTyped ==
  ASSUME TypeInv, NEW c \in Category, IndexLoads(c) \/ IndexFails(c) PROVE TypeOK' /\ RerunHasTerm'
<1>1. CASE IndexLoads(c)
  <2>1. loaded' \in SUBSET Category /\ failed' \in SUBSET (Category \ loaded')
    BY <1>1 DEF IndexLoads, TypeInv, TypeOK
  <2>2. CASE rerun = Idle
    BY <1>1, <2>1, <2>2 DEF IndexLoads, TypeInv, Life, TypeOK, RerunHasTerm, searchPage
  <2>3. CASE rerun # Idle
    <3>1. rerun.term \in Terms /\ rerun.current \in BOOLEAN
      BY <2>3 DEF TypeInv, Life, TypeOK, RerunHasTerm, Rerun
    <3>2. rerun' = Again(rerun.term, loaded', rerun.current)
      BY <1>1, <2>3 DEF IndexLoads
    <3>3. rerun' \in Rerun /\ RerunHasTerm'
      BY <3>1, <3>2, AgainTyped DEF RerunHasTerm, Again
    <3>4. menu' = menu \/ menu' = Closed \/ menu' = MenuFor(rerun.term, loaded')
      BY <1>1, <2>3, <3>1 DEF IndexLoads
    <3>5. menu' \in Menu
      BY <3>1, <3>4, MenuTyped DEF TypeInv, TypeOK
    <3> QED
      BY <1>1, <2>1, <3>3, <3>5 DEF IndexLoads, TypeInv, TypeOK, searchPage
  <2> QED
    BY <2>2, <2>3
<1>2. CASE IndexFails(c)
  BY <1>2 DEF IndexFails, TypeInv, Life, TypeOK, RerunHasTerm, searchPage, box
<1> QED
  BY <1>1, <1>2

LEMMA DoSearchTyped ==
  ASSUME TypeInv, NEW t \in Texts, DoSearch(t)
  PROVE  rerun' \in Rerun /\ RerunHasTerm' /\ menu' \in Menu /\ cancelSearch' \in BOOLEAN
<1>1. CASE Trim(t) = Empty
  <2>1. rerun' = [rerun EXCEPT !.current = FALSE] /\ menu' = Closed /\ cancelSearch' = TRUE
    BY <1>1 DEF DoSearch
  <2>2. rerun' \in Rerun /\ rerun'.term = rerun.term
    BY <2>1 DEF TypeInv, TypeOK, Rerun
  <2>3. ASSUME rerun = Idle PROVE rerun' = Idle
    <3>1. rerun'.term = Empty /\ rerun'.current = FALSE
      BY <2>1, <2>3 DEF Idle
    <3> QED
      BY <2>2, <3>1 DEF Idle, Rerun
  <2> QED
    BY <2>1, <2>2, <2>3, MenuTyped DEF TypeInv, Life, RerunHasTerm
<1>2. CASE Trim(t) # Empty
  <2>1. Trim(t) \in Terms
    BY <1>2, TrimIs
  <2>2. rerun' = Again(Trim(t), loaded, TRUE) /\ menu' = MenuFor(Trim(t), loaded)
        /\ cancelSearch' = FALSE
    BY <1>2 DEF DoSearch
  <2> QED
    BY <2>1, <2>2, AgainTyped, MenuTyped DEF RerunHasTerm, Again
<1> QED
  BY <1>1, <1>2

LEMMA PageActionsTyped ==
  ASSUME TypeInv,
         \/ PageLoads \/ PageTimer \/ ResetPage \/ TurnLeft \/ TurnRight
         \/ \E c \in Category : ClickTab(c)
         \/ \E t \in Texts : TypeOnPage(t)
  PROVE  TypeOK' /\ RerunHasTerm'
<1> USE DEF TypeInv, Life
<1>t. (\A t \in Terms \cup {Empty} : t \in Texts) /\ None \in Tabs /\ view.buttons \in SUBSET Category
  BY DEF Texts, Tabs, RealTabs, TypeOK, View
<1>a. url.q \in Texts /\ url.c \in Tabs /\ url.r \in BOOLEAN
  BY DEF TypeOK, Address
<1>s. ASSUME NEW c \in Category, ShowTab(c) PROVE TypeOK' /\ RerunHasTerm'
  BY <1>s, ShowTabTyped DEF ShowTab, RerunHasTerm
<1>p. ASSUME NEW t \in Texts, NEW tab \in Tabs, NEW fix \in BOOLEAN, NEW lucky \in BOOLEAN,
             PageSearch(t, tab, fix, lucky)
      PROVE  RerunHasTerm'
  <2>1. rerun' = rerun \/ (Trim(t) # Empty /\ rerun' = Again(Trim(t), loaded, TRUE))
    BY <1>p DEF PageSearch
  <2> QED
    BY <2>1, TrimIs DEF RerunHasTerm, Again
<1>1. CASE PageLoads
  <2>1. CASE url.q # Empty
    <3>1. PageSearch(url.q, url.c, url.c # None, url.r)
      BY <1>1, <2>1 DEF PageLoads
    <3>2. (url.c # None) \in BOOLEAN
      OBVIOUS
    <3> QED
      BY <1>1, <1>p, <1>a, <1>t, <3>1, <3>2, PageSearchTyped DEF PageLoads, TypeOK, box, loading
  <2>2. CASE url.q = Empty
    <3>1. (url.c # None) \in BOOLEAN
      OBVIOUS
    <3> QED
      BY <1>1, <1>a, <1>t, <2>2, <3>1 DEF PageLoads, TypeOK, box, loading, RerunHasTerm
  <2> QED
    BY <2>1, <2>2
<1>2. CASE PageTimer
  <2>1. PageSearch(text, activeTab, fixedTab, feelingLucky) /\ timer' = FALSE
    BY <1>2 DEF PageTimer
  <2> QED
    BY <1>2, <1>p, <2>1, PageSearchTyped DEF PageTimer, TypeOK, box, loading
<1>3. CASE ResetPage
  <2>1. url' \in Address /\ view' \in View
    BY <1>3, <1>t, AddressTyped, HiddenTyped DEF ResetPage
  <2> QED
    BY <1>3, <1>t, <2>1 DEF ResetPage, TypeOK, box, loading, RerunHasTerm
<1>4. CASE TurnLeft \/ TurnRight
  BY <1>4, <1>s, <1>t, TurnTyped DEF TurnLeft, TurnRight
<1>5. CASE \E c \in Category : ClickTab(c)
  BY <1>5, <1>s DEF ClickTab
<1>6. CASE \E t \in Texts : TypeOnPage(t)
  BY <1>6 DEF TypeOnPage, TypeOK, box, loading, RerunHasTerm
<1> QED
  BY <1>1, <1>2, <1>3, <1>4, <1>5, <1>6

LEMMA BoxActionsTyped ==
  ASSUME TypeInv,
         \/ BoxLoads \/ BoxTimer \/ Escape
         \/ \E c \in Category \cup {None} : Select(c)
         \/ \E t \in Texts : TypeInBox(t)
         \/ \E reset \in BOOLEAN : LeaveBox(reset)
  PROVE  TypeOK' /\ RerunHasTerm'
<1> USE DEF TypeInv, Life
<1>t. Empty \in Texts /\ Closed \in Menu
  BY MenuTyped DEF Texts
<1>1. CASE BoxLoads
  BY <1>1, <1>t DEF BoxLoads, TypeOK, box, loading, searchPage, RerunHasTerm
<1>2. CASE BoxTimer
  <2>1. CASE boxTerm = text /\ menu.open
    BY <1>2, <2>1 DEF BoxTimer, TypeOK, box, loading, searchPage, RerunHasTerm
  <2>2. CASE ~(boxTerm = text /\ menu.open) /\ text = Empty
    BY <1>2, <1>t, <2>2 DEF BoxTimer, TypeOK, loading, searchPage, RerunHasTerm
  <2>3. CASE ~(boxTerm = text /\ menu.open) /\ text # Empty
    <3>1. DoSearch(text) /\ boxTerm' = text
      BY <1>2, <2>3 DEF BoxTimer
    <3>2. rerun' \in Rerun /\ RerunHasTerm' /\ menu' \in Menu /\ cancelSearch' \in BOOLEAN
      BY <3>1, DoSearchTyped DEF TypeOK
    <3> QED
      BY <1>2, <3>1, <3>2 DEF BoxTimer, TypeOK, loading, searchPage
  <2> QED
    BY <2>1, <2>2, <2>3
<1>3. CASE Escape
  <2>1. boxTerm \in Texts
    BY <1>3 DEF Escape, TypeOK, BoxHasTerm
  <2> QED
    BY <1>3, <1>t, <2>1 DEF Escape, TypeOK, loading, searchPage, RerunHasTerm
<1>4. CASE \E c \in Category \cup {None} : Select(c)
  BY <1>4, <1>t DEF Select, TypeOK, loading, searchPage, RerunHasTerm
<1>5. CASE \E t \in Texts : TypeInBox(t)
  BY <1>5 DEF TypeInBox, TypeOK, box, loading, searchPage, RerunHasTerm
<1>6. CASE \E reset \in BOOLEAN : LeaveBox(reset)
  BY <1>6, <1>t DEF LeaveBox, TypeOK, loading, searchPage, RerunHasTerm
<1> QED
  BY <1>1, <1>2, <1>3, <1>4, <1>5, <1>6

(* The search page leaves only when the search was to redirect. *)
LEMMA RedirectIsAsked ==
  ASSUME NEW t, NEW tab, NEW fix, NEW lucky, PageSearch(t, tab, fix, lucky)
  PROVE  phase' \in {"ready", "left"} /\ (phase' = "left" => lucky)
<1>1. ASSUME NEW r, Render(Trim(t), r, tab, fix, lucky)
      PROVE  phase' = "ready" \/ (phase' = "left" /\ lucky)
  BY <1>1, Zenon DEF Render, RenderStray
<1>2. phase' = "ready" \/ Render(Trim(t), Results(Trim(t), loaded, 1200), tab, fix, lucky)
  BY DEF PageSearch
<1> QED
  BY <1>1, <1>2

PageAction ==
  \/ PageLoads \/ PageTimer \/ ResetPage \/ TurnLeft \/ TurnRight
  \/ \E c \in Category : ClickTab(c)
  \/ \E t \in Texts : TypeOnPage(t)

BoxAction ==
  \/ BoxLoads \/ BoxTimer \/ Escape
  \/ \E c \in Category \cup {None} : Select(c)
  \/ \E t \in Texts : TypeInBox(t)
  \/ \E reset \in BOOLEAN : LeaveBox(reset)

LEMMA NextIs ==
  ASSUME Next
  PROVE  Reload \/ PageAction \/ BoxAction \/ \E c \in Category : IndexLoads(c) \/ IndexFails(c)
BY DEF Next, PageAction, BoxAction

(* What the search page leaves alone, and what the box does. *)
LEMMA PageFrame ==
  ASSUME TypeInv, PageAction
  PROVE  /\ page = "search" /\ page' = page /\ loading' = loading /\ box' = box
         /\ loaded \cup failed = Category /\ phase' \in {"ready", "left"}
<1>1. CASE PageLoads
  <2>1. phase' = "ready" \/ PageSearch(url.q, url.c, url.c # None, url.r)
    BY <1>1 DEF PageLoads
  <2>2. phase' \in {"ready", "left"}
    BY <2>1, RedirectIsAsked
  <2> QED
    BY <1>1, <2>2 DEF PageLoads, loading, box
<1>2. CASE PageTimer
  <2>1. PageSearch(text, activeTab, fixedTab, feelingLucky) /\ phase = "ready"
    BY <1>2 DEF PageTimer, Searching
  <2>2. phase' \in {"ready", "left"}
    BY <2>1, RedirectIsAsked
  <2> QED
    BY <1>2, <2>1, <2>2 DEF PageTimer, Searching, loading, box, TypeInv, Life, AllAnswered
<1>3. CASE ~PageLoads /\ ~PageTimer
  BY <1>3 DEF PageAction, ResetPage, TurnLeft, TurnRight, Turn, ClickTab, ShowTab, TypeOnPage,
              Searching, loading, box, TypeInv, Life, AllAnswered
<1> QED
  BY <1>1, <1>2, <1>3

LEMMA BoxFrame ==
  ASSUME TypeInv, BoxAction
  PROVE  /\ page = "doc" /\ page' = page /\ loading' = loading /\ searchPage' = searchPage
         /\ phase' \in {"ready", "left"}
BY DEF BoxAction, BoxLoads, BoxTimer, Escape, Select, TypeInBox, LeaveBox, Using

LEMMA LifeKept == ASSUME TypeInv, Next PROVE TypeInv'
<1> USE DEF TypeInv
<1>t. None \notin Texts /\ Empty \in Texts
  BY TermsAssumption DEF Texts, None, Empty, Blank
<1>h. Closed.open = FALSE
  BY DEF Closed
<1>1. CASE Reload
  BY <1>1, <1>h, ReloadTyped
     DEF Reload, Life, RerunHasTerm, BoxHasTerm, Fresh, AllAnswered, BoxIsElsewhere, Idle
<1>2. CASE PageAction
  <2>1. TypeOK' /\ RerunHasTerm'
    BY <1>2, PageActionsTyped DEF PageAction
  <2>2. /\ page = "search" /\ page' = page /\ loaded' = loaded /\ failed' = failed
        /\ menu' = menu /\ boxTerm' = boxTerm
        /\ loaded \cup failed = Category /\ phase' \in {"ready", "left"}
    BY <1>2, PageFrame DEF loading, box
  <2> QED
    BY <2>1, <2>2 DEF Life, BoxHasTerm, Fresh, AllAnswered, BoxIsElsewhere
<1>3. CASE BoxAction
  <2>1. TypeOK' /\ RerunHasTerm'
    BY <1>3, BoxActionsTyped DEF BoxAction
  <2>2. page = "doc" /\ page' = page /\ phase' \in {"ready", "left"}
    BY <1>3, BoxFrame
  <2>3. BoxHasTerm'
    <3>1. CASE BoxTimer /\ ~(boxTerm = text /\ menu.open)
      <4>1. boxTerm' = text /\ text \in Texts
        BY <3>1 DEF BoxTimer, TypeOK
      <4> QED
        BY <1>t, <4>1 DEF BoxHasTerm
    <3>2. CASE \E c \in Category \cup {None} : Select(c)
      BY <1>t, <3>2 DEF Select, BoxHasTerm
    <3>3. CASE ~BoxTimer /\ ~(\E c \in Category \cup {None} : Select(c))
      BY <1>3, <1>h, <3>3
         DEF BoxAction, BoxLoads, Escape, TypeInBox, LeaveBox, BoxHasTerm, Life, box, searchPage
    <3>4. CASE BoxTimer /\ boxTerm = text /\ menu.open
      BY <3>4 DEF BoxTimer, BoxHasTerm, Life, box
    <3> QED
      BY <3>1, <3>2, <3>3, <3>4
  <2> QED
    BY <2>1, <2>2, <2>3 DEF Life, Fresh, AllAnswered, BoxIsElsewhere
<1>4. CASE \E c \in Category : IndexLoads(c) \/ IndexFails(c)
  <2>0. PICK c \in Category : IndexLoads(c) \/ IndexFails(c)
    BY <1>4
  <2>1. TypeOK' /\ RerunHasTerm'
    BY <2>0, IndexTyped
  <2>2. /\ page' = page /\ phase' = phase /\ boxTerm' = boxTerm /\ text' = text /\ timer' = timer
        /\ feelingLucky' = feelingLucky /\ view' = view /\ activeTab' = activeTab
        /\ notify' = notify /\ c \notin loaded \cup failed
    BY <2>0 DEF IndexLoads, IndexFails, searchPage, box
  <2>3. rerun = Idle => rerun' = rerun /\ menu' = menu
    BY <2>0 DEF IndexLoads, IndexFails, box
  <2>4. page = "search" => rerun = Idle /\ phase = "loading"
    BY <2>2 DEF Life, AllAnswered, Fresh
  <2>5. boxTerm = None => rerun = Idle
    BY <2>4 DEF Life, BoxHasTerm, TypeOK
  <2> QED
    BY <2>1, <2>2, <2>3, <2>4, <2>5 DEF Life, BoxHasTerm, Fresh, AllAnswered, BoxIsElsewhere
<1> QED
  BY <1>1, <1>2, <1>3, <1>4, NextIs

LEMMA LifeStarts == ASSUME Init PROVE TypeInv
<1>1. Closed.open = FALSE
  BY DEF Closed
<1> QED
  BY <1>1, InitTyped
     DEF Init, TypeInv, Life, RerunHasTerm, BoxHasTerm, Fresh, AllAnswered, BoxIsElsewhere

LEMMA LifeStutters == ASSUME TypeInv, UNCHANGED vars PROVE TypeInv'
BY DEF vars, loading, searchPage, box, TypeInv, TypeOK, Life, RerunHasTerm, BoxHasTerm, Fresh,
       AllAnswered, BoxIsElsewhere

LEMMA LifeHolds == Spec => []TypeInv
<1>1. Init => TypeInv
  BY LifeStarts
<1>2. TypeInv /\ [Next]_vars => TypeInv'
  BY LifeKept, LifeStutters
<1> QED
  BY <1>1, <1>2, PTL DEF Spec

(* Every variable keeps its type; in particular renderResults always ends    *)
(* with a tab that exists, and every answer a menu keeps has one entry per   *)
(* category.                                                                 *)
THEOREM TypesHold == Spec => []TypeOK
<1>1. TypeInv => TypeOK
  BY DEF TypeInv
<1> QED
  BY <1>1, LifeHolds, PTL

---------------------------------------------------------------------------
(* The search page *)

Answer(t) == Results(t, loaded, 1200)

(* A delayed search does not redirect. *)
TypedIsNotLucky == page = "search" /\ phase = "ready" /\ timer => ~feelingLucky

(* The page of a blank field shows nothing, and has no tab to click. *)
BlankShowsNothing == Settled /\ Trim(text) = Empty => view = Hidden(Empty)

(* The tabs are those of the answer that is shown. *)
TabsShowAnswer ==
  page = "search" /\ view.buttons # {} =>
    /\ view.term \in Terms /\ view.buttons = Hit(Answer(view.term))
    /\ activeTab \in view.buttons
    /\ failed = {} => view.marked = activeTab /\ view.tables = {activeTab}

(* A tab that does not exist shows nothing. *)
StrayShowsNothing == page = "search" /\ activeTab = Stray => ~view.open

PageInv ==
  /\ StrayShowsNothing
  /\ TypedIsNotLucky /\ BlankShowsNothing /\ TabsShowAnswer
  /\ PageFollowsText /\ AddressReopensTab /\ RedirectIsNoTrap

LEMMA HiddenIs ==
  ASSUME NEW t, NEW open
  PROVE  LET v == [Hidden(t) EXCEPT !.open = open] IN v.term = t /\ v.buttons = {} /\ v.open = open
BY DEF Hidden

(* What doPageSearch shows: the answer to its term, on the tab it picked. *)
LEMMA SearchShows ==
  ASSUME TypeInv, NEW t \in Texts, NEW tab \in Tabs, NEW fix \in BOOLEAN,
         NEW lucky \in BOOLEAN, PageSearch(t, tab, fix, lucky)
  PROVE  /\ view'.term = Trim(t)
         /\ Trim(t) = Empty => view' = Hidden(Empty)
         /\ phase' = "ready" /\ Trim(t) # Empty /\ tab # Stray
              => activeTab' = TabFor(Answer(Trim(t)), Trim(t), tab, fix)
         /\ activeTab' = Stray => tab = Stray /\ view'.open = view.open
         /\ tab = Stray /\ Trim(t) # Empty => view'.open = view.open
         /\ view'.buttons # {} =>
              /\ Trim(t) \in Terms /\ view'.buttons = Hit(Answer(Trim(t)))
              /\ activeTab' \in view'.buttons
              /\ loaded = Category => view'.marked = activeTab' /\ view'.tables = {activeTab'}
<1>1. CASE Trim(t) = Empty
  <2>1. view' = Hidden(Empty) /\ activeTab' = None
    BY <1>1 DEF PageSearch
  <2>2. None # Stray
    BY DEF None, Stray
  <2> QED
    BY <1>1, <2>1, <2>2 DEF Hidden
<1>2. CASE Trim(t) # Empty
  <2> DEFINE r == Answer(Trim(t))
             first == FirstTab(r, tab, fix)
             final == MemberTab(r, Trim(t), first)
  <2>1. Trim(t) \in Terms
    BY <1>2, TrimIs
  <2>2. Render(Trim(t), r, tab, fix, lucky)
    BY <1>2 DEF PageSearch, Answer
  <2>3. final = TabFor(r, Trim(t), tab, fix)
    BY DEF TabFor
  <2>r. tab # Stray => first # Stray /\ final # Stray
    <3>1. r \in [Category -> Entry]
      BY <2>1, AnswerTyped DEF Answer
    <3>2. tab # Stray => first \in RealTabs /\ final \in RealTabs
      BY <2>3, <3>1, TabIsTab DEF Tabs
    <3>3. Stray \notin RealTabs
      BY FiveCategories DEF RealTabs, None, Stray
    <3> QED
      BY <3>2, <3>3
  <2>7. CASE tab = Stray
    <3>1. view' = [Hidden(Trim(t)) EXCEPT !.open = view.open]
      BY <2>2, <2>7 DEF Render, RenderStray
    <3> QED
      BY <1>2, <2>7, <3>1, HiddenIs
  <2>4. CASE tab # Stray /\ lucky /\ first # None
    <3>1. phase' = "left" /\ view' = [Hidden(Trim(t)) EXCEPT !.open = view.open]
          /\ activeTab' = first
      BY <2>2, <2>4 DEF Render
    <3> QED
      BY <1>2, <2>4, <2>r, <3>1, HiddenIs
  <2>5. CASE tab # Stray /\ ~(lucky /\ first # None) /\ Wide(r)
    <3>1. activeTab' = final /\ DrawTabs(Trim(t), r, final)
      BY <2>2, <2>5 DEF Render
    <3>2. view'.term = Trim(t) /\ view'.buttons = Hit(r) /\ view'.marked = final
          /\ view'.tables = IF r[final].ready THEN {final} ELSE {}
      BY <3>1 DEF DrawTabs
    <3>3. r \in [Category -> Entry] /\ Scored(r) # {} /\ Scored(r) \subseteq Hit(r)
      BY <2>1, <2>5, AnswerHits, AnswerTyped DEF Wide, Answer
    <3>4. final \in Hit(r)
      BY <2>3, <2>5, <3>3, TabHasEntries DEF Tabs
    <3>5. loaded = Category => r[final].ready
      BY <2>1, <3>4, AnswerScored DEF Hit, Answer
    <3> HIDE DEF r, final
    <3> QED
      BY <1>2, <2>1, <2>3, <2>5, <2>r, <3>1, <3>2, <3>4, <3>5 DEF r
  <2>6. CASE tab # Stray /\ ~(lucky /\ first # None) /\ ~Wide(r)
    <3>1. activeTab' = final /\ DrawAll(Trim(t), r)
      BY <2>2, <2>6 DEF Render
    <3>2. view'.term = Trim(t) /\ view'.buttons = {}
      BY <3>1 DEF DrawAll
    <3> HIDE DEF r, final
    <3> QED
      BY <1>2, <2>3, <2>6, <2>r, <3>1, <3>2 DEF r
  <2> QED
    BY <2>4, <2>5, <2>6, <2>7
<1> QED
  BY <1>1, <1>2

(* The address that doPageSearch writes leads to the same tab again: the     *)
(* tab is in it only if it was fixed, and without it the leading tab does    *)
(* not depend on the one before.                                             *)
LEMMA SearchReopens ==
  ASSUME NEW t \in Texts, Whole(Trim(t)), NEW tab \in RealTabs, NEW fix \in BOOLEAN,
         NEW idx, idx = Category, Total(Results(Trim(t), idx, 1200)) > 0
  PROVE  LET a == AddressOf(t, tab, fix)
             r == Results(Trim(t), idx, 1200)
         IN TabFor(r, a.q, a.c, a.c # None) = TabFor(r, Trim(t), tab, fix)
<1> DEFINE a == AddressOf(t, tab, fix)
           r == Results(Trim(t), idx, 1200)
<1>1. a.q = Trim(t) /\ a.c = IF tab # None /\ fix THEN tab ELSE None
  BY WholeAddress
<1>2. r \in [Category -> Entry] /\ Scored(r) # {}
  BY AnswerTyped, AnswerHits DEF Whole
<1> HIDE DEF a, r
<1>3. FirstTab(r, a.c, a.c # None) = FirstTab(r, tab, fix)
  <2>1. CASE tab # None /\ fix
    <3>1. a.c = tab
      BY <1>1, <2>1
    <3> QED
      BY <2>1, <3>1 DEF FirstTab
  <2>2. CASE ~(tab # None /\ fix)
    <3>1. a.c = None
      BY <1>1, <2>2
    <3>2. Leading(r, None) = Leading(r, tab)
      BY <1>2, LeadingIs
    <3>3. FirstTab(r, tab, fix) = Leading(r, tab)
      BY <2>2 DEF FirstTab
    <3>4. FirstTab(r, None, a.c # None) = Leading(r, None)
      BY DEF FirstTab
    <3> QED
      BY <3>1, <3>2, <3>3, <3>4
  <2> QED
    BY <2>1, <2>2
<1>4. TabFor(r, a.q, a.c, a.c # None) = MemberTab(r, Trim(t), FirstTab(r, tab, fix))
  BY <1>1, <1>3, ZenonT(40) DEF TabFor
<1>5. TabFor(r, Trim(t), tab, fix) = MemberTab(r, Trim(t), FirstTab(r, tab, fix))
  BY Zenon DEF TabFor
<1> QED
  BY <1>4, <1>5 DEF a, r

LEMMA PageStarts == ASSUME Init PROVE PageInv
<1>1. Hidden(Empty).buttons = {} /\ Hidden(Empty).open = FALSE
  BY DEF Hidden
<1> QED
  BY <1>1 DEF Init, PageInv, TypedIsNotLucky, StrayShowsNothing, BlankShowsNothing, TabsShowAnswer, PageFollowsText,
              AddressReopensTab, RedirectIsNoTrap, Settled, Searching

(* A search that the page runs, when the page opens or the timer fires.  The *)
(* indexes are all there unless one has failed.                              *)
LEMMA SearchKeepsPage ==
  ASSUME TypeInv, NEW t \in Texts, NEW tab \in Tabs, NEW fix \in BOOLEAN, NEW lucky \in BOOLEAN,
         PageSearch(t, tab, fix, lucky), page = "search", page' = page, text' = t,
         timer' = FALSE, loaded' = loaded, failed' = failed, loaded \cup failed = Category,
         tab = Stray => ~view.open
  PROVE  PageInv'
<1>1. /\ url' = AddressOf(t, tab, fix) /\ url'.q = AddressOf(t, None, FALSE).q
      /\ url'.r => ReadBack[Trim(t)].r
  <2>1. url' = AddressOf(t, tab, fix)
    BY DEF PageSearch
  <2> QED
    BY <2>1, AddressReads
<1>2. failed = {} => loaded = Category
  OBVIOUS
<1>3. PageFollowsText'
  <2>1. Hidden(Empty).open = FALSE /\ Hidden(Empty).tables = {}
    BY DEF Hidden
  <2> QED
    BY <1>1, <2>1, SearchShows DEF PageFollowsText
<1>4. BlankShowsNothing'
  BY SearchShows DEF BlankShowsNothing
<1>5. TabsShowAnswer'
  BY <1>2, SearchShows DEF TabsShowAnswer, Answer
<1>6. AddressReopensTab'
  <2> DEFINE r == Results(Trim(t), loaded, 1200)
  <2>1. SUFFICES ASSUME Settled', view'.open, failed = {}, Whole(Trim(t)), Total(r) > 0
                 PROVE  url'.q = Trim(t) /\ TabFor(r, Trim(t), url'.c, url'.c # None) = activeTab'
    BY DEF AddressReopensTab
  <2>2. phase' = "ready"
    BY <2>1 DEF Settled, Searching
  <2>3. Trim(t) # Empty
    BY <2>1, TermsAssumption DEF Whole
  <2>4. tab \in RealTabs
    BY <2>1, <2>3, SearchShows DEF Tabs
  <2>5. tab # Stray
    BY <2>1, <2>3, SearchShows
  <2>6. activeTab' = TabFor(r, Trim(t), tab, fix)
    BY <2>2, <2>3, <2>5, SearchShows DEF Answer
  <2>7. url'.q = Trim(t)
    BY <1>1, <2>1, WholeAddress
  <2>8. LET a == AddressOf(t, tab, fix)
        IN TabFor(r, a.q, a.c, a.c # None) = TabFor(r, Trim(t), tab, fix)
    BY <1>2, <2>1, <2>4, SearchReopens
  <2> HIDE DEF r
  <2> QED
    BY <1>1, <2>6, <2>7, <2>8
<1>7. StrayShowsNothing'
  BY SearchShows DEF StrayShowsNothing
<1> QED
  BY <1>1, <1>3, <1>4, <1>5, <1>6, <1>7 DEF PageInv, TypedIsNotLucky, RedirectIsNoTrap

(* A tab that is clicked or turned to. *)
LEMMA ShowTabKeepsPage ==
  ASSUME TypeInv, PageInv, Searching, NEW c \in view.buttons, ShowTab(c)
  PROVE  PageInv'
<1>1. /\ activeTab' = c /\ url' = AddressOf(text, c, TRUE) /\ page' = page /\ phase' = phase
      /\ loaded' = loaded /\ failed' = failed /\ text' = text /\ timer' = timer
      /\ feelingLucky' = feelingLucky
      /\ view' = [view EXCEPT !.tables = IF c \in loaded THEN {c} ELSE {},
                             !.marked = IF c \in loaded THEN c ELSE @]
  BY DEF ShowTab, loading
<1>2. view \in View /\ c \in Category /\ text \in Texts
  BY DEF TypeInv, TypeOK, View
<1>3. /\ view'.term = view.term /\ view'.buttons = view.buttons
      /\ c \in loaded => view'.tables = {c} /\ view'.marked = c
  BY <1>1, <1>2 DEF View
<1>4. /\ url'.q = AddressOf(text, None, FALSE).q
      /\ Whole(Trim(text)) => url'.q = Trim(text) /\ url'.c = c
  BY <1>1, <1>2, AddressReads, WholeAddress
<1>5. page = "search" /\ phase = "ready" /\ loaded \cup failed = Category
  BY DEF Searching, TypeInv, Life, AllAnswered
<1>6. Settled => Trim(text) # Empty
  BY DEF PageInv, BlankShowsNothing, Hidden
<1>7. Settled' <=> Settled
  BY <1>1 DEF Settled, Searching
<1>8. PageFollowsText' /\ BlankShowsNothing'
  BY <1>1, <1>3, <1>4, <1>6, <1>7 DEF PageInv, PageFollowsText, BlankShowsNothing
<1>9. TabsShowAnswer'
  <2>1. failed = {} => c \in loaded
    BY <1>2, <1>5
  <2> QED
    BY <1>1, <1>3, <1>5, <2>1 DEF PageInv, TabsShowAnswer, Answer
<1>10. AddressReopensTab'
  <2> DEFINE r == Results(Trim(text), loaded, 1200)
  <2>0. SUFFICES ASSUME Settled', Whole(Trim(text')), url'.c = None \/ Trim(text') \notin Dotted
                 PROVE  /\ url'.q = Trim(text')
                        /\ TabFor(Results(Trim(text'), loaded', 1200), Trim(text'), url'.c,
                                  url'.c # None) = activeTab'
    BY ZenonT(40) DEF AddressReopensTab
  <2>1. /\ text' = text /\ loaded' = loaded /\ activeTab' = c /\ Settled
        /\ Whole(Trim(text)) /\ (url'.c = None \/ Trim(text) \notin Dotted)
    BY <1>1, <1>7, <2>0
  <2>2. url'.q = Trim(text) /\ url'.c = c /\ c # None /\ Trim(text) \notin Dotted
    BY <1>2, <1>4, <2>1, FiveCategories
  <2>3. c \in Hit(r)
    BY <1>5, <2>1 DEF PageInv, PageFollowsText, TabsShowAnswer, Answer
  <2> HIDE DEF r
  <2>4. FirstTab(r, url'.c, url'.c # None) = c
    BY <2>2, <2>3 DEF FirstTab, Hit
  <2>5. TabFor(r, Trim(text), url'.c, url'.c # None) = MemberTab(r, Trim(text), c)
    BY <2>4, Zenon DEF TabFor
  <2>6. MemberTab(r, Trim(text), c) = c
    BY <2>2 DEF MemberTab
  <2>7. TabFor(r, Trim(text), url'.c, url'.c # None) = c
    BY <2>5, <2>6
  <2> QED
    BY <2>1, <2>2, <2>7 DEF r
<1>11. StrayShowsNothing'
  BY <1>1, <1>2, FiveCategories DEF StrayShowsNothing, Stray
<1> QED
  BY <1>1, <1>5, <1>8, <1>9, <1>10, <1>11 DEF PageInv, TypedIsNotLucky, RedirectIsNoTrap

LEMMA PageActionKeepsPage == ASSUME TypeInv, PageInv, PageAction PROVE PageInv'
<1>f. /\ page = "search" /\ page' = page /\ loaded' = loaded /\ failed' = failed
      /\ loaded \cup failed = Category
  BY PageFrame DEF loading
<1>1. CASE PageLoads
  <2>1. CASE url.q # Empty
    <3>1. /\ PageSearch(url.q, url.c, url.c # None, url.r) /\ text' = url.q /\ timer' = FALSE
          /\ url.q \in Texts /\ url.c \in Tabs /\ url.r \in BOOLEAN
      BY <1>1, <2>1 DEF PageLoads, TypeInv, TypeOK, Address, Texts, Life, Fresh
    <3>2. (url.c # None) \in BOOLEAN
      OBVIOUS
    <3>3. ~view.open
      BY <1>1 DEF PageLoads, TypeInv, Life, Fresh, Hidden
    <3> QED
      BY <1>f, <3>1, <3>2, <3>3, SearchKeepsPage
  <2>2. CASE url.q = Empty
    <3>1. /\ url' = url /\ view' = Hidden(Empty) /\ text' = Empty /\ timer' = FALSE
          /\ phase' = "ready"
      BY <1>1, <2>2 DEF PageLoads, TypeInv, Life, Fresh
    <3>2. Trim(Empty) = Empty
      BY DEF Trim
    <3>4. AddressOf(Empty, None, FALSE).q = Empty
      BY <3>2 DEF AddressOf, NoQuery
    <3>3. Hidden(Empty) = [open |-> FALSE, term |-> Empty, tables |-> {}, marked |-> None,
                           buttons |-> {}]
      BY DEF Hidden
    <3>5. view'.open = FALSE /\ view'.buttons = {} /\ view'.term = Empty /\ view'.tables = {}
      BY <3>1, <3>3
    <3>6. TypedIsNotLucky' /\ RedirectIsNoTrap' /\ StrayShowsNothing' /\ AddressReopensTab'
      BY <3>1, <3>5
         DEF TypedIsNotLucky, RedirectIsNoTrap, StrayShowsNothing, AddressReopensTab
    <3>7. BlankShowsNothing' /\ TabsShowAnswer' /\ PageFollowsText'
      BY <2>2, <3>1, <3>2, <3>4, <3>5 DEF BlankShowsNothing, TabsShowAnswer, PageFollowsText
    <3> QED
      BY <3>6, <3>7 DEF PageInv
  <2> QED
    BY <2>1, <2>2
<1>2. CASE PageTimer
  <2>1. /\ PageSearch(text, activeTab, fixedTab, feelingLucky) /\ text' = text /\ timer' = FALSE
    BY <1>2 DEF PageTimer
  <2>2. text \in Texts /\ activeTab \in Tabs /\ fixedTab \in BOOLEAN /\ feelingLucky \in BOOLEAN
    BY DEF TypeInv, TypeOK
  <2>3. activeTab = Stray => ~view.open
    BY <1>f DEF PageInv, StrayShowsNothing
  <2> QED
    BY <1>f, <2>1, <2>2, <2>3, SearchKeepsPage
<1>3. CASE ResetPage
  <2>1. /\ url' = AddressOf(Empty, None, FALSE) /\ view' = Hidden(Empty) /\ text' = Empty
        /\ phase' = "ready" /\ phase = "ready" /\ timer' = timer /\ feelingLucky' = feelingLucky
    BY <1>3 DEF ResetPage, Searching
  <2>2. Trim(Empty) = Empty
    BY DEF Trim
  <2>3. url'.q = AddressOf(Empty, None, FALSE).q
    BY <2>1
  <2>4. view'.open = FALSE /\ view'.term = Empty /\ view'.tables = {} /\ view'.buttons = {}
    BY <2>1 DEF Hidden
  <2>5. TypedIsNotLucky' /\ RedirectIsNoTrap'
    BY <1>f, <2>1 DEF PageInv, TypedIsNotLucky, RedirectIsNoTrap
  <2>6. PageFollowsText' /\ TabsShowAnswer'
    BY <2>1, <2>2, <2>3, <2>4 DEF PageFollowsText, TabsShowAnswer
  <2>7. BlankShowsNothing'
    BY <2>1 DEF BlankShowsNothing
  <2>8. AddressReopensTab'
    BY <2>1, <2>4 DEF AddressReopensTab
  <2>9. StrayShowsNothing'
    BY <2>4 DEF StrayShowsNothing
  <2> QED
    BY <2>5, <2>6, <2>7, <2>8, <2>9 DEF PageInv
<1>4. CASE TurnLeft \/ TurnRight
  <2>1. Searching /\ \E c \in view.buttons : ShowTab(c)
    BY <1>4 DEF TurnLeft, TurnRight, Turn
  <2> QED
    BY <2>1, ShowTabKeepsPage
<1>5. CASE \E c \in Category : ClickTab(c)
  BY <1>5, ShowTabKeepsPage DEF ClickTab
<1>6. CASE \E t \in Texts : TypeOnPage(t)
  BY <1>6, <1>f
     DEF TypeOnPage, loading, Searching, Settled, PageInv, TypedIsNotLucky, StrayShowsNothing, BlankShowsNothing,
         TabsShowAnswer, PageFollowsText, AddressReopensTab, RedirectIsNoTrap, Answer
<1> QED
  BY <1>1, <1>2, <1>3, <1>4, <1>5, <1>6 DEF PageAction

LEMMA PageKept == ASSUME TypeInv, PageInv, Next PROVE PageInv'
<1>1. CASE Reload
  <2>1. phase' = "loading" /\ view' = Hidden(Empty)
    BY <1>1 DEF Reload
  <2>2. view'.buttons = {} /\ view'.open = FALSE
    BY <2>1 DEF Hidden
  <2> QED
    BY <2>1, <2>2
       DEF PageInv, TypedIsNotLucky, StrayShowsNothing, BlankShowsNothing, TabsShowAnswer, PageFollowsText,
           AddressReopensTab, RedirectIsNoTrap, Settled, Searching
<1>2. CASE PageAction
  BY <1>2, PageActionKeepsPage
<1>3. CASE BoxAction
  <2>1. page' = "doc"
    BY <1>3, BoxFrame
  <2> QED
    BY <2>1
       DEF PageInv, TypedIsNotLucky, StrayShowsNothing, BlankShowsNothing, TabsShowAnswer, PageFollowsText,
           AddressReopensTab, RedirectIsNoTrap, Settled, Searching
<1>4. CASE \E c \in Category : IndexLoads(c) \/ IndexFails(c)
  <2>1. /\ page' = page /\ phase' = phase /\ view' = view
        /\ activeTab' = activeTab /\ \E c \in Category : c \notin loaded \cup failed
    BY <1>4 DEF IndexLoads, IndexFails, searchPage
  <2>2. page = "search" => phase = "loading" /\ view = Hidden(Empty)
    BY <2>1 DEF TypeInv, Life, AllAnswered, Fresh
  <2>3. Hidden(Empty).buttons = {} /\ Hidden(Empty).open = FALSE
    BY DEF Hidden
  <2>4. page' = "search" => phase' = "loading" /\ view'.buttons = {} /\ view'.open = FALSE
    BY <2>1, <2>2, <2>3
  <2> QED
    BY <2>4, ZenonT(40)
       DEF PageInv, TypedIsNotLucky, StrayShowsNothing, BlankShowsNothing, TabsShowAnswer, PageFollowsText,
           AddressReopensTab, RedirectIsNoTrap, Settled, Searching
<1> QED
  BY <1>1, <1>2, <1>3, <1>4, NextIs

LEMMA PageHolds == Spec => [](TypeInv /\ PageInv)
<1>1. Init => PageInv
  BY PageStarts
<1>2. TypeInv /\ PageInv /\ [Next]_vars => PageInv'
  <2>1. TypeInv /\ PageInv /\ Next => PageInv'
    BY PageKept
  <2>2. ASSUME PageInv, UNCHANGED vars PROVE PageInv'
    <3>1. /\ page' = page /\ phase' = phase /\ loaded' = loaded /\ failed' = failed
          /\ text' = text /\ timer' = timer /\ url' = url /\ activeTab' = activeTab
          /\ feelingLucky' = feelingLucky /\ view' = view
      BY <2>2 DEF vars, loading, searchPage
    <3>2. TypedIsNotLucky' /\ StrayShowsNothing' /\ RedirectIsNoTrap' /\ TabsShowAnswer'
      BY <2>2, <3>1 DEF PageInv, TypedIsNotLucky, StrayShowsNothing, RedirectIsNoTrap,
                        TabsShowAnswer, Answer
    <3>3. BlankShowsNothing' /\ PageFollowsText'
      BY <2>2, <3>1 DEF PageInv, BlankShowsNothing, PageFollowsText, Settled, Searching
    <3>4. AddressReopensTab'
      <4>1. Settled' <=> Settled
        BY <3>1 DEF Settled, Searching
      <4>2. AddressReopensTab
        BY <2>2 DEF PageInv
      <4> QED
        BY <3>1, <4>1, <4>2 DEF AddressReopensTab
    <3> QED
      BY <3>2, <3>3, <3>4 DEF PageInv
  <2> QED
    BY <2>1, <2>2
<1> QED
  BY <1>1, <1>2, LifeHolds, PTL DEF Spec

(* Once no delayed search is pending, the result section is that of the      *)
(* field, and the address reads back as the one written for the field, in    *)
(* whatever order keystrokes, tab clicks, resets and the timer come          *)
(* (doPageSearch, renderResult, reset.click).                                *)
THEOREM PageIsCurrent == Spec => []PageFollowsText
<1>1. PageInv => PageFollowsText
  BY DEF PageInv
<1> QED
  BY <1>1, PageHolds, PTL

(* The address of a settled page leads back to its search and to the tab     *)
(* that is active, for any answers of the indexes and any term that survives *)
(* encodeURI and URLSearchParams (setSearchUrl, renderResults).              *)
THEOREM AddressIsStable == Spec => []AddressReopensTab
<1>1. PageInv => AddressReopensTab
  BY DEF PageInv
<1> QED
  BY <1>1, PageHolds, PTL

(* Where there are tabs, the marked button, the only table and activeTab are *)
(* one category, which has results (renderResults, renderResult).            *)
THEOREM OneTabIsEnough == Spec => []OneTabIsShown
<1>1. PageInv => OneTabIsShown
  BY DEF PageInv, TabsShowAnswer, OneTabIsShown, Searching
<1> QED
  BY <1>1, PageHolds, PTL

(* A page that redirected does not redirect again when it is returned to,    *)
(* unless its term spells the flag (setSearchUrl never writes it back).      *)
THEOREM RedirectIsLeft == Spec => []RedirectIsNoTrap
<1>1. PageInv => RedirectIsNoTrap
  BY DEF PageInv
<1> QED
  BY <1>1, PageHolds, PTL

(* Only the search the address asked for takes the reader away, never one    *)
(* that was typed (the "input" handler clears the flag).                     *)
THEOREM TypingStays == Spec => TypingNeverRedirects
<1>1. ASSUME TypeInv, PageInv, [Next]_vars, page = "search", phase' = "left", vars' # vars
      PROVE  phase = "loading"
  <2>1. CASE Reload
    BY <1>1, <2>1 DEF Reload
  <2>2. CASE PageAction
    <3>1. CASE PageTimer
      <4>1. /\ PageSearch(text, activeTab, fixedTab, feelingLucky)
            /\ page = "search" /\ phase = "ready" /\ timer
        BY <3>1 DEF PageTimer, Searching
      <4>2. feelingLucky
        BY <1>1, <4>1, RedirectIsAsked
      <4> QED
        BY <1>1, <4>1, <4>2 DEF PageInv, TypedIsNotLucky
    <3>2. CASE PageLoads
      BY <3>2 DEF PageLoads
    <3>3. CASE ~PageTimer /\ ~PageLoads
      <4>1. phase = "ready" /\ phase' \in {phase, "ready"}
        BY <2>2, <3>3 DEF PageAction, ResetPage, TurnLeft, TurnRight, Turn, ClickTab, ShowTab,
                          TypeOnPage, Searching
      <4> QED
        BY <1>1, <4>1
    <3> QED
      BY <3>1, <3>2, <3>3
  <2>3. CASE BoxAction
    BY <1>1, <2>3, BoxFrame
  <2>4. CASE \E c \in Category : IndexLoads(c) \/ IndexFails(c)
    <3>1. phase' = phase /\ \E c \in Category : c \notin loaded \cup failed
      BY <2>4 DEF IndexLoads, IndexFails
    <3> QED
      BY <1>1, <3>1 DEF TypeInv, Life, AllAnswered
  <2> QED
    BY <1>1, <2>1, <2>2, <2>3, <2>4, NextIs
<1>2. TypeInv /\ PageInv /\ [Next]_vars
        => [page = "search" /\ phase' = "left" => phase = "loading"]_vars
  BY <1>1
<1> QED
  BY <1>2, PageHolds, PTL DEF Spec, TypingNeverRedirects

---------------------------------------------------------------------------
(* The box in the header, and what is said of an empty answer *)

(* An open menu is the answer, from the indexes that are there, to the term  *)
(* the box last searched; that search is to be run again until all are.      *)
MenuInv ==
  menu.open => /\ menu.term \in Terms /\ menu.term = Trim(boxTerm)
               /\ menu.r = Results(menu.term, loaded, 300)
               /\ timer \/ text = boxTerm
               /\ rerun = Again(menu.term, loaded, TRUE)

(* A re-run opens no menu but the one that is open already. *)
RerunInv ==
  page = "doc" /\ rerun # Idle /\ rerun.current /\ ~cancelSearch
    => menu.open /\ rerun.term = menu.term

NoneIsSure == notify = "none" => loaded = Category

BoxInv == MenuInv /\ RerunInv /\ NoneIsSure

LEMMA AgainIs ==
  ASSUME NEW t, NEW idx
  PROVE  /\ \A b : idx = Category => Again(t, idx, b) = Idle
         /\ idx # Category => /\ Again(t, idx, TRUE).term = t /\ Again(t, idx, TRUE).current
                             /\ Again(t, idx, TRUE) # Idle
                             /\ ~Again(t, idx, FALSE).current
         /\ ~Idle.current
BY DEF Again, Idle

LEMMA MenuForIs ==
  ASSUME NEW t, NEW idx
  PROVE  /\ MenuFor(t, idx).open /\ MenuFor(t, idx).term = t
         /\ MenuFor(t, idx).r = Results(t, idx, 300)
         /\ ~Closed.open
BY DEF MenuFor, Closed

LEMMA BoxStarts == ASSUME Init PROVE BoxInv
BY MenuForIs DEF Init, BoxInv, MenuInv, RerunInv, NoneIsSure

(* A search of the box, with a term of its own. *)
LEMMA DoSearchKeepsBox ==
  ASSUME TypeInv, BoxInv, DoSearch(text), boxTerm' = text, text' = text, loaded' = loaded,
         page' = page, page = "doc"
  PROVE  MenuInv' /\ RerunInv'
<1>t. text \in Texts
  BY DEF TypeInv, TypeOK
<1>1. CASE Trim(text) = Empty
  <2>1. cancelSearch' = TRUE /\ menu' = Closed
    BY <1>1 DEF DoSearch
  <2> QED
    BY <2>1, MenuForIs DEF MenuInv, RerunInv
<1>2. CASE Trim(text) # Empty
  <2>1. rerun' = Again(Trim(text), loaded, TRUE) /\ menu' = MenuFor(Trim(text), loaded)
    BY <1>2 DEF DoSearch
  <2>2. Trim(text) \in Terms
    BY <1>t, <1>2, TrimIs
  <2>3. MenuInv'
    BY <2>1, <2>2, MenuForIs, ZenonT(40) DEF MenuInv
  <2>4. RerunInv'
    <3>1. menu'.open /\ menu'.term = Trim(text)
      BY <2>1, MenuForIs
    <3>2. rerun' = Idle \/ rerun'.term = Trim(text)
      BY <2>1 DEF Again
    <3> QED
      BY <3>1, <3>2 DEF RerunInv
  <2> QED
    BY <2>3, <2>4
<1> QED
  BY <1>1, <1>2

LEMMA BoxActionKeepsMenu == ASSUME TypeInv, BoxInv, BoxAction PROVE MenuInv' /\ RerunInv'
<1>f. page = "doc" /\ page' = page /\ loaded' = loaded
  BY BoxFrame DEF loading
<1>1. CASE BoxLoads
  <2>1. ~menu.open /\ rerun = Idle
    BY <1>1, MenuForIs DEF BoxLoads, TypeInv, Life, Fresh
  <2>2. menu' = menu /\ rerun' = rerun
    BY <1>1 DEF BoxLoads, box
  <2> QED
    BY <2>1, <2>2 DEF MenuInv, RerunInv
<1>2. CASE BoxTimer
  <2>1. CASE boxTerm = text /\ menu.open
    <3>1. text' = text /\ boxTerm' = boxTerm /\ menu' = menu /\ rerun' = rerun
          /\ cancelSearch' = cancelSearch
      BY <1>2, <2>1 DEF BoxTimer, box
    <3> QED
      BY <1>f, <2>1, <3>1 DEF BoxInv, MenuInv, RerunInv
  <2>2. CASE ~(boxTerm = text /\ menu.open) /\ text = Empty
    <3>1. cancelSearch' = TRUE /\ menu' = Closed
      BY <1>2, <2>2 DEF BoxTimer
    <3> QED
      BY <3>1, MenuForIs DEF MenuInv, RerunInv
  <2>3. CASE ~(boxTerm = text /\ menu.open) /\ text # Empty
    <3>1. DoSearch(text) /\ boxTerm' = text /\ text' = text
      BY <1>2, <2>3 DEF BoxTimer
    <3> QED
      BY <1>f, <3>1, DoSearchKeepsBox
  <2> QED
    BY <2>1, <2>2, <2>3
<1>3. CASE Escape \/ (\E c \in Category \cup {None} : Select(c))
           \/ (\E reset \in BOOLEAN : LeaveBox(reset))
  <2>1. cancelSearch' = TRUE /\ menu' = Closed
    BY <1>3 DEF Escape, Select, LeaveBox
  <2> QED
    BY <2>1, MenuForIs DEF MenuInv, RerunInv
<1>4. CASE \E t \in Texts : TypeInBox(t)
  <2>1. timer' = TRUE /\ boxTerm' = boxTerm /\ menu' = menu /\ rerun' = rerun
        /\ cancelSearch' = cancelSearch
    BY <1>4 DEF TypeInBox, box
  <2> QED
    BY <1>f, <2>1 DEF BoxInv, MenuInv, RerunInv
<1> QED
  BY <1>1, <1>2, <1>3, <1>4 DEF BoxAction

(* A late index file: it replaces the answer in an open menu, and leaves a   *)
(* closed one closed.                                                        *)
LEMMA IndexKeepsMenu ==
  ASSUME TypeInv, BoxInv, NEW c \in Category, IndexLoads(c) PROVE MenuInv' /\ RerunInv'
<1>f. /\ page' = page /\ boxTerm' = boxTerm /\ text' = text /\ timer' = timer
      /\ cancelSearch' = cancelSearch /\ loaded # Category
  BY DEF IndexLoads
<1>1. menu.open => rerun # Idle /\ rerun.term = menu.term /\ rerun.current
  BY <1>f, AgainIs DEF BoxInv, MenuInv
<1>2. CASE rerun = Idle
  <2>1. menu' = menu /\ rerun' = rerun
    BY <1>2 DEF IndexLoads
  <2> QED
    BY <1>1, <1>2, <2>1 DEF MenuInv, RerunInv
<1>3. CASE rerun # Idle
  <2>1. rerun' = Again(rerun.term, loaded', rerun.current)
    BY <1>3 DEF IndexLoads
  <2>2. rerun.current \in BOOLEAN /\ rerun.term \in Terms
    BY <1>3 DEF TypeInv, TypeOK, Rerun, Life, RerunHasTerm
  <2>3. CASE ~rerun.current
    <3>1. menu' = menu
      BY <1>3, <2>3 DEF IndexLoads
    <3>2. rerun.current = FALSE
      BY <2>2, <2>3
    <3>3. rerun' = Again(rerun.term, loaded', FALSE)
      BY <2>1, <3>2, Zenon
    <3>4. ~rerun'.current
      BY <3>3, AgainIs
    <3> QED
      BY <1>1, <2>3, <3>1, <3>4 DEF MenuInv, RerunInv
  <2>4. CASE rerun.current /\ cancelSearch
    <3>1. menu' = Closed
      BY <1>3, <2>4 DEF IndexLoads
    <3> QED
      BY <1>f, <2>4, <3>1, MenuForIs DEF MenuInv, RerunInv
  <2>5. CASE rerun.current /\ ~cancelSearch
    <3>1. menu' = MenuFor(rerun.term, loaded')
      BY <1>3, <2>5 DEF IndexLoads
    <3>2. page = "doc"
      BY <1>3, <1>f DEF TypeInv, TypeOK, Life, AllAnswered, Fresh, IndexLoads
    <3>3. menu.open /\ rerun.term = menu.term /\ rerun.current = TRUE
      BY <1>3, <2>2, <2>5, <3>2 DEF BoxInv, RerunInv
    <3>4. rerun' = Again(rerun.term, loaded', TRUE)
      BY <2>1, <3>3, Zenon
    <3>5. /\ menu'.open /\ menu'.term = rerun.term
          /\ menu'.r = Results(rerun.term, loaded', 300)
      BY <3>1, MenuForIs
    <3>6. MenuInv'
      <4>1. menu.term = Trim(boxTerm) /\ (timer \/ text = boxTerm)
        BY <3>3 DEF BoxInv, MenuInv
      <4>2. rerun' = Again(menu'.term, loaded', TRUE)
        BY <3>4, <3>5, Zenon
      <4> QED
        BY <1>f, <2>2, <3>3, <3>5, <4>1, <4>2 DEF MenuInv
    <3>7. RerunInv'
      <4>1. rerun' = Idle \/ rerun'.term = rerun.term
        BY <3>4 DEF Again
      <4> QED
        BY <3>5, <4>1 DEF RerunInv
    <3> QED
      BY <3>6, <3>7
  <2> QED
    BY <2>2, <2>3, <2>4, <2>5
<1> QED
  BY <1>2, <1>3

(* A search that finds nothing is told so only when no index was missing. *)
LEMMA SearchIsSure ==
  ASSUME TypeInv, NEW t \in Texts, NEW tab, NEW fix, NEW lucky,
         PageSearch(t, tab, fix, lucky), notify' = "none"
  PROVE  loaded = Category
<1>1. Trim(t) # Empty
  BY DEF PageSearch
<1>2. Trim(t) \in Terms
  BY <1>1, TrimIs
<1> DEFINE r == Results(Trim(t), loaded, 1200)
<1>3. Render(Trim(t), r, tab, fix, lucky)
  BY <1>1 DEF PageSearch
<1>r. ASSUME NEW a, Render(Trim(t), a, tab, fix, lucky)
      PROVE  notify' = "redirecting" \/ notify' = Count(a)
  BY <1>r, Zenon DEF Render, RenderStray
<1>4. notify' = "redirecting" \/ notify' = Count(r)
  BY <1>3, <1>r
<1>5. Total(r) = 0
  BY <1>4 DEF Count
<1>6. Category \subseteq loaded
  BY <1>2, <1>5, AnswerHits
<1> QED
  BY <1>6 DEF TypeInv, TypeOK

LEMMA BoxKept == ASSUME TypeInv, BoxInv, Next PROVE BoxInv'
<1>1. CASE Reload
  BY <1>1, MenuForIs DEF Reload, BoxInv, MenuInv, RerunInv, NoneIsSure
<1>2. CASE PageAction
  <2>1. page = "search" /\ page' = page /\ loaded' = loaded /\ menu' = menu
    BY <1>2, PageFrame DEF loading, box
  <2>2. MenuInv' /\ RerunInv'
    BY <2>1, MenuForIs DEF MenuInv, RerunInv, TypeInv, Life, BoxIsElsewhere
  <2>3. NoneIsSure'
    <3>1. CASE PageLoads
      <4>1. notify' = "enter" \/ (url.q \in Texts /\ PageSearch(url.q, url.c, url.c # None, url.r))
        BY <3>1 DEF PageLoads, TypeInv, TypeOK, Address, Texts
      <4> QED
        BY <2>1, <4>1, SearchIsSure DEF NoneIsSure
    <3>2. CASE PageTimer
      <4>1. text \in Texts /\ PageSearch(text, activeTab, fixedTab, feelingLucky)
        BY <3>2 DEF PageTimer, TypeInv, TypeOK
      <4> QED
        BY <2>1, <4>1, SearchIsSure DEF NoneIsSure
    <3>3. CASE ~PageTimer /\ ~PageLoads
      <4>1. notify' = notify \/ notify' = "enter"
        BY <1>2, <3>3 DEF PageAction, ResetPage, TurnLeft, TurnRight, Turn, ClickTab, ShowTab,
                          TypeOnPage
      <4> QED
        BY <2>1, <4>1 DEF BoxInv, NoneIsSure
    <3> QED
      BY <3>1, <3>2, <3>3
  <2> QED
    BY <2>2, <2>3 DEF BoxInv
<1>3. CASE BoxAction
  <2>1. loaded' = loaded /\ notify' = notify
    BY <1>3, BoxFrame DEF loading, searchPage
  <2> QED
    BY <1>3, <2>1, BoxActionKeepsMenu DEF BoxInv, NoneIsSure
<1>4. ASSUME NEW c \in Category, IndexLoads(c) PROVE BoxInv'
  <2>1. notify' = notify /\ loaded # Category
    BY <1>4 DEF IndexLoads, searchPage
  <2> QED
    BY <1>4, <2>1, IndexKeepsMenu DEF BoxInv, NoneIsSure
<1>5. ASSUME NEW c \in Category, IndexFails(c) PROVE BoxInv'
  BY <1>5 DEF IndexFails, searchPage, box, BoxInv, MenuInv, RerunInv, NoneIsSure
<1> QED
  BY <1>1, <1>2, <1>3, <1>4, <1>5, NextIs

LEMMA BoxHolds == Spec => [](TypeInv /\ BoxInv)
<1>1. Init => BoxInv
  BY BoxStarts
<1>2. TypeInv /\ BoxInv /\ [Next]_vars => BoxInv'
  <2>1. TypeInv /\ BoxInv /\ Next => BoxInv'
    BY BoxKept
  <2>2. ASSUME BoxInv, UNCHANGED vars PROVE BoxInv'
    <3>1. /\ page' = page /\ loaded' = loaded /\ rerun' = rerun /\ text' = text /\ timer' = timer
          /\ notify' = notify /\ boxTerm' = boxTerm /\ cancelSearch' = cancelSearch
          /\ menu' = menu
      BY <2>2 DEF vars, loading, searchPage, box
    <3>2. MenuInv'
      BY <2>2, <3>1 DEF BoxInv, MenuInv
    <3> QED
      BY <2>2, <3>1, <3>2 DEF BoxInv, RerunInv, NoneIsSure
  <2> QED
    BY <2>1, <2>2
<1> QED
  BY <1>1, <1>2, LifeHolds, PTL DEF Spec

(* An open menu lists the answer to the last search, for the text in the box *)
(* unless a search is due: no re-run by a late index file brings an earlier  *)
(* answer back (updateSearchResults, cancelSearch).                          *)
THEOREM MenuFollowsBox == Spec => []MenuIsCurrent
<1>1. BoxInv => MenuIsCurrent
  BY DEF BoxInv, MenuInv, MenuIsCurrent
<1> QED
  BY <1>1, BoxHolds, PTL

(* When every index is there, an open menu shows all of them: the last one   *)
(* to arrive ran the search of the menu again (updateSearchResults).         *)
THEOREM MenuCatchesUp == Spec => []MenuIsComplete
<1>1. ASSUME BoxInv, menu.open, loaded = Category, NEW c \in Category PROVE menu.r[c].ready
  BY <1>1, AnswerScored DEF BoxInv, MenuInv
<1>2. BoxInv => MenuIsComplete
  BY <1>1 DEF MenuIsComplete
<1> QED
  BY <1>2, BoxHolds, PTL

(* "No result" is said only when every index has been searched: a missing    *)
(* one puts a notice of its own into the answer (searchIndex).               *)
THEOREM NoneIsTrue == Spec => []NoneMeansNone
<1>1. ASSUME TypeInv, BoxInv, menu.open, Hit(menu.r) = {} PROVE loaded = Category
  <2>1. menu.term \in Terms /\ menu.r = Results(menu.term, loaded, 300)
    BY <1>1 DEF BoxInv, MenuInv
  <2>2. \A c \in Category : c \notin loaded => menu.r[c].count = 1
    BY <2>1, AnswerScored DEF Loading
  <2>3. \A c \in Category : c \in loaded
    BY <1>1, <2>2 DEF Hit
  <2> QED
    BY <1>1, <2>3 DEF TypeInv, TypeOK
<1>2. TypeInv /\ BoxInv => NoneMeansNone
  BY <1>1 DEF BoxInv, NoneIsSure, NoneMeansNone
<1> QED
  BY <1>2, BoxHolds, PTL

=============================================================================
