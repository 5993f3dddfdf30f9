----------------------------- MODULE DocSearch -----------------------------
(***************************************************************************)
(* The search of the bundled TDLib API documentation (docs/t3d/tdlib):     *)
(* script.js, search.js and search-page.js.  A page of that documentation  *)
(* is either the search page ("search": its own field, a result section    *)
(* with category tabs, and a URL that can be saved) or any other page      *)
(* ("doc": a box in the header with a drop-down menu).  The five index     *)
(* files are fetched while the page is already in use, in any order, and   *)
(* each of them re-runs the last search when it arrives.                   *)
(*                                                                         *)
(* Matching a term against an entry is data here: Found says how many      *)
(* entries of a category match a term and how high the best one scores.    *)
(* jQuery UI's autocomplete and the browser are external.                  *)
(***************************************************************************)
EXTENDS Integers, Sequences, FiniteSets, FiniteSetsExt, SequencesExt

CONSTANTS Terms,    \* search terms, without surrounding blanks
          Dotted,   \* those that end with "."
          Found,    \* Found[t][c]: count and best score of t's matches in c
          ReadBack  \* what URLSearchParams reads of "?q=" and encodeURI(t)

Empty == ""
Blank == " "        \* a field that holds nothing but blanks
None == "none"
Stray == "stray"    \* a tab that only an address can name

\* The keys of the object "r" in their order; one index file per category.
Order == <<"types", "members", "packages", "modules", "searchTags">>
Category == ToSet(Order)
Position(c) == CHOOSE i \in DOMAIN Order : Order[i] = c

ASSUME TermsAssumption == {Empty, Blank, None} \cap Terms = {} /\ Dotted \subseteq Terms

\* encodeURI leaves "#", "&" and "+" as they are: "#" ends the query of the
\* address and cuts off what follows, "&c=" and "&r=" in a term are read as
\* parameters, "+" as a blank.
ASSUME ReadBackAssumption ==
  \A t \in Terms :
     ReadBack[t] \in [q : Terms \cup {Empty, Blank}, c : Category \cup {None, Stray},
                     r : BOOLEAN, cut : BOOLEAN]

\* findMatch never returns a score of zero or less.
ASSUME FoundAssumption ==
  \A t \in Terms : \A c \in Category :
     /\ Found[t][c].count \in Nat /\ Found[t][c].score \in Nat
     /\ Found[t][c].count > 0 <=> Found[t][c].score > 0

VARIABLES
  page,         \* "search" or "doc"
  phase,        \* "loading", "ready" (the field works) or "left" (navigated away)
  loaded,       \* categories whose index file has run
  failed,       \* categories whose index file could not be fetched
  rerun,        \* updateSearchResults: the search to run again, or Idle
  text,         \* contents of the search field
  timer,        \* a delayed search is scheduled
  url,          \* the page's address as it is read: query, category, redirect flag
  activeTab, fixedTab, feelingLucky, visibleTabs, notify,   \* search-page.js
  view,         \* the result section: what is shown in it
  boxTerm,      \* autocomplete: the term it last searched
  cancelSearch, \* autocomplete: answers no longer open the menu
  menu          \* the drop-down menu

loading == <<loaded, failed>>
searchPage == <<url, activeTab, fixedTab, feelingLucky, visibleTabs, notify, view>>
box == <<boxTerm, cancelSearch, menu>>
vars == <<page, phase, loading, rerun, text, timer, searchPage, box>>

Trim(t) == IF t = Blank THEN Empty ELSE t
Texts == Terms \cup {Empty, Blank}

---------------------------------------------------------------------------
(* doSearch *)

Nothing == [count |-> 0, score |-> 0, ready |-> TRUE]
\* The entry a category gets while its index is missing: it has no score.
Loading == [count |-> 1, score |-> 0, ready |-> FALSE]

\* Mutant: a missing index answers like one without a match.
ResultsWithoutNotice(term, idx, maxResults) ==
  [c \in Category |->
     IF c \in idx THEN [count |-> Min({Found[term][c].count, maxResults}),
                        score |-> Found[term][c].score, ready |-> TRUE]
     ELSE Nothing]

\* searchIndex and the concatenation of its answers, with "idx" the indexes
\* that are there.
Results(term, idx, maxResults) ==
  [c \in Category |->
     IF c \in idx THEN [count |-> Min({Found[term][c].count, maxResults}),
                        score |-> Found[term][c].score, ready |-> TRUE]
     ELSE Loading]

Total(r) == SumFunction([c \in Category |-> r[c].count])
Hit(r) == {c \in Category : r[c].count > 0}

Idle == [term |-> Empty, current |-> FALSE]

\* Mutant: only a search that found no index at all is re-run.
AgainUnlessSome(term, idx, current) ==
  IF idx # {} THEN Idle ELSE [term |-> term, current |-> current]

\* updateSearchResults, which every arriving index file calls.  "current" is
\* FALSE once the autocomplete has issued a later request, whose answer is the
\* only one it still accepts.
Again(term, idx, current) ==
  IF idx = Category THEN Idle ELSE [term |-> term, current |-> current]

---------------------------------------------------------------------------
(* The address *)

\* The address, as it will be read, when "t" is written with the tab "c".
Written(t, c) ==
  LET read == ReadBack[t]
  IN [q |-> read.q, r |-> read.r, c |-> IF read.c = None /\ ~read.cut THEN c ELSE read.c]

NoQuery == [q |-> Empty, c |-> None, r |-> FALSE]

\* Mutant: the active tab is written whether it was chosen or not.
AddressOfAnyTab(t, tab, fix) == IF Trim(t) = Empty THEN NoQuery ELSE Written(Trim(t), tab)

\* setSearchUrl: the redirect flag is never written back.
AddressOf(t, tab, fix) ==
  IF Trim(t) = Empty THEN NoQuery ELSE Written(Trim(t), IF fix THEN tab ELSE None)

---------------------------------------------------------------------------
(* The state a page starts in, and what a page forgets when it is loaded again *)

Hidden(term) == [open |-> FALSE, term |-> term, tables |-> {}, marked |-> None, buttons |-> {}]
Closed == [open |-> FALSE, term |-> Empty, r |-> [c \in Category |-> Nothing]]

\* The addresses a search page is opened with: its own, a search with or
\* without a chosen tab (setSearchUrl, the link in the menu of the box), and
\* the search of a browser that uses the page's template (setSearchUrlTemplate),
\* which escapes the term.
Opened ==
  \/ \E t \in Terms \cup {Empty}, c \in Category \cup {None} : url = AddressOf(t, c, TRUE)
  \/ \E t \in Terms, lucky \in BOOLEAN : url = [q |-> t, c |-> None, r |-> lucky]

Init ==
  /\ page \in {"search", "doc"}
  /\ Opened
  /\ page = "doc" => url = NoQuery
  /\ phase = "loading" /\ loaded = {} /\ failed = {} /\ rerun = Idle
  /\ text = Empty /\ timer = FALSE
  /\ activeTab = None /\ fixedTab = FALSE /\ feelingLucky = FALSE
  /\ visibleTabs = <<>> /\ notify = "loading" /\ view = Hidden(Empty)
  /\ boxTerm = None /\ cancelSearch = FALSE /\ menu = Closed

\* The reader reloads the page, or comes back to it after following a result:
\* everything but its address starts afresh.
Reload ==
  /\ phase # "loading"
  /\ phase' = "loading" /\ loaded' = {} /\ failed' = {} /\ rerun' = Idle
  /\ text' = Empty /\ timer' = FALSE
  /\ activeTab' = None /\ fixedTab' = FALSE /\ feelingLucky' = FALSE
  /\ visibleTabs' = <<>> /\ notify' = "loading" /\ view' = Hidden(Empty)
  /\ boxTerm' = None /\ cancelSearch' = FALSE /\ menu' = Closed
  /\ UNCHANGED <<page, url>>

---------------------------------------------------------------------------
(* Loading *)

MenuFor(term, idx) == [open |-> TRUE, term |-> term, r |-> Results(term, idx, 300)]

\* An index file sets its global and calls updateSearchResults.
IndexLoads(c) ==
  /\ c \notin loaded \cup failed
  /\ loaded' = loaded \cup {c}
  /\ IF rerun = Idle THEN UNCHANGED <<rerun, menu>>
     ELSE /\ rerun' = Again(rerun.term, loaded', rerun.current)
          /\ menu' = CASE ~rerun.current -> menu
                       [] rerun.current /\ cancelSearch -> Closed
                       [] OTHER -> MenuFor(rerun.term, loaded')
  /\ UNCHANGED <<page, phase, failed, text, timer, searchPage, boxTerm, cancelSearch>>

IndexFails(c) ==
  /\ c \notin loaded \cup failed
  /\ failed' = failed \cup {c}
  /\ UNCHANGED <<page, phase, loaded, rerun, text, timer, searchPage, box>>

---------------------------------------------------------------------------
(* The search page *)

\* The category with the best first entry, the earlier one in a tie; "tab"
\* when no category has an entry with a score.
Leading(r, tab) ==
  LET scored == {c \in Category : r[c].score > 0}
  IN IF scored = {} THEN tab
     ELSE CHOOSE c \in scored : \A d \in scored :
            r[c].score > r[d].score \/ (r[c].score = r[d].score /\ Position(c) <= Position(d))

\* The tab renderResults starts from: a fixed one is kept while it has results.
FirstTab(r, tab, fix) ==
  IF tab = None \/ ~fix \/ r[tab].count = 0 THEN Leading(r, tab) ELSE tab

\* "java.util." asks for the members of a type or the types of a package.
MemberTab(r, term, tab) ==
  CASE Total(r) > 20 /\ term \in Dotted /\ tab = "types" /\ r["members"].count > r["types"].count
         -> "members"
    [] Total(r) > 20 /\ term \in Dotted /\ tab = "packages" /\ r["types"].count > r["packages"].count
         -> "types"
    [] OTHER -> tab

TabFor(r, term, tab, fix) == MemberTab(r, term, FirstTab(r, tab, fix))
Wide(r) == Total(r) > 20 /\ Cardinality(Hit(r)) > 1
InOrder(s) == SelectSeq(Order, LAMBDA c : c \in s)
Keys(r) == InOrder(Hit(r))
Count(r) == CASE Total(r) = 0 -> "none" [] Total(r) = 1 -> "one" [] OTHER -> "many"

\* renderItem needs the prefix of the entry and throws on a Loading one; what
\* was drawn before it stays, and the section is not shown.
Drawn(r) == {c \in Hit(r) : \A d \in Hit(r) : Position(d) <= Position(c) => r[d].ready}

\* The results fit one table after the other, without tabs.
DrawAll(term, r) ==
  /\ visibleTabs' = <<>>
  /\ view' = [open   |-> Drawn(r) = Hit(r) \/ view.open, term |-> term,
              tables |-> Drawn(r), marked |-> None, buttons |-> {}]

\* One button per category, and the table of the active one.
DrawTabs(term, r, tab) ==
  /\ visibleTabs' = Keys(r)
  /\ view' = [open    |-> r[tab].ready \/ view.open, term |-> term,
              tables  |-> IF r[tab].ready THEN {tab} ELSE {},
              marked  |-> tab, buttons |-> Hit(r)]

\* The address named a tab that does not exist: renderResults has emptied the
\* container and throws when it asks for the results of that tab.
RenderStray(term, r) ==
  /\ activeTab' = Stray /\ notify' = Count(r) /\ phase' = "ready"
  /\ view' = [Hidden(term) EXCEPT !.open = view.open]
  /\ UNCHANGED visibleTabs

\* renderResults
Render(term, r, tab, fix, lucky) ==
  LET first == FirstTab(r, tab, fix)
      final == MemberTab(r, term, first)
  IN IF tab = Stray THEN RenderStray(term, r)
     ELSE IF lucky /\ first # None
     THEN /\ activeTab' = first /\ notify' = "redirecting" /\ phase' = "left"
          /\ view' = [Hidden(term) EXCEPT !.open = view.open]
          /\ UNCHANGED visibleTabs
     ELSE /\ activeTab' = final /\ notify' = Count(r) /\ phase' = "ready"
          /\ IF Wide(r) THEN DrawTabs(term, r, final) ELSE DrawAll(term, r)

\* Mutant: the address keeps the redirect flag of the search.
PageSearchKeepsFlag(t, tab, fix, lucky) ==
  /\ url' = [AddressOf(t, tab, fix) EXCEPT !.r = lucky]
  /\ feelingLucky' = lucky
  /\ IF Trim(t) = Empty
     THEN /\ activeTab' = None /\ fixedTab' = FALSE /\ notify' = "enter"
          /\ view' = Hidden(Empty)
          /\ phase' = "ready"
          /\ UNCHANGED <<visibleTabs, rerun>>
     ELSE /\ fixedTab' = fix
          /\ rerun' = Again(Trim(t), loaded, TRUE)
          /\ Render(Trim(t), Results(Trim(t), loaded, 1200), tab, fix, lucky)

\* doPageSearch, with the contents of the field and the variables it starts from.
PageSearch(t, tab, fix, lucky) ==
  /\ url' = AddressOf(t, tab, fix)
  /\ feelingLucky' = lucky
  /\ IF Trim(t) = Empty
     THEN /\ activeTab' = None /\ fixedTab' = FALSE /\ notify' = "enter"
          /\ view' = Hidden(Empty)
          /\ phase' = "ready"
          /\ UNCHANGED <<visibleTabs, rerun>>
     ELSE /\ fixedTab' = fix
          /\ rerun' = Again(Trim(t), loaded, TRUE)
          /\ Render(Trim(t), Results(Trim(t), loaded, 1200), tab, fix, lucky)

\* The "load" handler runs when every script has run or failed.
PageLoads ==
  /\ page = "search" /\ phase = "loading" /\ loaded \cup failed = Category
  /\ text' = url.q
  /\ IF url.q # Empty THEN PageSearch(url.q, url.c, url.c # None, url.r)
     ELSE /\ notify' = "enter" /\ phase' = "ready"
          /\ activeTab' = url.c /\ fixedTab' = (url.c # None) /\ feelingLucky' = url.r
          /\ UNCHANGED <<url, visibleTabs, view, rerun>>
  /\ UNCHANGED <<page, loading, timer, box>>

Searching == page = "search" /\ phase = "ready"

\* Mutant: typing does not call the redirect off.
TypeStillLucky(t) ==
  /\ Searching
  /\ t # text
  /\ text' = t /\ timer' = TRUE
  /\ UNCHANGED <<page, phase, loading, rerun, url, activeTab, fixedTab, feelingLucky,
                 visibleTabs, notify, view, box>>

\* The "input" handler: 100 ms after the last keystroke the search runs.
TypeOnPage(t) ==
  /\ Searching
  /\ t # text
  /\ text' = t /\ timer' = TRUE /\ feelingLucky' = FALSE
  /\ UNCHANGED <<page, phase, loading, rerun, url, activeTab, fixedTab, visibleTabs, notify,
                 view, box>>

PageTimer ==
  /\ Searching
  /\ timer
  /\ timer' = FALSE
  /\ PageSearch(text, activeTab, fixedTab, feelingLucky)
  /\ UNCHANGED <<page, loading, text, box>>

\* Mutant: the table of the tab left behind is not removed.
ShowTabBeside(c) ==
  LET ready == c \in loaded
  IN /\ activeTab' = c /\ fixedTab' = TRUE
     /\ url' = AddressOf(text, c, TRUE)
     /\ view' = [view EXCEPT !.tables = IF ready THEN @ \cup {c} ELSE @,
                             !.marked = IF ready THEN c ELSE @]
     /\ UNCHANGED <<page, phase, loading, rerun, text, timer, feelingLucky, visibleTabs, notify,
                    box>>

\* renderResult: the button of a tab, on the results that are being shown.
ShowTab(c) ==
  LET ready == c \in loaded
  IN /\ activeTab' = c /\ fixedTab' = TRUE
     /\ url' = AddressOf(text, c, TRUE)
     /\ view' = [view EXCEPT !.tables = IF ready THEN {c} ELSE {},
                             !.marked = IF ready THEN c ELSE @]
     /\ UNCHANGED <<page, phase, loading, rerun, text, timer, feelingLucky, visibleTabs, notify,
                    box>>

ClickTab(c) == Searching /\ view.open /\ c \in view.buttons /\ ShowTab(c)

\* ctrl + arrow: selectTab clicks the neighbour's button, if it still exists.
Turn(step) ==
  LET idx == IF \E i \in DOMAIN visibleTabs : visibleTabs[i] = activeTab
             THEN CHOOSE i \in DOMAIN visibleTabs : visibleTabs[i] = activeTab
             ELSE 0
      to  == visibleTabs[((idx - 1 + step) % Len(visibleTabs)) + 1]
  IN /\ Searching
     /\ activeTab # None /\ Len(visibleTabs) > 1
     /\ to \in view.buttons
     /\ ShowTab(to)

TurnLeft == Turn(Len(visibleTabs) - 1)
TurnRight == Turn(1)

\* Mutant: the address still holds the search that was reset.
ResetKeepsAddress ==
  /\ Searching
  /\ notify' = "enter" /\ view' = Hidden(Empty)
  /\ activeTab' = None /\ fixedTab' = FALSE
  /\ text' = Empty
  /\ UNCHANGED <<page, phase, loading, rerun, timer, feelingLucky, visibleTabs, url, box>>

\* The reset button leaves the timer, the tabs and the redirect flag alone.
ResetPage ==
  /\ Searching
  /\ notify' = "enter" /\ view' = Hidden(Empty)
  /\ activeTab' = None /\ fixedTab' = FALSE
  /\ text' = Empty
  /\ url' = AddressOf(Empty, None, FALSE)
  /\ UNCHANGED <<page, phase, loading, rerun, timer, feelingLucky, visibleTabs, box>>

---------------------------------------------------------------------------
(* The box in the header of every other page *)

\* search.js has run: the box is set up and enabled, whatever index is there.
BoxLoads ==
  /\ page = "doc" /\ phase = "loading"
  /\ phase' = "ready"
  /\ text' = Empty
  /\ UNCHANGED <<page, loading, rerun, timer, searchPage, box>>

Using == page = "doc" /\ phase = "ready"

\* autocomplete: a keystroke schedules the search in 200 ms.
TypeInBox(t) ==
  /\ Using
  /\ t # text
  /\ text' = t /\ timer' = TRUE
  /\ UNCHANGED <<page, phase, loading, rerun, searchPage, box>>

\* Mutant: a blank term returns without closing the menu.
DoSearchIgnoresBlank(t) ==
  IF Trim(t) = Empty
  THEN cancelSearch' = FALSE /\ menu' = menu /\ rerun' = [rerun EXCEPT !.current = FALSE]
  ELSE /\ cancelSearch' = FALSE
       /\ rerun' = Again(Trim(t), loaded, TRUE)
       /\ menu' = MenuFor(Trim(t), loaded)

\* doSearch as the source of the autocomplete.  A blank term closes the menu
\* and leaves updateSearchResults as it was, with a request that is now old.
DoSearch(t) ==
  IF Trim(t) = Empty
  THEN /\ cancelSearch' = TRUE /\ menu' = Closed
       /\ rerun' = [rerun EXCEPT !.current = FALSE]
  ELSE /\ cancelSearch' = FALSE
       /\ rerun' = Again(Trim(t), loaded, TRUE)
       /\ menu' = MenuFor(Trim(t), loaded)

\* autocomplete: the delay is over.
BoxTimer ==
  /\ Using
  /\ timer
  /\ timer' = FALSE
  /\ IF boxTerm = text /\ menu.open THEN UNCHANGED <<rerun, box>>
     ELSE /\ boxTerm' = text
          /\ IF text = Empty
             THEN cancelSearch' = TRUE /\ menu' = Closed /\ UNCHANGED rerun
             ELSE DoSearch(text)
  /\ UNCHANGED <<page, phase, loading, text, searchPage>>

\* The select handler: an entry without an index item leads nowhere.  The
\* autocomplete then empties the box and closes the menu.
Select(c) ==
  /\ Using
  /\ menu.open
  /\ c \in Hit(menu.r) \/ (c = None /\ Hit(menu.r) = {})
  /\ phase' = IF c # None /\ menu.r[c].ready THEN "left" ELSE phase
  /\ text' = Empty /\ boxTerm' = Empty /\ cancelSearch' = TRUE /\ menu' = Closed
  /\ UNCHANGED <<page, loading, rerun, timer, searchPage>>

\* Mutant: the text is restored though no search has set one yet.
EscapeAnyway ==
  /\ Using
  /\ text' = boxTerm /\ cancelSearch' = TRUE /\ menu' = Closed
  /\ UNCHANGED <<page, phase, loading, rerun, timer, searchPage, boxTerm>>

Escape ==
  /\ Using
  /\ menu.open
  /\ text' = boxTerm /\ cancelSearch' = TRUE /\ menu' = Closed
  /\ UNCHANGED <<page, phase, loading, rerun, timer, searchPage, boxTerm>>

\* The box loses the focus, with or without a click on its reset button.
LeaveBox(reset) ==
  /\ Using
  /\ timer' = FALSE /\ cancelSearch' = TRUE /\ menu' = Closed
  /\ text' = IF reset THEN Empty ELSE text
  /\ UNCHANGED <<page, phase, loading, rerun, searchPage, boxTerm>>

---------------------------------------------------------------------------

Next ==
  \/ Reload \/ PageLoads \/ PageTimer \/ ResetPage \/ TurnLeft \/ TurnRight
  \/ BoxLoads \/ BoxTimer \/ Escape
  \/ \E c \in Category : IndexLoads(c) \/ IndexFails(c) \/ ClickTab(c)
  \/ \E c \in Category \cup {None} : Select(c)
  \/ \E t \in Texts : TypeOnPage(t) \/ TypeInBox(t)
  \/ \E reset \in BOOLEAN : LeaveBox(reset)

Spec == Init /\ [][Next]_vars

---------------------------------------------------------------------------

RealTabs == Category \cup {None}
Tabs == RealTabs \cup {Stray}
Entry == [count : Nat, score : Nat, ready : BOOLEAN]
Address == [q : Texts, c : Tabs, r : BOOLEAN]
Rerun == [term : Terms \cup {Empty}, current : BOOLEAN]
View == [open : BOOLEAN, term : Terms \cup {Empty}, tables : SUBSET Category,
         marked : RealTabs, buttons : SUBSET Category]
Menu == [open : BOOLEAN, term : Terms \cup {Empty}, r : [Category -> Entry]]
TabLists == {<<>>} \cup {InOrder(s) : s \in SUBSET Category}

\* The types of the variables; every stored result has one entry per category.
TypeOK ==
  /\ page \in {"search", "doc"} /\ phase \in {"loading", "ready", "left"}
  /\ loaded \in SUBSET Category /\ failed \in SUBSET (Category \ loaded)
  /\ rerun \in Rerun /\ text \in Texts /\ timer \in BOOLEAN /\ url \in Address
  /\ activeTab \in Tabs /\ fixedTab \in BOOLEAN /\ feelingLucky \in BOOLEAN
  /\ visibleTabs \in TabLists /\ view \in View
  /\ notify \in {"loading", "enter", "none", "one", "many", "redirecting"}
  /\ boxTerm \in Texts \cup {None} /\ cancelSearch \in BOOLEAN /\ menu \in Menu

Settled == Searching /\ ~timer

\* Once no delayed search is pending, the address and the result section are
\* those of the text in the field: whatever order keystrokes, tab clicks,
\* resets and the timer come in, the address reads back as the one that was
\* written for this text (doPageSearch, renderResult, reset.click).
PageFollowsText ==
  Settled => /\ url.q = AddressOf(text, None, FALSE).q
             /\ view.term = Trim(text)
             /\ Trim(text) = Empty => ~view.open /\ view.tables = {}

\* A term that the address gives back as it was written.
Whole(t) == t \in Terms /\ ReadBack[t] = [q |-> t, c |-> None, r |-> FALSE, cut |-> FALSE]

\* The address of a settled page, opened again, leads to the same search and
\* to the tab that is active: setSearchUrl runs before renderResults picks the
\* tab.  Excepted are a term that does not survive encodeURI; a tab chosen for
\* a term that ends with ".", which the adjustment at search-page.js:107
\* overrides when the page is opened again; and a page without one of its
\* indexes, where renderItem throws half-way.
AddressReopensTab ==
  LET term == Trim(text)
      r == Results(term, loaded, 1200)
  IN /\ Settled /\ view.open /\ failed = {}
     /\ Whole(term) /\ (url.c = None \/ term \notin Dotted) /\ Total(r) > 0
     => url.q = term /\ TabFor(r, term, url.c, url.c # None) = activeTab

\* Where there are tabs, the marked button, the only table and activeTab are
\* the same category, and it has results (renderResults, renderResult).
OneTabIsShown ==
  Searching /\ failed = {} /\ view.buttons # {}
    => /\ activeTab \in view.buttons
       /\ view.marked = activeTab /\ view.tables = {activeTab}

\* A page that has redirected to its first result can be returned to: its
\* address no longer asks for the redirect, unless the term itself spells it.
RedirectIsNoTrap == page = "search" /\ phase = "left" /\ url.r => ReadBack[Trim(text)].r

\* The reader is taken away only by the search the address asked for, never
\* by one that was typed.
TypingNeverRedirects == [][page = "search" /\ phase' = "left" => phase = "loading"]_vars

\* An open menu lists the answer to the last search, and that search is for
\* the text in the box or another one is due: re-runs of an earlier search by
\* a late index file never put its answer back.
MenuIsCurrent ==
  menu.open => /\ menu.term = Trim(boxTerm)
               /\ timer \/ text = boxTerm

\* When every index is there, an open menu shows all of them: no entry still
\* says that the index is loading.
MenuIsComplete ==
  menu.open /\ loaded = Category => \A c \in Category : menu.r[c].ready

\* "No result" is said only when every index has been searched.
NoneMeansNone ==
  /\ notify = "none" => loaded = Category
  /\ menu.open /\ Hit(menu.r) = {} => loaded = Category

===========================================================================
