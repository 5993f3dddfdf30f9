---------------------------- MODULE MCDocSearch ----------------------------
(* Four plain terms: many types and members ("wide"), a narrow answer, no    *)
(* answer, and a term that ends with "." with more members than types.  Five *)
(* that encodeURI does not protect: one that "#" cuts, one with a tab and    *)
(* the redirect, one with a tab that does not exist, one that leaves a tab   *)
(* without a query, and one that is read as a blank.                         *)
EXTENDS DocSearch

Plain == {"wide", "few", "nil", "dot."}
MCTerms == Plain \cup {"wide#", "wide&c=members&r=1", "few&c=x", "&c=types", "+"}
MCDotted == {"dot."}

Read(q, c, r, cut) == [q |-> q, c |-> c, r |-> r, cut |-> cut]
MCReadBack ==
  [t \in Plain |-> Read(t, None, FALSE, FALSE)] @@
  ("wide#" :> Read("wide", None, FALSE, TRUE)) @@
  ("wide&c=members&r=1" :> Read("wide", "members", TRUE, FALSE)) @@
  ("few&c=x" :> Read("few", Stray, FALSE, FALSE)) @@
  ("&c=types" :> Read(Empty, "types", FALSE, FALSE)) @@
  ("+" :> Read(Blank, None, FALSE, FALSE))

Of(n, s) == [count |-> n, score |-> s]
None0 == Of(0, 0)
WideFound == [types |-> Of(15, 3), members |-> Of(9, 4), packages |-> None0,
              modules |-> None0, searchTags |-> Of(1, 3)]
FewFound == [types |-> Of(2, 4), members |-> Of(3, 4), packages |-> None0,
             modules |-> None0, searchTags |-> None0]
DotFound == [types |-> Of(8, 5), members |-> Of(20, 2), packages |-> Of(1, 4),
             modules |-> None0, searchTags |-> None0]
MCFound == [t \in MCTerms |->
              CASE t \in {"wide", "wide#"} -> WideFound
                [] t = "few"  -> FewFound
                [] t = "dot." -> DotFound
                [] OTHER      -> [c \in Category |-> None0]]
============================================================================
