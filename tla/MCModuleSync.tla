--------------------------- MODULE MCModuleSync ---------------------------
(* Small instances of ModuleSync. *)
EXTENDS ModuleSync, TLC

CONSTANTS ann, ben, \* the accounts
          lap, tab  \* the browsers

\* One browser, alone or shared by Ann and Ben; Ann's two browsers, writing in
\* both, or rearranging the page in one of them.
BrowserCases ==
  LET alone == (lap :> {ann}) @@ (tab :> {})
      shared == (lap :> {ann, ben}) @@ (tab :> {})
      two == (lap :> {ann}) @@ (tab :> {ann})
  IN {[who |-> alone, opens |-> 1, suspends |-> 0, calls |-> 2, time |-> 5,
       closing |-> FALSE, layout |-> {lap}],
      [who |-> shared, opens |-> 2, suspends |-> 1, calls |-> 1, time |-> 5,
       closing |-> TRUE, layout |-> {lap}],
      [who |-> two, opens |-> 1, suspends |-> 0, calls |-> 2, time |-> 7,
       closing |-> FALSE, layout |-> {}],
      [who |-> two, opens |-> 1, suspends |-> 0, calls |-> 1, time |-> 6,
       closing |-> FALSE, layout |-> {lap}]}

\* Ann has links and a block, Ben a block.
SomeDocuments ==
  LET doc(a, t, kind) == [at |-> t, owner |-> a, kind |-> kind]
  IN (ann :> (1 :> doc(ann, 1, "links") @@ 2 :> doc(ann, 2, "block")))
     @@ (ben :> (3 :> doc(ben, 3, "block")))

SlotsAreAlike == Permutations(Slots)
=============================================================================
