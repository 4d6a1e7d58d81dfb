-------------------------------- MODULE MCDemo ---------------------------------
(***************************************************************************)
(* Every object the first calls of a visit can make.                       *)
(***************************************************************************)
EXTENDS Demo, TLC

\* Each node's entries: 1 and 2 at number 0; at number 1, 3 and 6 after 1, 4
\* and 5 after 2; at number 2, 7 to 10 after each of these.  Those of b are the
\* same plus 10.
MCObs == 1 .. 20
Place(x) == IF x <= 10 THEN x ELSE x - 10
MCauthor == [x \in MCObs |-> IF x <= 10 THEN "a" ELSE "b"]
MCseq == [x \in MCObs |-> IF Place(x) <= 2 THEN 0 ELSE IF Place(x) <= 6 THEN 1 ELSE 2]
MCprev ==
  [x \in MCObs |->
     LET below == <<None, None, 1, 2, 2, 1, 5, 3, 6, 4>>[Place(x)]
     IN  IF below = None THEN None ELSE below + (x - Place(x))]
MCacks == [x \in MCObs |-> {}]

\* Two attestations by the other node of each entry, with ids in either order.
MCAtt == 21 .. 60
Head(t) == IF t <= 40 THEN t - 20 ELSE 61 - t
MCsubject_head == [t \in MCAtt |-> Head(t)]
MCsubject == [t \in MCAtt |-> MCauthor[Head(t)]]
MCsubject_seq == [t \in MCAtt |-> MCseq[Head(t)]]
MCwitness == [t \in MCAtt |-> IF MCsubject[t] = "a" THEN "b" ELSE "a"]
MCnonce == [t \in MCAtt |-> t]

MCmade == [x \in MCObs |-> MCseq[x] * 2] @@ [t \in MCAtt |-> MCsubject_seq[t] * 2 + 1]
MCKey == {"a", "b"}
MCHonest == {}
=============================================================================
