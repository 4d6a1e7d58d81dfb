---------------------------- MODULE MCPackExchange -----------------------------
(***************************************************************************)
(* A universe for PackExchange: "a" and "b" are honest, "w" forks.         *)
(***************************************************************************)
EXTENDS PackExchange, TLC

MCKey == {"a", "b", "w"}
MCHonest == {"a", "b"}

(***************************************************************************)
(*    5  a@0       3  a@1 after 5, acks 12      2  a@2 after 3, acks 13    *)
(*    8, 9  w@0 twice                                                      *)
(*   12  by b of 5@0     13  by w of 3@1     1  by b of 2@2                *)
(*   14  by b of 8@0                                                       *)
(***************************************************************************)
MCObs == {2, 3, 5, 8, 9}
MCauthor == [x \in MCObs |-> IF x \in {8, 9} THEN "w" ELSE "a"]
MCseq == (5 :> 0) @@ (3 :> 1) @@ (2 :> 2) @@ (8 :> 0) @@ (9 :> 0)
MCprev == (5 :> None) @@ (3 :> 5) @@ (2 :> 3) @@ (8 :> None) @@ (9 :> None)
MCacks == [x \in MCObs |-> IF x = 3 THEN {12} ELSE IF x = 2 THEN {13} ELSE {}]

MCAtt == {1, 12, 13, 14}
MCwitness == [a \in MCAtt |-> IF a = 13 THEN "w" ELSE "b"]
MCsubject == [a \in MCAtt |-> IF a = 14 THEN "w" ELSE "a"]
MCsubject_head == (12 :> 5) @@ (13 :> 3) @@ (1 :> 2) @@ (14 :> 8)
MCsubject_seq == (12 :> 0) @@ (13 :> 1) @@ (1 :> 2) @@ (14 :> 0)
MCnonce == [a \in MCAtt |-> a]

MCmade == (5 :> 0) @@ (12 :> 1) @@ (3 :> 2) @@ (13 :> 3) @@ (2 :> 4) @@ (1 :> 5)
          @@ (8 :> 0) @@ (14 :> 1) @@ (9 :> 2)

MCGarbled == {3}
\* 1 is in nobody's reach before the export; it may be added to the file.
MCArriving == (MCObs \cup MCAtt) \ {1}
=============================================================================
