------------------------------ MODULE MCEvidence -------------------------------
(***************************************************************************)
(* A universe for Evidence: "a" forks its chain, "b" and "w" witness it.    *)
(***************************************************************************)
EXTENDS Evidence, TLC

MCKey == {"a", "b", "w"}
MCHonest == {"b"}

(***************************************************************************)
(* Observations:                                                           *)
(*    5  a@0                       3  a@1 after 5, acks 12                 *)
(*    2  a@3 after 14, an entry nobody holds; acks 13 and, wrongly, 17     *)
(*    4  a@1 after 5, made after all of these: a backdated branch          *)
(*    6  a@1 after 4, a number that does not fit its prev                  *)
(*    8, 9  w@0 twice: what convicts w                                     *)
(* Attestations:                                                           *)
(*   12  by b of 5@0     13  by w of 3@1     1  by b of 2@3                *)
(*   11  by w of 4@1     10  of 4@1 in b's name, which b did not sign      *)
(*   16  by b of 6@1     17  by w of 7@0, an entry of b nobody holds       *)
(***************************************************************************)
MCObs == {2, 3, 4, 5, 6, 8, 9}
MCSignedObs == MCObs
MCauthor == [x \in MCObs |-> IF x \in {8, 9} THEN "w" ELSE "a"]
MCseq == (5 :> 0) @@ (3 :> 1) @@ (2 :> 3) @@ (4 :> 1) @@ (6 :> 1) @@ (8 :> 0) @@ (9 :> 0)
MCprev == (5 :> None) @@ (3 :> 5) @@ (2 :> 14) @@ (4 :> 5) @@ (6 :> 4)
          @@ (8 :> None) @@ (9 :> None)
MCacks == [x \in MCObs |-> IF x = 3 THEN {12} ELSE IF x = 2 THEN {13, 17} ELSE {}]

MCAtt == {1, 10, 11, 12, 13, 16, 17}
MCSignedAtt == MCAtt \ {10}
MCwitness == [a \in MCAtt |-> IF a \in {11, 13, 17} THEN "w" ELSE "b"]
MCsubject == [a \in MCAtt |-> IF a = 17 THEN "b" ELSE "a"]
MCsubject_head == (10 :> 4) @@ (11 :> 4) @@ (12 :> 5) @@ (13 :> 3) @@ (1 :> 2)
                  @@ (16 :> 6) @@ (17 :> 7)
MCsubject_seq == (10 :> 1) @@ (11 :> 1) @@ (12 :> 0) @@ (13 :> 1) @@ (1 :> 3)
                 @@ (16 :> 1) @@ (17 :> 0)
MCnonce == [a \in MCAtt |-> a]

MCmade == (5 :> 0) @@ (12 :> 1) @@ (3 :> 2) @@ (13 :> 3) @@ (17 :> 3) @@ (2 :> 4)
          @@ (1 :> 5) @@ (4 :> 6) @@ (10 :> 7) @@ (11 :> 7) @@ (6 :> 8) @@ (16 :> 9)
          @@ (8 :> 0) @@ (9 :> 1)

MCGarbled == {10}
\* The convicting pair reaches this node in a fork proof only; the odd entry 6
\* and what witnesses it come in their own configuration.
MCArriving == {1, 2, 3, 4, 5, 10, 11, 12, 13, 17}
=============================================================================
