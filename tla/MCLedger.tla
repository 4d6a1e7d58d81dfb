------------------------------- MODULE MCLedger -------------------------------
(***************************************************************************)
(* A small universe for Ledger: a key "a" that signs what it likes and an  *)
(* honest key "b" under whose name somebody stores a forged sibling.       *)
(***************************************************************************)
EXTENDS Ledger, TLC

MCKey == {"a", "b"}
MCHonest == {"b"}

(***************************************************************************)
(* Observations, 21 being a hash nobody has the preimage of:               *)
(*    9  a@0              5  a@1 after 9         3  a@1 after 9 (a fork)   *)
(*    4  a@2 after 3      6  a@3 after 9 (shares a prev across a gap)      *)
(*    2  a@2 after 21    10  a@0 after 21                                  *)
(*    7  b@0              1  b@1 after 7                                   *)
(*    8  b@1 after 7, forged: b never signed it                            *)
(***************************************************************************)
MCObs == 1 .. 10
MCSignedObs == MCObs \ {8}
MCauthor == [x \in MCObs |-> IF x \in {1, 7, 8} THEN "b" ELSE "a"]
MCseq == (9 :> 0) @@ (5 :> 1) @@ (3 :> 1) @@ (4 :> 2) @@ (6 :> 3) @@ (2 :> 2)
         @@ (10 :> 0)         @@ (7 :> 0) @@ (1 :> 1) @@ (8 :> 1)
MCprev == (9 :> None) @@ (5 :> 9) @@ (3 :> 9) @@ (4 :> 3) @@ (6 :> 9) @@ (2 :> 21)
          @@ (10 :> 21)          @@ (7 :> None) @@ (1 :> 7) @@ (8 :> 7)
MCacks == [x \in MCObs |-> {}]

(***************************************************************************)
(* Attestations: "a" signs two under one nonce, "b" signs one under the    *)
(* same nonce, which is its own to use.                                    *)
(***************************************************************************)
MCAtt == 11 .. 13
MCSignedAtt == MCAtt
MCwitness == (11 :> "a") @@ (12 :> "a") @@ (13 :> "b")
MCsubject == (11 :> "b") @@ (12 :> "b") @@ (13 :> "a")
MCsubject_head == (11 :> 7) @@ (12 :> 1) @@ (13 :> 9)
MCsubject_seq == (11 :> 0) @@ (12 :> 1) @@ (13 :> 0)
MCnonce == [a \in MCAtt |-> 0]

MCmade == (9 :> 0) @@ (5 :> 1) @@ (3 :> 4) @@ (4 :> 5) @@ (6 :> 6) @@ (2 :> 7)
          @@ (10 :> 8)          @@ (7 :> 0) @@ (1 :> 1) @@ (8 :> 2) @@ (11 :> 1) @@ (12 :> 3) @@ (13 :> 2)

MCGarbled == {5, 8}
MCArriving == MCObs \cup MCAtt
=============================================================================
