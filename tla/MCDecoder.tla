------------------------------- MODULE MCDecoder -------------------------------
(***************************************************************************)
(* Numbers at both sides of every width, with the greatest numbers of four *)
(* and eight bytes scaled down to what TLC can count.                      *)
(***************************************************************************)
EXTENDS Decoder

MCGreatest == (0 :> 23) @@ (1 :> 255) @@ (2 :> 65535) @@ (4 :> 999999) @@ (8 :> 99999999)
MCListed == 0 .. 3
MCKeyed == 0 .. 9
MCNumber ==
  MCKeyed \cup {23, 24, 255, 256, 65535, 65536}
    \cup {n + d : n \in {I32Max, I64Max}, d \in {0, 1}}
    \cup {MCGreatest[4], MCGreatest[4] + 1, MCGreatest[8]}
MCRank == {0, 1}
MCLength == {0, 1, 16, 32, 64}
MCObjects == {"observation", "attestation", "checkpoint", "blob", "forkproof"}
MCPacks == {"pack", "verified pack"}
MCTags == {TAG(t) : t \in MCObjects \cup MCPacks}
MCVerifier == {"verified pack"}
MCType == MCObjects \cup MCPacks
=============================================================================
