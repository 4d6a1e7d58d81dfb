----------------------------- MODULE MCVigilNode -------------------------------
(***************************************************************************)
(* Up to three captures among other requests.                              *)
(***************************************************************************)
EXTENDS VigilNode, TLC

CONSTANTS c1, c2, c3, blank, look, pack, health, stuck, w1, w2, w3

\* Every chain the captures can end up in, by the requests whose texts its
\* entries carry; an entry's id is the place of its chain in this list, so that
\* ids are in no order of age.
MCPath ==
  <<<<c2, c1>>, <<c1>>, <<c3, c2, c1>>, <<c3>>, <<c1, c2>>, <<c2>>, <<c1, c3>>,
    <<c3, c1>>, <<c2, c3>>, <<c1, c2, c3>>, <<c3, c2>>, <<c2, c1, c3>>,
    <<c3, c1, c2>>, <<c2, c3, c1>>, <<c1, c3, c2>>>>
MCObs == {x \in DOMAIN MCPath : \A n \in DOMAIN MCPath[x] : MCPath[x][n] \in Capture}
MCseq == [x \in MCObs |-> Len(MCPath[x]) - 1]
MCtext == [x \in MCObs |-> Last(MCPath[x])]
MCprev ==
  [x \in MCObs |-> IF Len(MCPath[x]) = 1 THEN None
                   ELSE CHOOSE y \in MCObs : MCPath[y] = Front(MCPath[x])]
MCauthor == [x \in MCObs |-> "me"]
MCacks == [x \in MCObs |-> {}]
MCKey == {"me"}
MCNone == [a \in {} |-> "me"]
MCEmpty == {}
MCWorkers == Permutations(Worker)
=============================================================================
