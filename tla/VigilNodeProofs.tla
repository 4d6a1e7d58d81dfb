---------------------------- MODULE VigilNodeProofs ----------------------------
(***************************************************************************)
(* That the node signs one chain, answers in agreement with real time,     *)
(* exports what a stranger passes and implements one log, proved for any   *)
(* number of workers, requests and clients.                                *)
(***************************************************************************)
EXTENDS VigilNode, LedgerProofs, SequenceTheorems

-----------------------------------------------------------------------------
(***************************************************************************)
(* One chain: the inductive invariant.                                     *)
(***************************************************************************)

Stage == {"idle", "reading", "locking", "locked", "signing", "responding"}

WorkersOK == stage \in [Worker -> Stage] /\ head \in [Worker -> Obs \cup {None}]

\* Only the holder of the mutex is between Node::lock and the end of a handler.
LockIsHeld == \A w \in Worker : stage[w] \in {"locked", "signing"} => lock = w

\* The head a capture read is still the head of the chain when it appends.
HeadIsFresh == \A w \in Worker : stage[w] = "signing" => head[w] = ChainHead(Me)

NodeInv ==
  /\ TypeOK /\ StoreIsFinite
  /\ WorkersOK
  /\ LockIsHeld
  /\ HeadIsFresh
  /\ NodeKeepsOneChain

-----------------------------------------------------------------------------
(***************************************************************************)
(* The head of a chain.                                                    *)
(***************************************************************************)

\* chain_head of one whole chain is its entry with the highest number.
LEMMA HeadOfOneChain ==
  ASSUME TypeOK, StoreIsFinite, NEW k, OneChain(Entries(k))
  PROVE  /\ ChainHead(k) \in Entries(k)
         /\ \A y \in Entries(k) : seq[y] <= seq[ChainHead(k)]
<1> DEFINE highest == {x \in Entries(k) : seq[x] = Max(Seqs(k))}
<1>1. Entries(k) # {} /\ Entries(k) \subseteq Obs
  BY DEF OneChain, Entries, TypeOK
<1>2. /\ Max(Seqs(k)) \in Seqs(k)
      /\ \A n \in Seqs(k) : n <= Max(Seqs(k))
  BY <1>1, SeqsFinite, LargestExists DEF StoreIsFinite
<1>3. PICK h \in Entries(k) : seq[h] = Max(Seqs(k))
  BY <1>2 DEF Seqs
<1>4. highest = {h}
  BY <1>3 DEF OneChain
<1>5. ChainHead(k) = h
  BY <1>1, <1>3, <1>4, MinOfOne, ObjectsType DEF ChainHead, Id
<1>6. \A y \in Entries(k) : seq[y] \in Seqs(k)
  BY DEF Seqs
<1> QED
  BY <1>2, <1>3, <1>5, <1>6

\* An entry that follows the head of one whole chain makes one whole chain.
LEMMA AppendKeepsOneChain ==
  ASSUME TypeOK, StoreIsFinite, NodeKeepsOneChain,
         NEW x \in Obs, author[x] = Me, prev[x] = ChainHead(Me),
         seq[x] = IF ChainHead(Me) = None THEN 0 ELSE seq[ChainHead(Me)] + 1,
         AppendObservation(x)
  PROVE  NodeKeepsOneChain'
<1>1. /\ observations' = observations \cup {x}
      /\ verified' = FirstSignature(x, TRUE, observations)
      /\ VerifyId(x, TRUE)
  BY DEF AppendObservation, PutObservation
<1>2. Entries(Me)' = Entries(Me) \cup {x}
  BY <1>1 DEF Entries
<1>3. Entries(Me) \subseteq Obs /\ \A y \in Obs : y \in Nat /\ seq[y] \in Nat /\ y # None
  BY ObjectsType DEF TypeOK, Entries, Id
<1>4. CASE Entries(Me) = {}
  <2>1. prev[x] = None /\ seq[x] = 0 /\ x \notin observations
    BY <1>4 DEF ChainHead, Entries
  <2>2. OneChain({x})
    BY <2>1 DEF OneChain
  <2> QED
    BY <1>1, <1>2, <1>4, <2>1, <2>2 DEF NodeKeepsOneChain, FirstSignature, Entries
<1>5. CASE Entries(Me) # {}
  <2> DEFINE h == ChainHead(Me)
  <2>1. OneChain(Entries(Me)) /\ Entries(Me) \subseteq verified
    BY <1>5 DEF NodeKeepsOneChain
  <2>2. h \in Entries(Me) /\ \A y \in Entries(Me) : seq[y] <= seq[h]
    BY <2>1, HeadOfOneChain
  <2>3. prev[x] = h /\ seq[x] = seq[h] + 1
    BY <1>3, <2>2
  <2>4. \A y \in Entries(Me) : seq[y] # seq[x]
    <3> HIDE DEF h
    <3> QED
      BY <1>3, <2>2, <2>3
  <2>5. x \notin observations
    BY <2>4 DEF Entries
  <2>6. OneChain(Entries(Me) \cup {x})
    <3> HIDE DEF h
    <3>1. ASSUME NEW y \in Entries(Me) \cup {x}
          PROVE  IF seq[y] = 0 THEN prev[y] = None
                 ELSE prev[y] \in Entries(Me) \cup {x} /\ seq[prev[y]] + 1 = seq[y]
      <4>1. CASE y \in Entries(Me)
        BY <2>1, <4>1 DEF OneChain
      <4>2. CASE y = x
        BY <1>3, <2>2, <2>3, <4>2
      <4> QED
        BY <4>1, <4>2
    <3>2. ASSUME NEW y \in Entries(Me) \cup {x}, NEW z \in Entries(Me) \cup {x}, seq[y] = seq[z]
          PROVE  y = z
      BY <2>1, <2>4, <3>2 DEF OneChain
    <3> QED
      BY <3>1, <3>2 DEF OneChain
  <2> QED
    BY <1>1, <1>2, <2>1, <2>5, <2>6 DEF NodeKeepsOneChain, FirstSignature
<1> QED
  BY <1>4, <1>5

-----------------------------------------------------------------------------
(***************************************************************************)
(* One chain: the steps of the node.                                       *)
(***************************************************************************)

\* Where the ledger stands still, so do the chain and its head.
LEMMA LedgerUnchanged ==
  ASSUME UNCHANGED vars
  PROVE  /\ TypeOK' <=> TypeOK
         /\ StoreIsFinite' <=> StoreIsFinite
         /\ NodeKeepsOneChain' <=> NodeKeepsOneChain
         /\ ChainHead(Me)' = ChainHead(Me)
  BY DEF vars, TypeOK, StoreIsFinite, NodeKeepsOneChain, ChainHead, Seqs, Entries

\* A worker that moves outside the mutex, or leaves it, disturbs nobody.
LEMMA OutsideKeepsInv ==
  ASSUME NodeInv, UNCHANGED <<vars, head>>, NEW w \in Worker, NEW s \in {"idle", "reading", "locking", "responding"},
         stage' = [stage EXCEPT ![w] = s],
         lock' = lock \/ stage[w] \in {"locked", "signing"}
  PROVE  NodeInv'
<1>1. /\ \A v \in Worker : stage'[v] = IF v = w THEN s ELSE stage[v]
      /\ head' = head
  BY DEF NodeInv, WorkersOK
<1>2. TypeOK' /\ StoreIsFinite' /\ NodeKeepsOneChain' /\ ChainHead(Me)' = ChainHead(Me)
  BY LedgerUnchanged DEF NodeInv
<1>3. WorkersOK'
  BY DEF NodeInv, WorkersOK, Stage
<1>4. LockIsHeld'
  BY <1>1 DEF NodeInv, LockIsHeld
<1>5. HeadIsFresh'
  BY <1>1, <1>2 DEF NodeInv, HeadIsFresh
<1> QED
  BY <1>2, <1>3, <1>4, <1>5 DEF NodeInv

\* Nobody else is at work in the ledger while one worker holds the mutex.
LEMMA AloneInside ==
  ASSUME LockIsHeld, NEW w \in Worker, stage[w] \in {"locked", "signing"},
         NEW v \in Worker, v # w
  PROVE  stage[v] \notin {"locked", "signing"}
  BY DEF LockIsHeld

\* Signing and appending an entry, or having it refused.
LEMMA SigningKeepsInv ==
  ASSUME NodeInv, NEW w \in Worker, SignAndAppend(w)
  PROVE  NodeInv'
<1>1. /\ stage[w] = "signing" /\ head' = head
      /\ \A v \in Worker : stage'[v] = IF v = w THEN "responding" ELSE stage[v]
      /\ stage' = [stage EXCEPT ![w] = "responding"]
  BY DEF SignAndAppend, Finish, NodeInv, WorkersOK
<1>2. PICK x \in Obs :
        /\ author[x] = Me /\ prev[x] = head[w]
        /\ seq[x] = IF head[w] = None THEN 0 ELSE seq[head[w]] + 1
        /\ AppendObservation(x) \/ UNCHANGED vars
  BY DEF SignAndAppend
<1>3. head[w] = ChainHead(Me)
  BY <1>1 DEF NodeInv, HeadIsFresh
<1>4. CASE UNCHANGED vars
  BY <1>1, <1>4, OutsideKeepsInv
<1>5. CASE AppendObservation(x)
  <2>1. NodeKeepsOneChain'
    BY <1>2, <1>3, <1>5, AppendKeepsOneChain DEF NodeInv
  <2>2. TypeOK'
    BY <1>5, PutKeepsType DEF NodeInv, AppendObservation
  <2>3. StoreIsFinite'
    BY <1>5, FS_AddElement DEF NodeInv, AppendObservation, PutObservation, StoreIsFinite
  <2>4. WorkersOK'
    BY <1>1 DEF NodeInv, WorkersOK, Stage
  <2>5. \A v \in Worker : stage'[v] \notin {"locked", "signing"}
    BY <1>1, AloneInside DEF NodeInv
  <2>6. LockIsHeld' /\ HeadIsFresh'
    BY <2>5 DEF LockIsHeld, HeadIsFresh
  <2> QED
    BY <2>1, <2>2, <2>3, <2>4, <2>6 DEF NodeInv
<1> QED
  BY <1>2, <1>4, <1>5

LEMMA NodeInvInit == NodeInit => NodeInv
<1> SUFFICES ASSUME NodeInit PROVE NodeInv
  OBVIOUS
<1>1. Init /\ stage = [w \in Worker |-> "idle"] /\ head = [w \in Worker |-> None]
  BY DEF NodeInit
<1>2. TypeOK /\ StoreIsFinite /\ NodeKeepsOneChain
  BY <1>1, FS_EmptySet DEF Init, TypeOK, StoreIsFinite, NodeKeepsOneChain, Entries
<1> QED
  BY <1>1, <1>2 DEF NodeInv, WorkersOK, Stage, LockIsHeld, HeadIsFresh

LEMMA NodeInvNext == NodeInv /\ [NodeNext]_node => NodeInv'
<1> SUFFICES ASSUME NodeInv, [NodeNext]_node PROVE NodeInv'
  OBVIOUS
<1>1. CASE UNCHANGED <<vars, stage, lock, head>>
  <2>1. WorkersOK' /\ LockIsHeld' /\ HeadIsFresh'
    BY <1>1, LedgerUnchanged DEF NodeInv, WorkersOK, LockIsHeld, HeadIsFresh
  <2> QED
    BY <1>1, <2>1, LedgerUnchanged DEF NodeInv
<1>2. CASE UNCHANGED node
  BY <1>1, <1>2 DEF node, serving
<1>3. ASSUME NEW r \in Request, Send(r)
      PROVE  NodeInv'
  BY <1>1, <1>3 DEF Send
<1>4. ASSUME NEW w \in Worker, Work(w) \/ ReadFails(w)
      PROVE  NodeInv'
  <2>1. CASE Receive(w)
    BY <2>1, OutsideKeepsInv DEF Receive
  <2>2. CASE ReadBody(w)
    <3>1. \/ stage' = [stage EXCEPT ![w] = "responding"]
          \/ stage' = [stage EXCEPT ![w] = "locking"]
      BY <2>2 DEF ReadBody
    <3> QED
      BY <2>2, <3>1, OutsideKeepsInv DEF ReadBody
  <2>3. CASE Acquire(w)
    <3>1. /\ \A v \in Worker : stage'[v] = IF v = w THEN "locked" ELSE stage[v]
          /\ lock = None /\ lock' = w /\ UNCHANGED <<vars, head>>
      BY <2>3 DEF Acquire, LockFree, NodeInv, WorkersOK
    <3>2. \A v \in Worker : stage[v] \notin {"locked", "signing"}
      BY <3>1, NodeAssumption DEF NodeInv, LockIsHeld
    <3>3. WorkersOK'
      BY <2>3, <3>1 DEF Acquire, NodeInv, WorkersOK, Stage
    <3>4. LockIsHeld' /\ HeadIsFresh'
      BY <3>1, <3>2 DEF LockIsHeld, HeadIsFresh
    <3> QED
      BY <3>1, <3>3, <3>4, LedgerUnchanged DEF NodeInv
  <2>4. CASE ReadHead(w)
    <3>1. /\ \A v \in Worker : stage'[v] = IF v = w THEN "signing" ELSE stage[v]
          /\ \A v \in Worker : head'[v] = IF v = w THEN ChainHead(Me) ELSE head[v]
          /\ stage[w] = "locked" /\ lock' = lock /\ UNCHANGED vars
      BY <2>4 DEF ReadHead, NodeInv, WorkersOK
    <3>2. ChainHead(Me) \in Obs \cup {None}
      BY HeadOfOneChain DEF NodeInv, NodeKeepsOneChain, ChainHead, Entries, TypeOK
    <3>3. WorkersOK'
      BY <2>4, <3>1, <3>2 DEF ReadHead, NodeInv, WorkersOK, Stage
    <3>4. LockIsHeld'
      BY <3>1 DEF NodeInv, LockIsHeld
    <3>5. HeadIsFresh'
      BY <3>1, LedgerUnchanged, AloneInside DEF NodeInv, HeadIsFresh
    <3> QED
      BY <3>1, <3>3, <3>4, <3>5, LedgerUnchanged DEF NodeInv
  <2>5. CASE SignAndAppend(w)
    BY <2>5, SigningKeepsInv
  <2>6. CASE Provenance(w)
    BY <2>6, OutsideKeepsInv DEF Provenance, Finish
  <2>7. CASE NodeExport(w)
    <3>1. \E reply : Finish(w, reply)
      BY <2>7 DEF NodeExport
    <3> QED
      BY <2>7, <3>1, OutsideKeepsInv DEF NodeExport, Finish
  <2>8. CASE CountChain(w)
    BY <2>8, OutsideKeepsInv DEF CountChain, Finish
  <2>9. CASE Respond(w)
    <3>1. /\ \A v \in Worker : stage'[v] = IF v = w THEN "idle" ELSE stage[v]
          /\ \A v \in Worker : head'[v] = IF v = w THEN None ELSE head[v]
          /\ lock' = lock /\ UNCHANGED vars
      BY <2>9 DEF Respond, NodeInv, WorkersOK
    <3>2. WorkersOK'
      BY <2>9 DEF Respond, NodeInv, WorkersOK, Stage
    <3>3. LockIsHeld' /\ HeadIsFresh'
      BY <3>1, LedgerUnchanged DEF NodeInv, LockIsHeld, HeadIsFresh
    <3> QED
      BY <3>1, <3>2, <3>3, LedgerUnchanged DEF NodeInv
  <2>10. CASE ReadFails(w)
    BY <2>10, OutsideKeepsInv DEF ReadFails
  <2> QED
    BY <1>4, <2>1, <2>2, <2>3, <2>4, <2>5, <2>6, <2>8, <2>9, <2>10, <2>7 DEF Work
<1> QED
  BY <1>2, <1>3, <1>4 DEF NodeNext

\* Whatever the interleaving of the workers, the node's key signs one chain
\* (Node::capture, Node::lock); this discharges for the node what HonestSigning
\* assumes of the chain of an honest key.
THEOREM OneChainWhateverTheInterleaving == NodeSpec => []NodeKeepsOneChain
<1>1. NodeInv => NodeKeepsOneChain
  BY DEF NodeInv
<1> QED
  BY <1>1, NodeInvInit, NodeInvNext, PTL DEF NodeSpec

-----------------------------------------------------------------------------
(***************************************************************************)
(* Answers: the inductive invariant.                                       *)
(***************************************************************************)

\* a is a true answer to r while the node's chain holds E, if r asks for the
\* ids W and was sent when the captures B were acknowledged as told says.
Truthful(r, a, E, B, W, told) ==
  /\ a.status # 500
  /\ r \in Capture /\ a.status = 201
       => a.id \in E /\ text[a.id] = r /\ a.seq = seq[a.id]
  /\ r \in Capture /\ a.status = 201 => \A q \in B : told[q].seq < a.seq
  /\ r \in Health /\ a.status = 200 => a.chain_len >= Cardinality(B)
  /\ r \in Lookup /\ a.status = 404 => W = {None}
  /\ r \in Lookup /\ a.status = 200 => a.chain = "Verified"

ServingOK ==
  /\ DOMAIN handling = Worker /\ DOMAIN response = Worker
  /\ DOMAIN answer = Request /\ DOMAIN before = Request /\ DOMAIN wanted = Asking

\* A request is in one place: sent, with one worker, or answered.
Placed ==
  /\ inbox \subseteq Request /\ inbox \cap Answered = {}
  /\ \A w \in Worker : stage[w] # "idle" =>
       /\ handling[w] \in Request /\ handling[w] \notin inbox \cup Answered
       /\ \A v \in Worker : v # w /\ stage[v] # "idle" => handling[v] # handling[w]

\* A lookup asks for an id no record has or for one of the node's entries.
AskedFor ==
  \A r \in Lookup : wanted[r] \in {{}, {None}} \/ \E x \in Entries(Me) : wanted[r] = {x}

\* What was acknowledged before a request is acknowledged still.
ToldBefore == \A r \in Request : before[r] \subseteq Acknowledged

AnswersTrue ==
  \A r \in Request : Truthful(r, answer[r], Entries(Me), before[r], wanted[r], answer)

ResponsesTrue ==
  \A w \in Worker : stage[w] = "responding" =>
    Truthful(handling[w], response[w], Entries(Me), before[handling[w]],
             wanted[handling[w]], answer)

AnswersInv ==
  ServingOK /\ Placed /\ AskedFor /\ ToldBefore /\ AnswersTrue /\ ResponsesTrue

-----------------------------------------------------------------------------
(***************************************************************************)
(* Answers: what stays true.                                               *)
(***************************************************************************)

\* A true answer stays true while the chain grows and acknowledgements stand.
LEMMA TruthStays ==
  ASSUME NEW r, NEW a, NEW E, NEW F, NEW B, NEW W, NEW told, NEW retold,
         Truthful(r, a, E, B, W, told), E \subseteq F,
         \A q \in B : retold[q] = told[q]
  PROVE  Truthful(r, a, F, B, W, retold)
  BY DEF Truthful

\* The chain of the node only grows.
LEMMA ChainGrows ==
  ASSUME UNCHANGED vars \/ \E x \in Obs : AppendObservation(x)
  PROVE  Entries(Me) \subseteq Entries(Me)'
  BY DEF vars, AppendObservation, PutObservation, Entries

\* A worker in the middle of a request moves on, with a true response if it is
\* to respond next.
LEMMA InsideKeepsAnswers ==
  ASSUME NodeInv, AnswersInv, NEW w \in Worker, NEW s \in Stage \ {"idle"},
         stage[w] \notin {"idle", "responding"},
         stage' = [stage EXCEPT ![w] = s],
         UNCHANGED <<inbox, handling, answer, wanted, before>>,
         Entries(Me) \subseteq Entries(Me)',
         \/ s # "responding" /\ response' = response
         \/ \E reply :
              /\ response' = [response EXCEPT ![w] = reply]
              /\ Truthful(handling[w], reply, Entries(Me)', before[handling[w]],
                          wanted[handling[w]], answer)
  PROVE  AnswersInv'
<1>1. \A v \in Worker : stage'[v] = IF v = w THEN s ELSE stage[v]
  BY DEF NodeInv, WorkersOK
<1>2. ServingOK' /\ \A v \in Worker : v # w => response'[v] = response[v]
  BY DEF AnswersInv, ServingOK
<1>3. Placed'
  BY <1>1 DEF AnswersInv, Placed, Answered
<1>4. AskedFor' /\ ToldBefore'
  BY DEF AnswersInv, AskedFor, ToldBefore, Acknowledged
<1>5. AnswersTrue'
  BY TruthStays DEF AnswersInv, AnswersTrue
<1>6. ASSUME NEW v \in Worker, stage'[v] = "responding"
      PROVE  Truthful(handling[v], response'[v], Entries(Me)', before[handling[v]],
                      wanted[handling[v]], answer)
  <2>1. CASE v = w
    BY <1>1, <1>6, <2>1 DEF AnswersInv, ServingOK
  <2>2. CASE v # w
    <3>1. Truthful(handling[v], response[v], Entries(Me), before[handling[v]],
                   wanted[handling[v]], answer)
      BY <1>1, <1>6, <2>2 DEF AnswersInv, ResponsesTrue
    <3>2. Truthful(handling[v], response[v], Entries(Me)', before[handling[v]],
                   wanted[handling[v]], answer)
      BY <3>1, TruthStays
    <3> QED
      BY <1>2, <2>2, <3>2
  <2> QED
    BY <2>1, <2>2
<1>7. ResponsesTrue'
  BY <1>6 DEF ResponsesTrue
<1> QED
  BY <1>2, <1>3, <1>4, <1>5, <1>7 DEF AnswersInv

\* A worker answers its request truly and is idle again.
LEMMA AnsweringKeepsAnswers ==
  ASSUME NodeInv, AnswersInv, NEW w \in Worker, stage[w] # "idle", NEW a,
         Truthful(handling[w], a, Entries(Me), before[handling[w]],
                  wanted[handling[w]], answer),
         answer' = [answer EXCEPT ![handling[w]] = a],
         stage' = [stage EXCEPT ![w] = "idle"],
         handling' = [handling EXCEPT ![w] = None],
         response' = response \/ response' = [response EXCEPT ![w] = NoAnswer],
         UNCHANGED <<vars, inbox, wanted, before>>
  PROVE  AnswersInv'
<1> DEFINE r == handling[w]
<1>1. /\ \A v \in Worker : stage'[v] = IF v = w THEN "idle" ELSE stage[v]
      /\ \A v \in Worker : v # w => handling'[v] = handling[v] /\ response'[v] = response[v]
      /\ ServingOK'
      /\ r \in Request /\ r \notin Answered
      /\ \A q \in Request : answer'[q] = IF q = r THEN a ELSE answer[q]
  BY DEF NodeInv, WorkersOK, AnswersInv, ServingOK, Placed
<1> HIDE DEF r
<1>2. Answered' \subseteq Answered \cup {r}
  BY <1>1 DEF Answered
<1>3. Placed'
  <2>1. inbox' = inbox /\ r \notin inbox /\ \A v \in Worker : v # w /\ stage[v] # "idle" => handling[v] # r
    BY DEF AnswersInv, Placed, r
  <2> QED
    BY <1>1, <1>2, <2>1 DEF AnswersInv, Placed
<1>4. Entries(Me)' = Entries(Me)
  BY DEF vars, Entries
<1>5. /\ Acknowledged \subseteq Answered \cap Request
      /\ \A q \in Acknowledged : answer'[q] = answer[q]
      /\ Acknowledged \subseteq Acknowledged'
  <2>1. Acknowledged \subseteq Answered \cap Request
    BY DEF Acknowledged, Answered, NoAnswer, Request
  <2>2. \A q \in Acknowledged : answer'[q] = answer[q]
    BY <1>1, <2>1
  <2> QED
    BY <2>1, <2>2 DEF Acknowledged
<1>6. AskedFor' /\ ToldBefore'
  BY <1>4, <1>5 DEF AnswersInv, AskedFor, ToldBefore
<1>7. \A q \in Request : \A p \in before[q] : answer'[p] = answer[p]
  BY <1>5 DEF AnswersInv, ToldBefore
<1>8. ASSUME NEW q \in Request
      PROVE  Truthful(q, answer'[q], Entries(Me), before[q], wanted[q], answer')
  <2>1. Truthful(q, answer'[q], Entries(Me), before[q], wanted[q], answer)
    BY <1>1 DEF AnswersInv, AnswersTrue, r
  <2> QED
    BY <1>7, <2>1 DEF Truthful
<1>9. ASSUME NEW v \in Worker, stage'[v] = "responding"
      PROVE  Truthful(handling'[v], response'[v], Entries(Me), before[handling'[v]],
                      wanted[handling'[v]], answer')
  <2>1. v # w /\ handling'[v] = handling[v] /\ response'[v] = response[v]
    BY <1>1, <1>9
  <2>2. Truthful(handling[v], response[v], Entries(Me), before[handling[v]],
                 wanted[handling[v]], answer)
    BY <1>1, <1>9, <2>1 DEF AnswersInv, ResponsesTrue
  <2>3. handling[v] \in Request
    BY <1>1, <1>9, <2>1 DEF AnswersInv, Placed
  <2>4. Truthful(handling[v], response[v], Entries(Me), before[handling[v]],
                 wanted[handling[v]], answer')
    BY <1>7, <2>2, <2>3 DEF Truthful
  <2> QED
    BY <2>1, <2>4
<1>10. AnswersTrue' /\ ResponsesTrue'
  BY <1>4, <1>8, <1>9 DEF AnswersTrue, ResponsesTrue
<1> QED
  BY <1>1, <1>3, <1>6, <1>10 DEF AnswersInv

-----------------------------------------------------------------------------
(***************************************************************************)
(* Answers: what the handlers say.                                         *)
(***************************************************************************)

\* The entry that follows the head of the node's chain is not refused, and has
\* a higher number than the whole chain.
LEMMA NextEntryJoins ==
  ASSUME TypeOK, StoreIsFinite, NodeKeepsOneChain,
         NEW x \in Obs, author[x] = Me, prev[x] = ChainHead(Me),
         seq[x] = IF ChainHead(Me) = None THEN 0 ELSE seq[ChainHead(Me)] + 1
  PROVE  JoinsChain(x) /\ \A y \in Entries(Me) : seq[y] < seq[x]
<1> DEFINE h == ChainHead(Me)
<1>1. CASE Entries(Me) = {}
  BY <1>1 DEF ChainHead, JoinsChain
<1>2. CASE Entries(Me) # {}
  <2>1. h \in Entries(Me) /\ \A y \in Entries(Me) : seq[y] <= seq[h]
    BY <1>2, HeadOfOneChain DEF NodeKeepsOneChain
  <2>2. Entries(Me) \subseteq Obs /\ \A y \in Obs : seq[y] \in Nat /\ y # None
    BY ObjectsType DEF TypeOK, Entries, Id
  <2>3. prev[x] = h /\ seq[x] = seq[h] + 1
    BY <2>1, <2>2
  <2> HIDE DEF h
  <2>4. h \in EntriesAt(Me, seq[x] - 1) /\ seq[x] # 0
    BY <2>1, <2>2, <2>3 DEF EntriesAt
  <2> QED
    BY <2>1, <2>2, <2>3, <2>4 DEF JoinsChain
<1> QED
  BY <1>1, <1>2

\* What an acknowledgement says of its capture's entry.
LEMMA AcknowledgedIsRecorded ==
  ASSUME AnswersInv, NEW q \in Acknowledged
  PROVE  /\ answer[q].id \in Entries(Me) /\ text[answer[q].id] = q
         /\ answer[q].seq = seq[answer[q].id]
<1>1. q \in Request /\ q \in Capture /\ answer[q].status = 201
  BY DEF Acknowledged, Request
<1>2. Truthful(q, answer[q], Entries(Me), before[q], wanted[q], answer)
  BY <1>1 DEF AnswersInv, AnswersTrue
<1> QED
  BY <1>1, <1>2 DEF Truthful

\* Captures have entries of their own, so the chain is as long as the captures
\* acknowledged are many.
LEMMA ChainCountsAcknowledged ==
  ASSUME NodeInv, AnswersInv, NEW B \in SUBSET Acknowledged
  PROVE  Cardinality(Entries(Me)) >= Cardinality(B)
<1> DEFINE entry == [q \in B |-> answer[q].id]
<1>1. entry \in [B -> Entries(Me)] /\ \A p, q \in B : entry[p] = entry[q] => p = q
  BY AcknowledgedIsRecorded
<1>2. IsFiniteSet(Entries(Me))
  <2>1. Entries(Me) \in SUBSET observations
    BY DEF Entries
  <2> QED
    BY <2>1, FS_Subset DEF NodeInv, StoreIsFinite
<1>3. entry \in Injection(B, Entries(Me))
  <2> HIDE DEF entry
  <2> QED
    BY <1>1 DEF Injection, IsInjective
<1>4. /\ IsFiniteSet(B) /\ Cardinality(B) <= Cardinality(Entries(Me))
  <2> HIDE DEF entry
  <2> QED
    BY <1>2, <1>3, FS_Injection
<1>5. Cardinality(B) \in Nat /\ Cardinality(Entries(Me)) \in Nat
  BY <1>2, <1>4, FS_CardinalityType
<1> QED
  BY <1>4, <1>5

\* While it is locked, a worker's request is one the invariant speaks of.
LEMMA HandledIsRequest ==
  ASSUME AnswersInv, NEW w \in Worker, stage[w] # "idle"
  PROVE  handling[w] \in Request /\ before[handling[w]] \subseteq Acknowledged
  BY DEF AnswersInv, Placed, ToldBefore

\* Kinds of request exclude each other.
LEMMA KindsDiffer ==
  /\ Capture \cap Lookup = {} /\ Capture \cap Health = {} /\ Lookup \cap Health = {}
  /\ Capture \cap Exporting = {} /\ Lookup \cap Exporting = {} /\ Health \cap Exporting = {}
  BY NodeAssumption DEF Asking

\* SignAndAppend acknowledges with the capture's own entry, above all others.
LEMMA SigningAnswersTruly ==
  ASSUME NodeInv, AnswersInv, NEW w \in Worker, SignAndAppend(w)
  PROVE  /\ Entries(Me) \subseteq Entries(Me)'
         /\ \E reply :
              /\ Finish(w, reply)
              /\ Truthful(handling[w], reply, Entries(Me)', before[handling[w]],
                          wanted[handling[w]], answer)
<1> DEFINE r == handling[w]
<1>1. head[w] = ChainHead(Me) /\ TypeOK /\ StoreIsFinite /\ NodeKeepsOneChain
  BY DEF SignAndAppend, NodeInv, HeadIsFresh
<1>2. PICK x \in Obs :
        /\ author[x] = Me /\ text[x] = r /\ prev[x] = head[w]
        /\ seq[x] = IF head[w] = None THEN 0 ELSE seq[head[w]] + 1
        /\ \/ /\ AppendObservation(x)
              /\ Finish(w, [status |-> 201, id |-> x, seq |-> seq[x]])
           \/ ~JoinsChain(x)
  BY DEF SignAndAppend
<1>3. JoinsChain(x) /\ \A y \in Entries(Me) : seq[y] < seq[x]
  BY <1>1, <1>2, NextEntryJoins
<1>4. AppendObservation(x) /\ Finish(w, [status |-> 201, id |-> x, seq |-> seq[x]])
  BY <1>2, <1>3
<1>5. x \in Entries(Me)' /\ Entries(Me) \subseteq Entries(Me)'
  BY <1>2, <1>4, ChainGrows DEF AppendObservation, PutObservation, Entries
<1>6. \A q \in before[r] : answer[q].seq < seq[x]
  <2>1. before[r] \subseteq Acknowledged
    BY HandledIsRequest DEF SignAndAppend
  <2> QED
    BY <1>3, <2>1, AcknowledgedIsRecorded
<1>7. Truthful(r, [status |-> 201, id |-> x, seq |-> seq[x]], Entries(Me)', before[r],
               wanted[r], answer)
  <2>1. r \in Capture
    BY <1>2, NodeAssumption
  <2> QED
    BY <1>2, <1>5, <1>6, <2>1, KindsDiffer DEF Truthful
<1> QED
  BY <1>4, <1>5, <1>7

\* Provenance finds whatever anybody was told of, on one whole chain.
LEMMA ProvenanceAnswersTruly ==
  ASSUME NodeInv, AnswersInv, NEW w \in Worker, Provenance(w)
  PROVE  \E reply :
           /\ Finish(w, reply)
           /\ Truthful(handling[w], reply, Entries(Me), before[handling[w]],
                       wanted[handling[w]], answer)
<1> DEFINE r == handling[w]
<1>1. PICK x \in wanted[r] :
        Finish(w, IF x \in observations THEN [status |-> 200, chain |-> VerifyChain(author[x])]
                  ELSE [status |-> 404])
  BY DEF Provenance
<1>2. r \in Lookup
  BY DEF Provenance
<1>3. wanted[r] = {None} \/ \E y \in Entries(Me) : wanted[r] = {y}
  BY <1>1, <1>2 DEF AnswersInv, AskedFor
<1>4. CASE wanted[r] = {None}
  <2>1. x \notin observations
    BY <1>1, <1>4, ObjectsType DEF NodeInv, TypeOK
  <2>2. Truthful(r, [status |-> 404], Entries(Me), before[r], wanted[r], answer)
    BY <1>2, <1>4, KindsDiffer DEF Truthful
  <2> QED
    BY <1>1, <2>1, <2>2
<1>5. CASE x \in Entries(Me)
  <2>1. x \in observations /\ author[x] = Me /\ OneChain(Entries(Me))
    BY <1>5 DEF Entries, NodeInv, NodeKeepsOneChain
  <2>2. VerifyChain(author[x]) = "Verified"
    BY <2>1, VerdictIsExact, NodeAssumption DEF NodeInv, VerifiedIsOneChain
  <2>3. Truthful(r, [status |-> 200, chain |-> "Verified"], Entries(Me), before[r], wanted[r], answer)
    BY <1>2, KindsDiffer DEF Truthful
  <2> QED
    BY <1>1, <2>1, <2>2, <2>3
<1> QED
  BY <1>1, <1>3, <1>4, <1>5

\* A refusal of a body, an export and a health check are answered truly.
LEMMA OthersAnswerTruly ==
  ASSUME NodeInv, AnswersInv, NEW w \in Worker, stage[w] # "idle"
  PROVE  /\ \A a : a.status = 400 =>
              Truthful(handling[w], a, Entries(Me), before[handling[w]],
                       wanted[handling[w]], answer)
         /\ handling[w] \in Exporting => \A a : a.status # 500 =>
              Truthful(handling[w], a, Entries(Me), before[handling[w]],
                       wanted[handling[w]], answer)
         /\ handling[w] \in Health =>
              Truthful(handling[w], [status |-> 200, chain_len |-> Cardinality(Entries(Me))],
                       Entries(Me), before[handling[w]], wanted[handling[w]], answer)
<1>1. Cardinality(Entries(Me)) >= Cardinality(before[handling[w]])
  BY HandledIsRequest, ChainCountsAcknowledged
<1> QED
  BY <1>1, KindsDiffer DEF Truthful

-----------------------------------------------------------------------------
(***************************************************************************)
(* Answers: the steps of the node.                                         *)
(***************************************************************************)

LEMMA AnswersInvInit == NodeInit => AnswersInv
<1> SUFFICES ASSUME NodeInit PROVE AnswersInv
  OBVIOUS
<1>1. /\ stage = [w \in Worker |-> "idle"] /\ inbox = {}
      /\ answer = [r \in Request |-> NoAnswer]
      /\ wanted = [r \in Asking |-> {}] /\ before = [r \in Request |-> {}]
      /\ DOMAIN handling = Worker /\ DOMAIN response = Worker
  BY DEF NodeInit
<1>2. AskedFor
  BY <1>1 DEF AskedFor, Asking
<1>3. AnswersTrue
  BY <1>1 DEF AnswersTrue, Truthful, NoAnswer
<1> QED
  BY <1>1, <1>2, <1>3 DEF AnswersInv, ServingOK, Placed, ToldBefore, ResponsesTrue

\* A client sends a request and is told nothing new.
LEMMA SendingKeepsAnswers ==
  ASSUME NodeInv, AnswersInv, NEW r \in Request, Send(r)
  PROVE  AnswersInv'
<1>1. /\ r \notin Sent /\ inbox' = inbox \cup {r}
      /\ before' = [before EXCEPT ![r] = Acknowledged]
      /\ UNCHANGED <<vars, handling, stage, response, answer>>
  BY DEF Send
<1>2. \A q \in Request : before'[q] = IF q = r THEN Acknowledged ELSE before[q]
  BY <1>1 DEF AnswersInv, ServingOK
<1>3. DOMAIN wanted' = Asking /\ \A q \in Lookup : q # r => wanted'[q] = wanted[q]
  <2>1. DOMAIN wanted = Asking /\ Lookup \subseteq Asking
    BY DEF AnswersInv, ServingOK, Asking
  <2>2. wanted' = wanted \/ \E ids : wanted' = [wanted EXCEPT ![r] = ids]
    BY DEF Send
  <2> QED
    BY <2>1, <2>2
<1>4. ServingOK'
  BY <1>1, <1>3 DEF AnswersInv, ServingOK
<1>5. Placed'
  BY <1>1 DEF AnswersInv, Placed, Answered, Sent
<1>6. Entries(Me)' = Entries(Me)
  BY <1>1 DEF vars, Entries
<1>7. AskedFor'
  <2>1. CASE r \in Lookup
    <3>1. PICK x \in Known \cup {None} : wanted' = [wanted EXCEPT ![r] = {x}]
      BY <2>1 DEF Send, Wishes, Asking
    <3>2. wanted'[r] = {x}
      BY <2>1, <3>1 DEF AnswersInv, ServingOK, Asking
    <3>3. x \in Entries(Me) \cup {None}
      BY AcknowledgedIsRecorded DEF Known
    <3> QED
      BY <1>3, <1>6, <3>2, <3>3 DEF AnswersInv, AskedFor
  <2>2. CASE r \notin Lookup
    BY <1>3, <1>6, <2>2 DEF AnswersInv, AskedFor
  <2> QED
    BY <2>1, <2>2
<1>8. ToldBefore'
  BY <1>1, <1>2 DEF AnswersInv, ToldBefore, Acknowledged
<1>9. AnswersTrue'
  <2>1. answer[r] = NoAnswer
    BY <1>1 DEF Sent, Answered
  <2>2. Truthful(r, NoAnswer, Entries(Me), before'[r], wanted'[r], answer)
    BY DEF Truthful, NoAnswer
  <2>3. ASSUME NEW q \in Request, q # r
        PROVE  Truthful(q, answer[q], Entries(Me), before'[q], wanted'[q], answer)
    BY <1>2, <1>3, <2>3 DEF AnswersInv, AnswersTrue, Truthful
  <2> QED
    BY <1>1, <1>6, <2>1, <2>2, <2>3 DEF AnswersTrue
<1>10. ResponsesTrue'
  <2>1. ASSUME NEW w \in Worker, stage[w] = "responding"
        PROVE  handling[w] \in Request /\ handling[w] # r
    BY <1>1, <2>1 DEF AnswersInv, Placed, Sent
  <2> QED
    BY <1>1, <1>2, <1>3, <1>6, <2>1 DEF AnswersInv, ResponsesTrue, Truthful
<1> QED
  BY <1>4, <1>5, <1>7, <1>8, <1>9, <1>10 DEF AnswersInv

\* A worker takes a request out of the queue.
LEMMA ReceivingKeepsAnswers ==
  ASSUME NodeInv, AnswersInv, NEW w \in Worker, Receive(w)
  PROVE  AnswersInv'
<1>1. PICK r \in inbox : inbox' = inbox \ {r} /\ handling' = [handling EXCEPT ![w] = r]
  BY DEF Receive
<1>2. /\ stage[w] = "idle"
      /\ \A v \in Worker : stage'[v] = IF v = w THEN "reading" ELSE stage[v]
      /\ \A v \in Worker : handling'[v] = IF v = w THEN r ELSE handling[v]
      /\ UNCHANGED <<vars, response, answer, wanted, before>>
  BY <1>1 DEF Receive, NodeInv, WorkersOK, AnswersInv, ServingOK
<1>3. ServingOK'
  BY <1>1, <1>2 DEF AnswersInv, ServingOK
<1>4. Placed'
  BY <1>1, <1>2 DEF AnswersInv, Placed, Answered
<1>5. Entries(Me)' = Entries(Me)
  BY <1>2 DEF vars, Entries
<1>6. AskedFor' /\ ToldBefore' /\ AnswersTrue'
  BY <1>2, <1>5 DEF AnswersInv, AskedFor, ToldBefore, Acknowledged, AnswersTrue
<1>7. ResponsesTrue'
  BY <1>2, <1>5 DEF AnswersInv, ResponsesTrue
<1> QED
  BY <1>3, <1>4, <1>6, <1>7 DEF AnswersInv

LEMMA AnswersInvNext == NodeInv /\ AnswersInv /\ [NodeNext]_node => AnswersInv'
<1> SUFFICES ASSUME NodeInv, AnswersInv, [NodeNext]_node PROVE AnswersInv'
  OBVIOUS
<1>1. CASE UNCHANGED node
  BY <1>1 DEF node, serving, vars, AnswersInv, ServingOK, Placed, AskedFor, ToldBefore,
              AnswersTrue, ResponsesTrue, Answered, Acknowledged, Entries
<1>2. ASSUME NEW r \in Request, Send(r)
      PROVE  AnswersInv'
  BY <1>2, SendingKeepsAnswers
<1>3. ASSUME NEW w \in Worker, Work(w) \/ ReadFails(w)
      PROVE  AnswersInv'
  <2> USE DEF Stage
  <2>1. CASE Receive(w)
    BY <2>1, ReceivingKeepsAnswers
  <2>2. CASE ReadBody(w)
    <3>1. stage[w] = "reading" /\ Entries(Me) \subseteq Entries(Me)'
      BY <2>2, ChainGrows DEF ReadBody
    <3>2. \/ stage' = [stage EXCEPT ![w] = "locking"] /\ response' = response
          \/ /\ stage' = [stage EXCEPT ![w] = "responding"]
             /\ response' = [response EXCEPT ![w] = [status |-> 400, error |-> "malformed"]]
      BY <2>2 DEF ReadBody
    <3>3. Entries(Me)' = Entries(Me)
      BY <2>2 DEF ReadBody, vars, Entries
    <3>4. UNCHANGED <<inbox, handling, answer, wanted, before>>
      BY <2>2 DEF ReadBody
    <3>5. Truthful(handling[w], [status |-> 400, error |-> "malformed"], Entries(Me)',
                   before[handling[w]], wanted[handling[w]], answer)
      BY <3>1, <3>3, OthersAnswerTruly
    <3>6. CASE stage' = [stage EXCEPT ![w] = "locking"] /\ response' = response
      BY <3>1, <3>4, <3>6, InsideKeepsAnswers
    <3>7. CASE /\ stage' = [stage EXCEPT ![w] = "responding"]
               /\ response' = [response EXCEPT ![w] = [status |-> 400, error |-> "malformed"]]
      BY <3>1, <3>4, <3>5, <3>7, InsideKeepsAnswers
    <3> QED
      BY <3>2, <3>6, <3>7
  <2>3. CASE Acquire(w)
    BY <2>3, ChainGrows, InsideKeepsAnswers DEF Acquire
  <2>4. CASE ReadHead(w)
    BY <2>4, ChainGrows, InsideKeepsAnswers DEF ReadHead
  <2>5. CASE SignAndAppend(w)
    BY <2>5, SigningAnswersTruly, InsideKeepsAnswers DEF SignAndAppend, Finish
  <2>6. CASE Provenance(w) \/ NodeExport(w) \/ CountChain(w)
    <3>1. Entries(Me)' = Entries(Me) /\ stage[w] = "locked"
      BY <2>6 DEF Provenance, NodeExport, CountChain, vars, Entries
    <3>2. \E reply :
            /\ Finish(w, reply)
            /\ Truthful(handling[w], reply, Entries(Me), before[handling[w]],
                        wanted[handling[w]], answer)
      <4>1. CASE Provenance(w)
        BY <4>1, ProvenanceAnswersTruly
      <4>2. CASE NodeExport(w)
        <5>1. \/ \E p : Finish(w, [status |-> 200, pack |-> p])
              \/ Finish(w, [status |-> 400, error |-> "not held"])
          BY <4>2 DEF NodeExport
        <5>2. \A p : Truthful(handling[w], [status |-> 200, pack |-> p], Entries(Me),
                             before[handling[w]], wanted[handling[w]], answer)
          <6> TAKE p
          <6>1. handling[w] \in Exporting
            BY <4>2 DEF NodeExport
          <6> QED
            BY <6>1, KindsDiffer DEF Truthful
        <5>3. Truthful(handling[w], [status |-> 400, error |-> "not held"], Entries(Me),
                       before[handling[w]], wanted[handling[w]], answer)
          BY <3>1, OthersAnswerTruly
        <5> QED
          BY <5>1, <5>2, <5>3
      <4>3. CASE CountChain(w)
        BY <3>1, <4>3, OthersAnswerTruly DEF CountChain
      <4> QED
        BY <2>6, <4>1, <4>2, <4>3
    <3>3. UNCHANGED <<inbox, handling, answer, wanted, before>>
      BY <2>6 DEF Provenance, NodeExport, CountChain
    <3>4. stage' = [stage EXCEPT ![w] = "responding"]
      BY <3>2 DEF Finish
    <3>5. \E reply : /\ response' = [response EXCEPT ![w] = reply]
                    /\ Truthful(handling[w], reply, Entries(Me)', before[handling[w]],
                                wanted[handling[w]], answer)
      BY <3>1, <3>2 DEF Finish
    <3> QED
      BY <3>1, <3>3, <3>4, <3>5, InsideKeepsAnswers
  <2>7. CASE Respond(w)
    BY <2>7, AnsweringKeepsAnswers DEF Respond, AnswersInv, ResponsesTrue
  <2>8. CASE ReadFails(w)
    BY <2>8, OthersAnswerTruly, AnsweringKeepsAnswers DEF ReadFails
  <2> QED
    BY <1>3, <2>1, <2>2, <2>3, <2>4, <2>5, <2>6, <2>7, <2>8 DEF Work
<1> QED
  BY <1>1, <1>2, <1>3 DEF NodeNext

\* Whatever the interleaving, every answer agrees with what clients had been
\* told when its request was sent (Node::capture, provenance, health, serve).
THEOREM AnswersAgree == NodeSpec => []AnswersAgreeWithRealTime
<1>1. AnswersInv => AnswersAgreeWithRealTime
  BY DEF AnswersInv, AnswersTrue, Truthful, AnswersAgreeWithRealTime, Answered,
         Acknowledged
<1> QED
  BY <1>1, NodeInvInit, NodeInvNext, AnswersInvInit, AnswersInvNext, PTL DEF NodeSpec

-----------------------------------------------------------------------------
(***************************************************************************)
(* Exports: the inductive invariant.                                       *)
(***************************************************************************)

\* p is a file on the records W that carries one whole chain of the node's key,
\* or nothing.
CarriesOneChain(p, W) ==
  /\ p.claims = W /\ W \subseteq p.observations
  /\ p.attestations = {} /\ p.fork_proofs = {} /\ p.good = p.observations
  /\ p.observations \subseteq SignedObs /\ IsFiniteSet(p.observations)
  /\ \A x \in p.observations : author[x] = Me
  /\ p.observations = {} \/ OneChain(p.observations)

\* a is a true answer to an export of the ids W.
ExportTruthful(a, W) ==
  /\ a.status = 200 => CarriesOneChain(a.pack, W)
  /\ a.status # 200 => (a.error = "not held" => None \in W)

\* Nothing but captures ever reaches the node's ledger.
OnlyCaptures == attestations = {} /\ \A x \in observations : author[x] = Me

\* An export asks for entries of the node and for an id no record has.
ExportsAskedFor == \A r \in Exporting : wanted[r] \subseteq Entries(Me) \cup {None}

ExportsTrue == \A r \in Answered \cap Exporting : ExportTruthful(answer[r], wanted[r])

ExportsReady ==
  \A w \in Worker : stage[w] = "responding" /\ handling[w] \in Exporting
    => ExportTruthful(response[w], wanted[handling[w]])

ExportInv == OnlyCaptures /\ ExportsAskedFor /\ ExportsTrue /\ ExportsReady

-----------------------------------------------------------------------------
(***************************************************************************)
(* What an export carries, and what a stranger finds in it.                *)
(***************************************************************************)

\* With nothing attested, a chain is carried as far as the claimed record.
LEMMA CarriedToClaim ==
  ASSUME NEW D, D.attestations = {}, NEW claims \in SUBSET Obs
  PROVE  /\ CarriedAttestations(D, claims) = {}
         /\ CarriedObservations(D, claims) =
              {x \in observations : \E r \in claims : author[x] = author[r] /\ seq[x] <= seq[r]}
<1>1. \A r : Reachable(D, r) = {}
  BY DEF Reachable
<1>2. ASSUME NEW r \in claims PROVE SegmentReach(D, r) = seq[r]
  <2>1. seq[r] \in Nat
    BY ObjectsType
  <2>2. {subject_seq[a] : a \in {x \in Reachable(D, r) : subject[x] = author[r]}} = {}
    BY <1>1
  <2>3. SegmentReach(D, r) = Max({seq[r]})
    BY <2>2 DEF SegmentReach
  <2>4. Max({seq[r]}) \in {seq[r]}
    BY <2>1, FS_Singleton, LargestExists
  <2> QED
    BY <2>3, <2>4
<1> DEFINE segments == {[of |-> r, reach |-> SegmentReach(D, r)] : r \in claims}
           carried == {x \in observations : \E r \in claims : author[x] = author[r] /\ seq[x] <= seq[r]}
<1>3. ASSUME NEW r \in claims
      PROVE  \E s \in segments : s.of = r /\ s.reach = seq[r]
  <2> DEFINE segment == [of |-> r, reach |-> SegmentReach(D, r)]
  <2>1. segment \in segments /\ segment.of = r /\ segment.reach = SegmentReach(D, r)
    OBVIOUS
  <2> HIDE DEF segment, segments
  <2> QED
    BY <1>2, <2>1
<1>4. ASSUME NEW s \in segments
      PROVE  \E r \in claims : s.of = r /\ s.reach = seq[r]
  <2>1. PICK r \in claims : s = [of |-> r, reach |-> SegmentReach(D, r)]
    OBVIOUS
  <2>2. s.of = r /\ s.reach = SegmentReach(D, r)
    BY <2>1
  <2> QED
    BY <1>2, <2>2
<1>5. CarriedObservations(D, claims) = UNION {{x \in Entries(author[s.of]) : seq[x] <= s.reach} : s \in segments}
  BY DEF CarriedObservations
<1> HIDE DEF segments
<1>6. ASSUME NEW x \in CarriedObservations(D, claims) PROVE x \in carried
  <2>1. PICK s \in segments : x \in Entries(author[s.of]) /\ seq[x] <= s.reach
    BY <1>5, <1>6
  <2>2. PICK r \in claims : s.of = r /\ s.reach = seq[r]
    BY <1>4
  <2> QED
    BY <2>1, <2>2 DEF Entries
<1>7. ASSUME NEW x \in carried PROVE x \in CarriedObservations(D, claims)
  <2>1. PICK r \in claims : author[x] = author[r] /\ seq[x] <= seq[r] /\ x \in observations
    BY <1>7
  <2>2. PICK s \in segments : s.of = r /\ s.reach = seq[r]
    BY <1>3
  <2>3. x \in {y \in Entries(author[s.of]) : seq[y] <= s.reach}
    BY <2>1, <2>2 DEF Entries
  <2> QED
    BY <1>5, <2>3
<1>8. CarriedAttestations(D, claims) = {}
  BY <1>1 DEF CarriedAttestations
<1> QED
  BY <1>6, <1>7, <1>8

\* No two entries of one whole chain convict anybody.
LEMMA OneChainIsNoFork ==
  ASSUME TypeOK, OnlyCaptures, NodeKeepsOneChain
  PROVE  DetectForks = {}
<1> SUFFICES ASSUME NEW p \in DetectForks PROVE FALSE
  OBVIOUS
<1>1. PICK x, y \in observations \cap verified : Collide(x, y)
  BY DetectedForkIsCollision
<1>2. x \in Entries(Me) /\ y \in Entries(Me) /\ x # y
  BY <1>1 DEF OnlyCaptures, Entries, Collide
<1>3. OneChain(Entries(Me))
  BY <1>2 DEF NodeKeepsOneChain
<1>4. \A z \in Entries(Me) : z \in Obs /\ z # None /\ seq[z] \in Nat
  BY ObjectsType DEF TypeOK, Entries, Id
<1>5. \A z \in Entries(Me) : IF seq[z] = 0 THEN prev[z] = None
                             ELSE prev[z] \in Entries(Me) /\ seq[prev[z]] + 1 = seq[z]
  BY <1>3 DEF OneChain
<1>6. seq[x] # seq[y]
  BY <1>2, <1>3 DEF OneChain
<1>7. prev[x] = prev[y]
  BY <1>1, <1>6 DEF Collide
<1> QED
  BY <1>2, <1>4, <1>5, <1>6, <1>7

\* What Node::export writes carries one whole chain up to the records asked for.
LEMMA ExportCarriesOneChain ==
  ASSUME NodeInv, OnlyCaptures, NEW claims \in SUBSET observations,
         NEW p \in ExportPack(claims, {})
  PROVE  CarriesOneChain(p, claims)
<1> DEFINE D == BuildFromStore(observations \cup attestations, verified, {})
           O == CarriedObservations(D, claims)
           A == CarriedAttestations(D, claims)
<1>0. TypeOK /\ IsFiniteSet(observations) /\ NodeKeepsOneChain /\ claims \in SUBSET Obs
  BY DEF NodeInv, StoreIsFinite, TypeOK
<1>1. D.attestations = {}
  BY <1>0, ObjectsType DEF BuildFromStore, Build, OnlyCaptures, TypeOK
<1>2. p = PackOf(claims, O, A)
  BY DEF ExportPack
<1> HIDE DEF D
<1>3. /\ A = {}
      /\ O = {x \in observations : \E r \in claims : author[x] = author[r] /\ seq[x] <= seq[r]}
  BY <1>0, <1>1, CarriedToClaim
<1>4. observations = Entries(Me)
  BY DEF OnlyCaptures, Entries
<1> HIDE DEF O, A
<1>5. \A x : x \in O <=> x \in Entries(Me) /\ \E r \in claims : seq[x] <= seq[r]
  BY <1>3, <1>4 DEF Entries
<1>6. \A x \in Entries(Me) : seq[x] \in Nat /\ x \in Obs
  BY <1>0, ObjectsType DEF TypeOK, Entries
<1>7. O = {} \/ OneChain(O)
  <2> SUFFICES ASSUME O # {} PROVE OneChain(O)
    OBVIOUS
  <2>1. OneChain(Entries(Me))
    BY <1>0, <1>5 DEF NodeKeepsOneChain
  <2>2. ASSUME NEW x \in O
        PROVE  IF seq[x] = 0 THEN prev[x] = None ELSE prev[x] \in O /\ seq[prev[x]] + 1 = seq[x]
    <3>1. PICK r \in claims : seq[x] <= seq[r]
      BY <1>5
    <3>2. IF seq[x] = 0 THEN prev[x] = None
          ELSE prev[x] \in Entries(Me) /\ seq[prev[x]] + 1 = seq[x]
      BY <1>5, <2>1 DEF OneChain
    <3>3. r \in Entries(Me)
      BY <1>4
    <3>4. CASE seq[x] = 0
      BY <3>2, <3>4
    <3>5. CASE seq[x] # 0
      <4>1. prev[x] \in Entries(Me) /\ seq[prev[x]] + 1 = seq[x]
        BY <3>2, <3>5
      <4>2. seq[prev[x]] <= seq[r]
        BY <1>5, <1>6, <3>1, <3>3, <4>1
      <4> QED
        BY <1>5, <3>5, <4>1, <4>2
    <3> QED
      BY <3>4, <3>5
  <2>3. \A x, y \in O : seq[x] = seq[y] => x = y
    BY <1>5, <2>1 DEF OneChain
  <2> QED
    BY <2>2, <2>3 DEF OneChain
<1>8. O \subseteq verified /\ O \subseteq SignedObs
  <2>1. O \subseteq verified
    BY <1>0, <1>5 DEF NodeKeepsOneChain
  <2> QED
    BY <1>0, <1>5, <1>6, <2>1, ObjectsType DEF TypeOK
<1>9. IsFiniteSet(O) /\ \A x \in O : author[x] = Me
  <2>1. O \in SUBSET observations
    BY <1>4, <1>5
  <2> QED
    BY <1>0, <1>5, <2>1, FS_Subset DEF Entries
<1>10. claims \subseteq O
  BY <1>4, <1>5, <1>6
<1>11. /\ p.claims = claims /\ p.observations = O /\ p.attestations = {} /\ p.good = O
       /\ p.fork_proofs = {}
  <2>1. CarriedProofs(O, A) = {}
    BY <1>0, OneChainIsNoFork DEF CarriedProofs
  <2>2. (O \cup A) \cap verified = O
    BY <1>3, <1>8
  <2> QED
    BY <1>2, <1>3, <2>1, <2>2 DEF PackOf
<1> QED
  BY <1>7, <1>8, <1>9, <1>10, <1>11 DEF CarriesOneChain

\* A stranger verifies one whole chain.
LEMMA CarriedChainIsWhole ==
  ASSUME NEW O \in SUBSET Obs, IsFiniteSet(O), OneChain(O)
  PROVE  VerifyCarriedChain(O) = "Verified"
<1> DEFINE seqs == {seq[x] : x \in O}
<1>1. /\ \A x \in O : seq[x] \in Nat
      /\ \A x \in O : IF seq[x] = 0 THEN prev[x] = None
                      ELSE prev[x] \in O /\ seq[prev[x]] + 1 = seq[x]
      /\ O # {} /\ ~\E x, y \in O : x # y /\ seq[x] = seq[y]
  BY ObjectsType DEF OneChain
<1>2. \A x \in O : ~BrokenLink(O, x)
  BY <1>1 DEF BrokenLink
<1>3. seqs \in SUBSET Nat /\ IsFiniteSet(seqs) /\ seqs # {}
  <2>1. seqs \in SUBSET Nat /\ seqs # {}
    BY <1>1
  <2>2. [x \in O |-> seq[x]] \in Surjection(O, seqs)
    BY DEF Surjection
  <2> DEFINE number == [x \in O |-> seq[x]]
  <2>3. IsFiniteSet(seqs)
    <3> HIDE DEF seqs, number
    <3>1. number \in Surjection(O, seqs)
      BY <2>2 DEF number
    <3> QED
      BY <3>1, FS_Surjection
  <2> QED
    BY <2>1, <2>3
<1>4. \A n \in seqs : n > 0 => n - 1 \in seqs
  <2> SUFFICES ASSUME NEW x \in O, seq[x] > 0 PROVE \E y \in O : seq[y] = seq[x] - 1
    BY DEF seqs
  <2>1. prev[x] \in O /\ seq[prev[x]] + 1 = seq[x] /\ seq[prev[x]] \in Nat
    BY <1>1
  <2>2. seq[prev[x]] = seq[x] - 1
    BY <1>1, <2>1
  <2> QED
    BY <2>1, <2>2
<1>5. Cardinality(seqs) = Max(seqs) + 1
  <2> HIDE DEF seqs
  <2> QED
    BY <1>3, <1>4, ClosedBelowIsInterval, CountTellsInterval
<1> QED
  BY <1>1, <1>2, <1>5 DEF VerifyCarriedChain

\* A claim that is carried is reported with a bracket.
LEMMA CarriedIsBracketed ==
  ASSUME NEW D, NEW r \in D.observations, NEW discards
  PROVE  /\ ClaimOutcomes(D, r, discards) # {}
         /\ \A c \in ClaimOutcomes(D, r, discards) :
              c.outcome = "Bracketed" /\ c.observation = r
<1> DEFINE outcome(b) == [observation |-> r, outcome |-> "Bracketed", bracket |-> b,
                          below |-> WindowBelow(D, r),
                          fork_proofs_touching |-> ForkProofsTouching(D, b)]
<1>1. ClaimOutcomes(D, r, discards) = {outcome(b) : b \in {ClaimBracket(D, r)}}
  BY DEF ClaimOutcomes
<1>2. \A b : outcome(b).outcome = "Bracketed" /\ outcome(b).observation = r
  OBVIOUS
<1> HIDE DEF outcome
<1> QED
  BY <1>1, <1>2

\* A file that carries one whole chain passes, with what was asked for in it.
LEMMA OneChainPasses ==
  ASSUME NEW p, NEW W, CarriesOneChain(p, W), NEW found \in VerifyPack(p)
  PROVE  /\ found.passed
         /\ {c.observation : c \in found.claims} = W
         /\ \A c \in found.chains : c = [author |-> Me, verdict |-> "Verified"]
<1> DEFINE O == p.observations
           D == BuildCarried(SurvivingObservations(p), SurvivingAttestations(p), Quarantined(p))
           verdicts == {[author |-> k, verdict |-> VerifyCarriedChain({x \in D.observations : author[x] = k})] :
                          k \in {author[x] : x \in D.observations}}
           outcomes == UNION {ClaimOutcomes(D, r, Invalid(p) # {}) : r \in p.claims}
<1>1. /\ SurvivingObservations(p) = O /\ SurvivingAttestations(p) = {}
      /\ Invalid(p) = {} /\ p.claims = W /\ p.fork_proofs = {}
  BY DEF CarriesOneChain, SurvivingObservations, SurvivingAttestations, Invalid, VerifyId
<1>2. D.observations = O /\ D.attestations = {} /\ O \in SUBSET Obs /\ W \subseteq O
  BY <1>1, ObjectsType DEF BuildCarried, CarriesOneChain
<1>3. found = ReportOn(p, D, verdicts, outcomes)
  <2>1. found \in UNION {{ReportOn(p, d,
            {[author |-> k, verdict |-> VerifyCarriedChain({x \in d.observations : author[x] = k})] :
               k \in {author[x] : x \in d.observations}},
            UNION {ClaimOutcomes(d, r, Invalid(p) # {}) : r \in p.claims})} : d \in {D}}
    BY DEF VerifyPack
  <2> HIDE DEF D
  <2> QED
    BY <2>1
<1> HIDE DEF D
<1>4. \A c \in verdicts : c = [author |-> Me, verdict |-> "Verified"]
  <2> SUFFICES ASSUME NEW x \in D.observations
               PROVE  /\ author[x] = Me
                      /\ VerifyCarriedChain({y \in D.observations : author[y] = author[x]}) = "Verified"
    BY DEF verdicts
  <2>1. OneChain(O) /\ IsFiniteSet(O) /\ \A y \in O : author[y] = Me
    BY <1>2 DEF CarriesOneChain
  <2>2. {y \in D.observations : author[y] = author[x]} = O
    BY <1>2, <2>1
  <2> QED
    BY <1>2, <2>1, <2>2, CarriedChainIsWhole
<1>5. Unanchored(D) = {}
  BY <1>2 DEF Unanchored
<1> HIDE DEF verdicts
<1>6. ASSUME NEW r \in W
      PROVE  /\ ClaimOutcomes(D, r, Invalid(p) # {}) # {}
             /\ \A c \in ClaimOutcomes(D, r, Invalid(p) # {}) :
                  c.outcome = "Bracketed" /\ c.observation = r
  BY <1>2, CarriedIsBracketed
<1>7. /\ \A c \in outcomes : c.outcome = "Bracketed"
      /\ {c.observation : c \in outcomes} = W
  BY <1>1, <1>6
<1> HIDE DEF outcomes
<1>8. \A c \in verdicts : c.verdict # "Violated"
  <2> DEFINE whole == [author |-> Me, verdict |-> "Verified"]
  <2>1. whole.verdict = "Verified"
    OBVIOUS
  <2> QED
    BY <1>4, <2>1
<1>9. /\ found.claims = outcomes /\ found.chains = verdicts
      /\ found.passed = (/\ Invalid(p) = {} /\ p.fork_proofs = {}
                         /\ \A c \in verdicts : c.verdict # "Violated"
                         /\ Unanchored(D) = {}
                         /\ \A c \in outcomes : c.outcome = "Bracketed")
  BY <1>3 DEF ReportOn
<1> QED
  BY <1>1, <1>4, <1>5, <1>7, <1>8, <1>9

-----------------------------------------------------------------------------
(***************************************************************************)
(* Exports: the steps.                                                     *)
(***************************************************************************)

\* Node::export answers truly: with one whole chain, or because of an id that
\* no record has.
LEMMA ExportAnswersTruly ==
  ASSUME NodeInv, ExportInv, NEW w \in Worker, NodeExport(w)
  PROVE  \E reply : /\ Finish(w, reply)
                    /\ ExportTruthful(reply, wanted[handling[w]])
<1> DEFINE claims == wanted[handling[w]]
<1>1. CASE ~ claims \subseteq observations
  <2> DEFINE refusal == [status |-> 400, error |-> "not held"]
  <2>1. Finish(w, refusal)
    BY <1>1 DEF NodeExport
  <2>2. None \in claims
    <3>1. handling[w] \in Exporting
      BY DEF NodeExport
    <3> QED
      BY <1>1, <3>1 DEF ExportInv, ExportsAskedFor, Entries
  <2>3. \A e : None \in e => ExportTruthful(refusal, e)
    BY DEF ExportTruthful
  <2> QED
    BY <2>1, <2>2, <2>3
<1>2. CASE claims \subseteq observations
  <2>1. PICK p \in ExportPack(claims, {}) : Finish(w, [status |-> 200, pack |-> p])
    BY <1>2 DEF NodeExport
  <2> DEFINE reply == [status |-> 200, pack |-> p]
  <2>2. CarriesOneChain(p, claims)
    BY <1>2, <2>1, ExportCarriesOneChain DEF ExportInv
  <2>3. reply.status = 200 /\ reply.pack = p
    OBVIOUS
  <2>4. Finish(w, reply)
    BY <2>1
  <2> HIDE DEF reply
  <2>5. ExportTruthful(reply, claims)
    BY <2>2, <2>3 DEF ExportTruthful
  <2> QED
    BY <2>4, <2>5
<1> QED
  BY <1>1, <1>2

LEMMA ExportInvInit == NodeInit => ExportInv
<1> SUFFICES ASSUME NodeInit PROVE ExportInv
  OBVIOUS
<1>1. /\ stage = [w \in Worker |-> "idle"] /\ Init
      /\ answer = [r \in Request |-> NoAnswer] /\ wanted = [r \in Asking |-> {}]
  BY DEF NodeInit
<1>2. OnlyCaptures /\ ExportsAskedFor
  BY <1>1 DEF Init, OnlyCaptures, ExportsAskedFor, Asking
<1>3. ExportsTrue /\ ExportsReady
  BY <1>1 DEF ExportsTrue, ExportsReady, Answered
<1> QED
  BY <1>2, <1>3 DEF ExportInv

\* A worker in the middle of a request moves on, with a true response if it is
\* to respond next.
LEMMA InsideKeepsExports ==
  ASSUME NodeInv, AnswersInv, ExportInv, NEW w \in Worker, NEW s,
         stage' = [stage EXCEPT ![w] = s],
         UNCHANGED <<handling, answer, wanted>>,
         OnlyCaptures', Entries(Me) \subseteq Entries(Me)',
         \/ s # "responding" /\ response' = response
         \/ \E reply :
              /\ response' = [response EXCEPT ![w] = reply]
              /\ handling[w] \in Exporting => ExportTruthful(reply, wanted[handling[w]])
  PROVE  ExportInv'
<1>1. \A v \in Worker : stage'[v] = IF v = w THEN s ELSE stage[v]
  BY DEF NodeInv, WorkersOK
<1>2. ExportsAskedFor' /\ ExportsTrue'
  BY DEF ExportInv, ExportsAskedFor, ExportsTrue, Answered
<1>3. ASSUME NEW v \in Worker, stage'[v] = "responding", handling[v] \in Exporting
      PROVE  ExportTruthful(response'[v], wanted[handling[v]])
  <2>1. CASE v = w
    BY <1>1, <1>3, <2>1 DEF AnswersInv, ServingOK
  <2>2. CASE v # w
    <3>1. stage[v] = "responding" /\ response'[v] = response[v]
      BY <1>1, <1>3, <2>2 DEF AnswersInv, ServingOK
    <3> QED
      BY <1>3, <3>1 DEF ExportInv, ExportsReady
  <2> QED
    BY <2>1, <2>2
<1>4. ExportsReady'
  BY <1>3 DEF ExportsReady
<1> QED
  BY <1>2, <1>4 DEF ExportInv

\* A worker answers its request truly and is idle again.
LEMMA AnsweringKeepsExports ==
  ASSUME NodeInv, AnswersInv, ExportInv, NEW w \in Worker, stage[w] # "idle", NEW a,
         handling[w] \in Exporting => ExportTruthful(a, wanted[handling[w]]),
         answer' = [answer EXCEPT ![handling[w]] = a],
         stage' = [stage EXCEPT ![w] = "idle"],
         handling' = [handling EXCEPT ![w] = None],
         response' = response \/ response' = [response EXCEPT ![w] = NoAnswer],
         UNCHANGED <<vars, wanted>>
  PROVE  ExportInv'
<1>1. /\ \A v \in Worker : stage'[v] = IF v = w THEN "idle" ELSE stage[v]
      /\ \A v \in Worker : v # w => handling'[v] = handling[v] /\ response'[v] = response[v]
      /\ handling[w] \in Request
      /\ \A q \in Request : answer'[q] = IF q = handling[w] THEN a ELSE answer[q]
  BY DEF NodeInv, WorkersOK, AnswersInv, ServingOK, Placed
<1>2. OnlyCaptures' /\ ExportsAskedFor'
  BY DEF vars, ExportInv, OnlyCaptures, ExportsAskedFor, Entries
<1>3. ASSUME NEW q \in Request \cap Exporting, answer'[q] # NoAnswer
      PROVE  ExportTruthful(answer'[q], wanted[q])
  BY <1>1, <1>3 DEF ExportInv, ExportsTrue, Answered
<1>4. ExportsTrue'
  BY <1>3 DEF ExportsTrue, Answered
<1>5. ExportsReady'
  BY <1>1 DEF ExportInv, ExportsReady
<1> QED
  BY <1>2, <1>4, <1>5 DEF ExportInv

\* What is asked for in a request that nobody has received yet, is asked of the
\* ids clients were told.
LEMMA SendingKeepsExports ==
  ASSUME NodeInv, AnswersInv, ExportInv, NEW r \in Request, Send(r)
  PROVE  ExportInv'
<1>1. /\ r \notin Answered /\ UNCHANGED <<vars, handling, stage, response, answer>>
      /\ \A w \in Worker : stage[w] = "responding" => handling[w] # r
  BY DEF Send, Sent
<1>2. DOMAIN wanted = Asking /\ Exporting \subseteq Asking
  BY DEF AnswersInv, ServingOK, Asking
<1>3. \A q \in Exporting : q # r => wanted'[q] = wanted[q]
  <2>1. wanted' = wanted \/ \E ids : wanted' = [wanted EXCEPT ![r] = ids]
    BY DEF Send
  <2> QED
    BY <1>2, <2>1
<1>4. r \in Exporting => wanted'[r] \subseteq Entries(Me) \cup {None}
  <2> SUFFICES ASSUME r \in Exporting PROVE wanted'[r] \subseteq Entries(Me) \cup {None}
    OBVIOUS
  <2>1. r \notin Lookup /\ r \in Asking
    BY KindsDiffer DEF Asking
  <2>2. PICK ids \in Wishes(r) : wanted' = [wanted EXCEPT ![r] = ids]
    BY <2>1 DEF Send
  <2>3. ids \subseteq Known \cup {None}
    BY <2>1, <2>2 DEF Wishes
  <2>4. Known \subseteq Entries(Me)
    BY AcknowledgedIsRecorded DEF Known
  <2> QED
    BY <1>2, <2>1, <2>2, <2>3, <2>4
<1>5. OnlyCaptures' /\ Entries(Me)' = Entries(Me)
  BY <1>1 DEF vars, ExportInv, OnlyCaptures, Entries
<1>6. ExportsAskedFor'
  BY <1>3, <1>4, <1>5 DEF ExportInv, ExportsAskedFor
<1>7. ExportsTrue' /\ ExportsReady'
  BY <1>1, <1>3 DEF ExportInv, ExportsTrue, ExportsReady, Answered
<1> QED
  BY <1>5, <1>6, <1>7 DEF ExportInv

LEMMA ExportInvNext ==
  NodeInv /\ AnswersInv /\ ExportInv /\ [NodeNext]_node => ExportInv'
<1> SUFFICES ASSUME NodeInv, AnswersInv, ExportInv, [NodeNext]_node PROVE ExportInv'
  OBVIOUS
<1>1. CASE UNCHANGED node
  BY <1>1 DEF node, serving, vars, ExportInv, OnlyCaptures, ExportsAskedFor, ExportsTrue,
              ExportsReady, Answered, Entries
<1>2. ASSUME NEW r \in Request, Send(r)
      PROVE  ExportInv'
  BY <1>2, SendingKeepsExports
<1>3. ASSUME NEW w \in Worker, Work(w) \/ ReadFails(w)
      PROVE  ExportInv'
  <2>1. UNCHANGED vars => OnlyCaptures' /\ Entries(Me) \subseteq Entries(Me)'
    BY DEF vars, ExportInv, OnlyCaptures, Entries
  <2>2. \A e : ExportTruthful([status |-> 400, error |-> "malformed"], e)
               /\ ExportTruthful([status |-> 400, error |-> "unread"], e)
    BY DEF ExportTruthful
  <2>3. CASE Receive(w)
    <3>1. /\ \A v \in Worker : stage'[v] = IF v = w THEN "reading" ELSE stage[v]
          /\ \A v \in Worker : v # w => handling'[v] = handling[v]
          /\ UNCHANGED <<vars, response, answer, wanted>>
      BY <2>3 DEF Receive, NodeInv, WorkersOK, AnswersInv, ServingOK
    <3> QED
      BY <2>1, <3>1 DEF ExportInv, ExportsAskedFor, ExportsTrue, ExportsReady, Answered
  <2>4. CASE ReadBody(w)
    <3>1. UNCHANGED <<vars, handling, answer, wanted>>
      BY <2>4 DEF ReadBody
    <3>2. \/ stage' = [stage EXCEPT ![w] = "locking"] /\ response' = response
          \/ /\ stage' = [stage EXCEPT ![w] = "responding"]
             /\ response' = [response EXCEPT ![w] = [status |-> 400, error |-> "malformed"]]
      BY <2>4 DEF ReadBody
    <3> QED
      BY <2>1, <2>2, <3>1, <3>2, InsideKeepsExports
  <2>5. CASE Acquire(w)
    BY <2>1, <2>5, InsideKeepsExports DEF Acquire
  <2>6. CASE ReadHead(w)
    BY <2>1, <2>6, InsideKeepsExports DEF ReadHead
  <2>7. CASE SignAndAppend(w)
    <3>1. PICK x, reply :
            /\ x \in Obs /\ author[x] = Me /\ text[x] = handling[w]
            /\ AppendObservation(x) \/ UNCHANGED vars
            /\ Finish(w, reply)
      BY <2>7 DEF SignAndAppend
    <3>2. handling[w] \notin Exporting
      BY <3>1, NodeAssumption, KindsDiffer
    <3>3. OnlyCaptures' /\ Entries(Me) \subseteq Entries(Me)'
      BY <2>1, <3>1, ChainGrows DEF ExportInv, OnlyCaptures, AppendObservation, PutObservation
    <3> QED
      BY <2>7, <3>1, <3>2, <3>3, InsideKeepsExports DEF SignAndAppend, Finish
  <2>8. CASE Provenance(w) \/ CountChain(w)
    <3>1. /\ UNCHANGED <<vars, handling, answer, wanted>>
          /\ handling[w] \notin Exporting
      BY <2>8, KindsDiffer DEF Provenance, CountChain
    <3>2. \E reply : Finish(w, reply)
      BY <2>8 DEF Provenance, CountChain
    <3> QED
      BY <2>1, <3>1, <3>2, InsideKeepsExports DEF Finish
  <2>9. CASE NodeExport(w)
    BY <2>1, <2>9, ExportAnswersTruly, InsideKeepsExports DEF NodeExport, Finish
  <2>10. CASE Respond(w)
    BY <2>10, AnsweringKeepsExports DEF Respond, ExportInv, ExportsReady
  <2>11. CASE ReadFails(w)
    BY <2>2, <2>11, AnsweringKeepsExports DEF ReadFails
  <2> QED
    BY <1>3, <2>3, <2>4, <2>5, <2>6, <2>7, <2>8, <2>9, <2>10, <2>11 DEF Work
<1> QED
  BY <1>1, <1>2, <1>3 DEF NodeNext

\* A stranger passes whatever the node exports, with the records asked for on
\* one whole chain, for any number of workers, captures and exports and whatever
\* their interleaving (Node::export, export_pack, vigil-verify verify).
THEOREM StrangersAlwaysPassExports == NodeSpec => []StrangersPassExports
<1>1. ExportInv => StrangersPassExports
  <2> SUFFICES ASSUME ExportInv, NEW r \in Answered \cap Exporting
               PROVE  IF answer[r].status = 200
                      THEN \A found \in VerifyPack(answer[r].pack) :
                             /\ found.passed
                             /\ {c.observation : c \in found.claims} = wanted[r]
                             /\ \A c \in found.chains : c = [author |-> Me, verdict |-> "Verified"]
                      ELSE answer[r].error = "not held" => None \in wanted[r]
    BY DEF StrangersPassExports
  <2>1. ExportTruthful(answer[r], wanted[r])
    BY DEF ExportInv, ExportsTrue
  <2>2. CASE answer[r].status = 200
    <3>1. CarriesOneChain(answer[r].pack, wanted[r])
      BY <2>1, <2>2 DEF ExportTruthful
    <3> QED
      BY <2>2, <3>1, OneChainPasses
  <2>3. CASE answer[r].status # 200
    BY <2>1, <2>3 DEF ExportTruthful
  <2> QED
    BY <2>2, <2>3
<1> QED
  BY <1>1, NodeInvInit, NodeInvNext, AnswersInvInit, AnswersInvNext, ExportInvInit,
     ExportInvNext, PTL DEF NodeSpec

-----------------------------------------------------------------------------
(***************************************************************************)
(* The node's workers together implement the log its clients are promised: *)
(* the inductive invariant.                                                *)
(***************************************************************************)

\* A text that is in the chain belongs to a capture that is answered, or that a
\* worker is about to answer: no worker will sign it again.
RecordedOnce ==
  \A x \in Entries(Me) :
    \/ text[x] \in Answered
    \/ \E w \in Worker : /\ stage[w] = "responding" /\ handling[w] = text[x]
                         /\ response[w].status # 0

LogInv == NodeInv /\ AnswersInv /\ RecordedOnce

\* The place each capture was told it has (what Log puts for acknowledged).
Told == [r \in Capture |-> IF answer[r].status = 201 THEN answer[r].seq + 1 ELSE 0]

-----------------------------------------------------------------------------
(***************************************************************************)
(* The chain as a log.                                                     *)
(***************************************************************************)

\* The numbers of the node's chain are those below how many there are.
Gapless ==
  Cardinality(Seqs(Me)) \in Nat /\ Seqs(Me) = 0 .. Cardinality(Seqs(Me)) - 1

LEMMA ChainIsGapless == TypeOK /\ StoreIsFinite /\ NodeKeepsOneChain => Gapless
<1> SUFFICES ASSUME TypeOK, StoreIsFinite, NodeKeepsOneChain PROVE Gapless
  OBVIOUS
<1> USE DEF Gapless
<1>1. Seqs(Me) \in SUBSET Nat /\ IsFiniteSet(Seqs(Me))
  BY SeqsFinite DEF StoreIsFinite
<1>2. CASE Entries(Me) = {}
  <2>1. Seqs(Me) = {}
    BY <1>2 DEF Seqs
  <2>2. Cardinality(Seqs(Me)) = 0
    BY <2>1, FS_EmptySet
  <2> QED
    BY <2>1, <2>2
<1>3. CASE Entries(Me) # {}
  <2>1. VerifyChain(Me) = "Verified"
    BY <1>3, VerdictIsExact, NodeAssumption DEF NodeKeepsOneChain, VerifiedIsOneChain
  <2>2. Whole(Me)
    BY <1>3, <2>1 DEF VerifyChain
  <2>3. Seqs(Me) # {}
    BY <1>3 DEF Seqs
  <2>4. Seqs(Me) = 0 .. Max(Seqs(Me)) /\ Max(Seqs(Me)) \in Nat
    BY <1>1, <2>2, <2>3, CountTellsInterval, LargestExists DEF Whole
  <2> HIDE DEF Max
  <2> QED
    BY <2>2, <2>4 DEF Whole
<1> QED
  BY <1>2, <1>3

\* Recorded is the log of the chain's texts.
IsLog ==
  /\ Recorded \in Seq(Capture) /\ Len(Recorded) = Cardinality(Seqs(Me))
  /\ \A x \in Entries(Me) : /\ seq[x] + 1 \in 1 .. Len(Recorded)
                            /\ Recorded[seq[x] + 1] = text[x]
  /\ \A n \in 1 .. Len(Recorded) : \E x \in Entries(Me) : seq[x] = n - 1

LEMMA ChainIsLog == TypeOK /\ StoreIsFinite /\ NodeKeepsOneChain => IsLog
<1> SUFFICES ASSUME TypeOK, StoreIsFinite, NodeKeepsOneChain PROVE IsLog
  OBVIOUS
<1> DEFINE N == Cardinality(Seqs(Me))
<1>1. N \in Nat /\ Seqs(Me) = 0 .. N - 1
  BY ChainIsGapless DEF Gapless
<1>2. \A x \in Entries(Me) : x \in Obs /\ x \in Nat /\ seq[x] \in Nat /\ text[x] \in Capture
  BY ObjectsType, NodeAssumption DEF TypeOK, Entries, Id
<1>3. ASSUME NEW x \in Entries(Me)
      PROVE  /\ EntriesAt(Me, seq[x]) # {}
             /\ Min(EntriesAt(Me, seq[x])) = x
  <2>1. EntriesAt(Me, seq[x]) = {x}
    BY DEF EntriesAt, NodeKeepsOneChain, OneChain
  <2> QED
    BY <1>2, <2>1, MinOfOne
<1>4. \A n \in 1 .. N : \E x \in Entries(Me) : seq[x] = n - 1
  <2> SUFFICES ASSUME NEW n \in 1 .. N PROVE n - 1 \in Seqs(Me)
    BY DEF Seqs
  <2> HIDE DEF N
  <2> QED
    BY <1>1
<1>5. \A x \in Entries(Me) : seq[x] + 1 \in 1 .. N
  <2> HIDE DEF N
  <2>1. \A x \in Entries(Me) : seq[x] \in 0 .. N - 1
    BY <1>1 DEF Seqs
  <2> QED
    BY <1>1, <2>1
<1>6. Recorded = [n \in 1 .. N |-> IF EntriesAt(Me, n - 1) = {} THEN None
                                   ELSE text[Min(EntriesAt(Me, n - 1))]]
  BY DEF Recorded
<1> HIDE DEF N
<1>7. \A x \in Entries(Me) : Recorded[seq[x] + 1] = text[x]
  <2> SUFFICES ASSUME NEW x \in Entries(Me) PROVE Recorded[seq[x] + 1] = text[x]
    OBVIOUS
  <2>1. (seq[x] + 1) - 1 = seq[x]
    BY <1>2
  <2> QED
    BY <1>3, <1>5, <1>6, <2>1
<1>8. \A n \in 1 .. N : Recorded[n] \in Capture
  <2> SUFFICES ASSUME NEW n \in 1 .. N PROVE Recorded[n] \in Capture
    OBVIOUS
  <2>1. PICK x \in Entries(Me) : seq[x] = n - 1
    BY <1>4
  <2>2. seq[x] + 1 = n
    BY <1>1, <2>1
  <2> QED
    BY <1>2, <1>7, <2>2
<1>9. Recorded \in Seq(Capture) /\ Len(Recorded) = N
  <2>1. Recorded \in [1 .. N -> Capture]
    BY <1>6, <1>8
  <2> QED
    BY <1>1, <2>1
<1> QED
  BY <1>4, <1>5, <1>7, <1>9 DEF N, IsLog

\* Appending the entry that follows the head appends its text to the log.
LEMMA AppendingAppends ==
  ASSUME TypeOK, StoreIsFinite, NodeKeepsOneChain, TypeOK', StoreIsFinite', NodeKeepsOneChain',
         NEW x \in Obs, author[x] = Me, observations' = observations \cup {x},
         \A y \in Entries(Me) : seq[y] # seq[x]
  PROVE  Recorded' = Append(Recorded, text[x])
<1> DEFINE N == Cardinality(Seqs(Me))
<1>1. N \in Nat /\ Seqs(Me) = 0 .. N - 1 /\ IsFiniteSet(Seqs(Me))
  BY ChainIsGapless, SeqsFinite DEF Gapless, StoreIsFinite
<1>2. Entries(Me)' = Entries(Me) \cup {x}
  BY DEF Entries
<1>3. Seqs(Me)' = Seqs(Me) \cup {seq[x]} /\ seq[x] \notin Seqs(Me)
  BY <1>2 DEF Seqs
<1>4. Cardinality(Seqs(Me) \cup {seq[x]}) = N + 1
  BY <1>1, <1>3, FS_AddElement
<1>5. Gapless' /\ IsLog'
  BY ChainIsGapless, ChainIsLog, PTL
<1>6. Seqs(Me)' = 0 .. N
  <2> HIDE DEF N
  <2>1. Seqs(Me)' = 0 .. Cardinality(Seqs(Me)') - 1
    BY <1>5 DEF Gapless
  <2>2. Cardinality(Seqs(Me)') = N + 1
    BY <1>3, <1>4
  <2>3. (N + 1) - 1 = N
    BY <1>1
  <2> QED
    BY <2>1, <2>2, <2>3
<1>7. seq[x] = N
  <2> HIDE DEF N
  <2> QED
    BY <1>1, <1>3, <1>6
<1>8. /\ Recorded \in Seq(Capture) /\ Len(Recorded) = N
      /\ Recorded' \in Seq(Capture) /\ Len(Recorded') = N + 1
  BY <1>3, <1>4, <1>5, ChainIsLog DEF IsLog
<1>9. Recorded'[N + 1] = text[x]
  BY <1>2, <1>5, <1>7 DEF IsLog
<1>10. ASSUME NEW n \in 1 .. N PROVE Recorded'[n] = Recorded[n]
  <2> HIDE DEF N
  <2>1. PICK y \in Entries(Me) : seq[y] = n - 1
    BY <1>8, ChainIsLog DEF IsLog
  <2>2. n = seq[y] + 1
    BY <1>1, <2>1
  <2> QED
    BY <1>2, <1>5, <2>2, ChainIsLog DEF IsLog
<1>11. text[x] \in Capture
  BY NodeAssumption
<1> HIDE DEF N
<1> QED
  BY <1>1, <1>8, <1>9, <1>10, <1>11, AppendProperties, SeqEqual

-----------------------------------------------------------------------------
(***************************************************************************)
(* No capture is recorded twice.                                           *)
(***************************************************************************)

\* Where no entry is added, answered captures stay answered, and the others'
\* workers keep their responses.
LEMMA StandingChainKeepsRecorded ==
  ASSUME LogInv, Entries(Me)' = Entries(Me), Answered \subseteq Answered',
         \A v \in Worker : stage[v] = "responding" /\ response[v].status # 0 =>
           \/ handling[v] \in Answered'
           \/ UNCHANGED <<stage[v], handling[v], response[v]>>
  PROVE  RecordedOnce'
<1> SUFFICES ASSUME NEW x \in Entries(Me)
             PROVE  \/ text[x] \in Answered'
                    \/ \E w \in Worker : /\ stage'[w] = "responding" /\ handling'[w] = text[x]
                                         /\ response'[w].status # 0
  BY DEF RecordedOnce
<1>1. CASE text[x] \in Answered
  BY <1>1
<1>2. CASE text[x] \notin Answered
  <2>1. PICK w \in Worker : /\ stage[w] = "responding" /\ handling[w] = text[x]
                            /\ response[w].status # 0
    BY <1>2 DEF LogInv, RecordedOnce
  <2> QED
    BY <2>1
<1> QED
  BY <1>1, <1>2

\* The worker that answers is the only one that serves its request.
LEMMA AnsweringKeepsRecorded ==
  ASSUME LogInv, NEW w \in Worker, stage[w] # "idle", NEW a,
         answer' = [answer EXCEPT ![handling[w]] = a],
         stage' = [stage EXCEPT ![w] = "idle"],
         handling' = [handling EXCEPT ![w] = None],
         response' = response \/ response' = [response EXCEPT ![w] = NoAnswer],
         stage[w] = "responding" /\ response[w].status # 0 => a # NoAnswer,
         UNCHANGED vars
  PROVE  RecordedOnce'
<1>1. handling[w] \in Request /\ handling[w] \notin Answered
  BY DEF LogInv, AnswersInv, Placed
<1>2. \A q \in Request : answer'[q] = IF q = handling[w] THEN a ELSE answer[q]
  BY DEF LogInv, AnswersInv, ServingOK
<1>3. Answered \subseteq Answered'
  BY <1>1, <1>2 DEF Answered
<1>4. stage[w] = "responding" /\ response[w].status # 0 => handling[w] \in Answered'
  BY <1>1, <1>2 DEF Answered
<1>5. \A v \in Worker : v # w => UNCHANGED <<stage[v], handling[v], response[v]>>
  BY DEF LogInv, NodeInv, WorkersOK, AnswersInv, ServingOK
<1>6. Entries(Me)' = Entries(Me)
  BY DEF vars, Entries
<1> QED
  BY <1>3, <1>4, <1>5, <1>6, StandingChainKeepsRecorded

\* Signing: the text of the new entry is in no entry yet, and its worker will
\* acknowledge it.
LEMMA SigningRecordsOnce ==
  ASSUME LogInv, NEW w \in Worker, SignAndAppend(w)
  PROVE  /\ RecordedOnce'
         /\ \E x \in Obs :
              /\ author[x] = Me /\ observations' = observations \cup {x}
              /\ \A y \in Entries(Me) : seq[y] # seq[x] /\ text[y] # text[x]
<1>1. stage[w] = "signing" /\ head[w] = ChainHead(Me)
      /\ TypeOK /\ StoreIsFinite /\ NodeKeepsOneChain
  BY DEF SignAndAppend, LogInv, NodeInv, HeadIsFresh
<1>2. PICK x \in Obs :
        /\ author[x] = Me /\ text[x] = handling[w] /\ prev[x] = head[w]
        /\ seq[x] = IF head[w] = None THEN 0 ELSE seq[head[w]] + 1
        /\ \/ /\ AppendObservation(x)
              /\ Finish(w, [status |-> 201, id |-> x, seq |-> seq[x]])
           \/ ~JoinsChain(x)
  BY DEF SignAndAppend
<1>3. JoinsChain(x) /\ \A y \in Entries(Me) : seq[y] < seq[x]
  BY <1>1, <1>2, NextEntryJoins
<1>4. observations' = observations \cup {x} /\ Finish(w, [status |-> 201, id |-> x, seq |-> seq[x]])
  BY <1>2, <1>3 DEF AppendObservation, PutObservation
<1>5. \A y \in Entries(Me) : seq[y] # seq[x]
  <2>1. \A y \in Obs : seq[y] \in Nat
    BY ObjectsType
  <2> QED
    BY <1>1, <1>3, <2>1 DEF Entries, TypeOK
<1>6. ASSUME NEW y \in Entries(Me) PROVE text[y] # text[x]
  <2>1. handling[w] \notin Answered
        /\ \A v \in Worker : stage[v] = "responding" => handling[v] # handling[w]
    BY <1>1 DEF LogInv, AnswersInv, Placed
  <2> QED
    BY <1>2, <2>1 DEF LogInv, RecordedOnce
<1>7. Entries(Me)' = Entries(Me) \cup {x}
  BY <1>2, <1>4 DEF Entries
<1>8. /\ stage'[w] = "responding" /\ handling' = handling
      /\ response'[w] = [status |-> 201, id |-> x, seq |-> seq[x]]
      /\ \A v \in Worker : v # w => stage'[v] = stage[v] /\ response'[v] = response[v]
      /\ Answered' = Answered
  BY <1>4 DEF Finish, SignAndAppend, LogInv, NodeInv, WorkersOK, AnswersInv, ServingOK, Answered
<1>9. RecordedOnce'
  <2> SUFFICES ASSUME NEW y \in Entries(Me) \cup {x}
               PROVE  \/ text[y] \in Answered
                      \/ \E v \in Worker : /\ stage'[v] = "responding" /\ handling[v] = text[y]
                                           /\ response'[v].status # 0
    BY <1>7, <1>8 DEF RecordedOnce
  <2>1. CASE y = x
    BY <1>2, <1>8, <2>1
  <2>2. CASE y \in Entries(Me)
    <3>1. CASE text[y] \in Answered
      BY <3>1
    <3>2. CASE text[y] \notin Answered
      <4>1. PICK v \in Worker : /\ stage[v] = "responding" /\ handling[v] = text[y]
                                /\ response[v].status # 0
        BY <2>2, <3>2 DEF LogInv, RecordedOnce
      <4> QED
        BY <1>1, <1>8, <4>1
    <3> QED
      BY <3>1, <3>2
  <2> QED
    BY <2>1, <2>2
<1> QED
  BY <1>2, <1>4, <1>5, <1>6, <1>9

-----------------------------------------------------------------------------
(***************************************************************************)
(* The steps of the node as steps of the log.                              *)
(***************************************************************************)

\* Where the ledger stands still, so does the log.
LEMMA LogStands ==
  ASSUME UNCHANGED vars
  PROVE  Recorded' = Recorded /\ Entries(Me)' = Entries(Me)
  BY DEF vars, Recorded, Seqs, EntriesAt, Entries

\* Signing records the capture.
LEMMA SigningIsRecord ==
  ASSUME LogInv, NodeInv', NEW w \in Worker, SignAndAppend(w)
  PROVE  \E r \in Capture : Log!Record(r)
<1>1. PICK x \in Obs :
        /\ author[x] = Me /\ observations' = observations \cup {x}
        /\ \A y \in Entries(Me) : seq[y] # seq[x] /\ text[y] # text[x]
  BY SigningRecordsOnce
<1>2. Recorded' = Append(Recorded, text[x])
  BY <1>1, AppendingAppends DEF LogInv, NodeInv
<1>3. \A n \in 1 .. Len(Recorded) : Recorded[n] # text[x]
  <2>1. IsLog
    BY ChainIsLog DEF LogInv, NodeInv
  <2> SUFFICES ASSUME NEW n \in 1 .. Len(Recorded) PROVE Recorded[n] # text[x]
    OBVIOUS
  <2>2. PICK y \in Entries(Me) : seq[y] = n - 1
    BY <2>1 DEF IsLog
  <2>3. seq[y] + 1 = n
    BY <2>1, <2>2 DEF IsLog
  <2> QED
    BY <1>1, <2>1, <2>3 DEF IsLog
<1>4. Told' = Told
  BY DEF Told, SignAndAppend
<1>5. text[x] \in Capture
  BY NodeAssumption
<1> QED
  BY <1>2, <1>3, <1>4, <1>5 DEF Log!Record, Told

\* An answer is the acknowledgement of a capture with its place in the log, or
\* nothing the log knows of.
LEMMA AnsweringIsAcknowledge ==
  ASSUME LogInv, NEW w \in Worker, stage[w] # "idle", NEW a,
         Truthful(handling[w], a, Entries(Me), before[handling[w]],
                  wanted[handling[w]], answer),
         answer' = [answer EXCEPT ![handling[w]] = a], UNCHANGED vars
  PROVE  (\E r \in Capture : Log!Acknowledge(r)) \/ UNCHANGED <<Recorded, Told>>
<1> DEFINE r == handling[w]
<1>1. r \in Request /\ r \notin Answered
  BY DEF LogInv, AnswersInv, Placed
<1>2. \A q \in Request : answer'[q] = IF q = r THEN a ELSE answer[q]
  BY DEF LogInv, AnswersInv, ServingOK
<1>3. answer[r].status = 0
  BY <1>1 DEF Answered, NoAnswer
<1>4. Capture \subseteq Request
  BY DEF Request
<1>5. CASE r \in Capture /\ a.status = 201
  <2>1. a.id \in Entries(Me) /\ text[a.id] = r /\ a.seq = seq[a.id]
    BY <1>5 DEF Truthful
  <2>2. a.seq + 1 \in 1 .. Len(Recorded) /\ Recorded[a.seq + 1] = r
    BY <2>1, ChainIsLog DEF IsLog, LogInv, NodeInv
  <2>3. Told[r] = 0
    BY <1>3, <1>5 DEF Told
  <2>4. Told' = [Told EXCEPT ![r] = a.seq + 1]
    <3> HIDE DEF r
    <3>1. Told' = [q \in Capture |-> IF answer'[q].status = 201 THEN answer'[q].seq + 1 ELSE 0]
      BY DEF Told
    <3>2. answer'[r].status = 201 /\ answer'[r].seq = a.seq
      BY <1>1, <1>2, <1>5
    <3>3. \A q \in Capture : q # r => answer'[q] = answer[q]
      BY <1>2, <1>4
    <3>4. \A q \in Capture : (IF answer'[q].status = 201 THEN answer'[q].seq + 1 ELSE 0)
                             = IF q = r THEN a.seq + 1 ELSE Told[q]
      BY <3>2, <3>3 DEF Told
    <3>5. Told' = [q \in Capture |-> IF q = r THEN a.seq + 1 ELSE Told[q]]
      BY <3>1, <3>4
    <3>6. [Told EXCEPT ![r] = a.seq + 1] = [q \in Capture |-> IF q = r THEN a.seq + 1 ELSE Told[q]]
      BY DEF Told
    <3> QED
      BY <3>5, <3>6
  <2>5. \E n \in 1 .. Len(Recorded) : Recorded[n] = r /\ Told' = [Told EXCEPT ![r] = n]
    BY <2>2, <2>4
  <2>6. ASSUME NEW q \in Capture, q = r PROVE Log!Acknowledge(q)
    <3> HIDE DEF r
    <3> QED
      BY <2>3, <2>5, <2>6, LogStands DEF Log!Acknowledge, Told
  <2> QED
    BY <1>5, <2>6
<1>6. CASE ~(r \in Capture /\ a.status = 201)
  <2>1. \A q \in Capture : /\ answer'[q].status = 201 <=> answer[q].status = 201
                           /\ answer'[q].status = 201 => answer'[q].seq = answer[q].seq
    BY <1>2, <1>3, <1>4, <1>6
  <2> QED
    BY <2>1, LogStands DEF Told
<1> QED
  BY <1>5, <1>6

\* Every step of the node is one step of the log or none.
LEMMA NodeStepIsLogStep ==
  LogInv /\ NodeInv' /\ [NodeNext]_node
    => RecordedOnce' /\ (Log!Next \/ UNCHANGED <<Recorded, Told>>)
<1> SUFFICES ASSUME LogInv, NodeInv', [NodeNext]_node
             PROVE  RecordedOnce' /\ (Log!Next \/ UNCHANGED <<Recorded, Told>>)
  OBVIOUS
<1>1. ASSUME UNCHANGED <<vars, answer>>,
             \A v \in Worker : stage[v] = "responding" =>
               UNCHANGED <<stage[v], handling[v], response[v]>>
      PROVE  RecordedOnce' /\ UNCHANGED <<Recorded, Told>>
  BY <1>1, LogStands, StandingChainKeepsRecorded DEF Answered, Told
<1>2. CASE UNCHANGED node
  BY <1>1, <1>2 DEF node, serving
<1>3. ASSUME NEW r \in Request, Send(r)
      PROVE  RecordedOnce' /\ UNCHANGED <<Recorded, Told>>
  BY <1>1, <1>3 DEF Send
<1>4. ASSUME NEW w \in Worker, Work(w) \/ ReadFails(w)
      PROVE  RecordedOnce' /\ (Log!Next \/ UNCHANGED <<Recorded, Told>>)
  <2>1. CASE SignAndAppend(w)
    BY <2>1, SigningRecordsOnce, SigningIsRecord DEF Log!Next
  <2>2. CASE Respond(w)
    <3>1. Truthful(handling[w], response[w], Entries(Me), before[handling[w]],
                   wanted[handling[w]], answer)
      BY <2>2 DEF Respond, LogInv, AnswersInv, ResponsesTrue
    <3>2. response[w].status # 0 => response[w] # NoAnswer
      BY DEF NoAnswer
    <3>3. RecordedOnce'
      BY <2>2, <3>2, AnsweringKeepsRecorded DEF Respond
    <3> QED
      BY <2>2, <3>1, <3>3, AnsweringIsAcknowledge DEF Respond, Log!Next
  <2>3. CASE ReadFails(w)
    <3>1. Truthful(handling[w], [status |-> 400, error |-> "unread"], Entries(Me),
                   before[handling[w]], wanted[handling[w]], answer)
      BY <2>3, OthersAnswerTruly DEF ReadFails, LogInv
    <3>2. RecordedOnce'
      BY <2>3, AnsweringKeepsRecorded DEF ReadFails
    <3> QED
      BY <2>3, <3>1, <3>2, AnsweringIsAcknowledge DEF ReadFails, Log!Next
  <2>4. CASE ~SignAndAppend(w) /\ ~Respond(w) /\ ~ReadFails(w)
    <3>1. /\ stage[w] # "responding" /\ UNCHANGED <<vars, answer>>
          /\ \A v \in Worker : v # w => UNCHANGED <<stage[v], handling[v], response[v]>>
      <4>1. CASE Receive(w)
        BY <4>1 DEF Receive, LogInv, NodeInv, WorkersOK, AnswersInv, ServingOK
      <4>2. CASE ReadBody(w)
        BY <4>2 DEF ReadBody, LogInv, NodeInv, WorkersOK, AnswersInv, ServingOK
      <4>3. CASE Acquire(w) \/ ReadHead(w)
        BY <4>3 DEF Acquire, ReadHead, LogInv, NodeInv, WorkersOK, AnswersInv, ServingOK
      <4>4. CASE Provenance(w) \/ NodeExport(w) \/ CountChain(w)
        <5>1. \E reply : Finish(w, reply)
          BY <4>4 DEF Provenance, NodeExport, CountChain
        <5>2. stage[w] = "locked" /\ UNCHANGED <<vars, answer, handling>>
          BY <4>4 DEF Provenance, NodeExport, CountChain
        <5> QED
          BY <5>1, <5>2 DEF Finish, LogInv, NodeInv, WorkersOK, AnswersInv, ServingOK
      <4> QED
        BY <1>4, <2>4, <4>1, <4>2, <4>3, <4>4 DEF Work
    <3> QED
      BY <1>1, <3>1
  <2> QED
    BY <2>1, <2>2, <2>3, <2>4
<1> QED
  BY <1>2, <1>3, <1>4 DEF NodeNext

\* However many workers serve however many clients, the node keeps the one log
\* of CaptureLog: each capture recorded at most once and for good, and
\* acknowledged with its own place (serve, Node::capture).
THEOREM NodeImplementsCaptureLog == NodeSpec => ImplementsCaptureLog
<1>1. NodeInit => RecordedOnce /\ Log!Init
  <2> SUFFICES ASSUME NodeInit PROVE RecordedOnce /\ Log!Init
    OBVIOUS
  <2>1. Entries(Me) = {} /\ answer = [r \in Request |-> NoAnswer]
    BY DEF NodeInit, Init, Entries
  <2>2. Recorded = <<>>
    <3>1. Seqs(Me) = {} /\ Cardinality({}) = 0
      BY <2>1, FS_EmptySet DEF Seqs
    <3> QED
      BY <3>1 DEF Recorded
  <2>3. Told = [r \in Capture |-> 0]
    BY <2>1 DEF Told, NoAnswer, Request
  <2> QED
    BY <2>1, <2>2, <2>3 DEF RecordedOnce, Log!Init, Told
<1>2. LogInv /\ [NodeNext]_node => LogInv'
  BY NodeInvNext, AnswersInvNext, NodeStepIsLogStep DEF LogInv
<1>3. LogInv /\ LogInv' /\ [NodeNext]_node
        => [Log!Next]_<<Recorded, [r \in Capture |-> IF answer[r].status = 201
                                                     THEN answer[r].seq + 1 ELSE 0]>>
  BY NodeStepIsLogStep DEF LogInv, Told
<1> QED
  BY <1>1, <1>2, <1>3, NodeInvInit, AnswersInvInit, PTL
     DEF NodeSpec, LogInv, ImplementsCaptureLog, Log!Spec

=============================================================================
