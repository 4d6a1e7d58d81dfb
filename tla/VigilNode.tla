------------------------------ MODULE VigilNode --------------------------------
(***************************************************************************)
(* The node process (crates/vigil-node): a pool of worker threads that     *)
(* serve HTTP requests over one ledger behind one mutex, and that is the   *)
(* only place where the node's own chain grows.  What it answers an export *)
(* with is given to the stranger of Verify.                                *)
(*                                                                         *)
(* Obs holds every entry the node might ever sign, one for each place in a *)
(* chain and each text; that its key signs one chain is not assumed here   *)
(* (Me need not be in Honest) but is what NodeKeepsOneChain says.          *)
(***************************************************************************)
EXTENDS Export, Verify

CONSTANTS
  Me,            \* the node's device key
  Worker,        \* the threads `serve` spawns
  Capture,       \* POST /obs requests
  Lookup,        \* GET /obs/{id}/provenance requests
  Exporting,     \* POST /export requests
  Health,        \* GET /health requests
  Malformed,     \* requests whose body or path is refused: a text that is blank
                 \* or not UTF-8, an id that is not one, a list that is not of
                 \* ids, a path or a method that does not exist
  Stalled,       \* requests whose client never finishes sending the body
  MaxAsked,      \* bounds the ids an export asks for
  text           \* the request an observation carries the text of

Asking == Lookup \cup Exporting
Request == Capture \cup Asking \cup Health

ASSUME NodeAssumption ==
  /\ Me \in Key /\ None \notin Worker /\ None \notin Request
  /\ Malformed \subseteq Request /\ Stalled \subseteq Request
  /\ Capture \cap Asking = {} /\ (Capture \cup Asking) \cap Health = {}
  /\ Lookup \cap Exporting = {}
  /\ text \in [Obs -> Capture] /\ MaxAsked \in Nat

VARIABLES
  inbox,         \* requests sent and not yet received (tiny_http's queue)
  handling,      \* the request each worker serves
  stage,         \* how far it has come with it
  lock,          \* the worker that holds the mutex
  head,          \* the chain head a capture read
  response,      \* the response a worker is about to send
  answer,        \* the response to each request
  wanted,        \* the ids a lookup or an export asks for
  before         \* the captures acknowledged when each request was sent

serving == <<inbox, handling, stage, lock, head, response, answer, wanted, before>>
node == <<vars, serving>>

NoAnswer == [status |-> 0]
Answered == {r \in Request : answer[r] # NoAnswer}
Sent == inbox \cup {handling[w] : w \in Worker} \cup Answered

NodeInit ==
  /\ Init
  /\ inbox = {} /\ lock = None
  /\ handling = [w \in Worker |-> None] /\ stage = [w \in Worker |-> "idle"]
  /\ head = [w \in Worker |-> None] /\ response = [w \in Worker |-> NoAnswer]
  /\ answer = [r \in Request |-> NoAnswer]
  /\ wanted = [r \in Asking |-> {}] /\ before = [r \in Request |-> {}]

-----------------------------------------------------------------------------
\* Clients.

\* The captures clients have been told of, and the ids they were told.
Acknowledged == {r \in Capture : answer[r].status = 201}
Known == {answer[r].id : r \in Acknowledged}

\* What a request may ask for: ids clients were told of, and one that no record
\* has (None); a lookup is of one id, an export of any list of them.
Wishes(r) ==
  LET ids == Known \cup {None}
  IN  IF r \in Lookup THEN {{x} : x \in ids}
      ELSE {S \in SUBSET ids : Cardinality(S) <= MaxAsked}

Send(r) ==
  /\ r \notin Sent
  /\ inbox' = inbox \cup {r}
  /\ before' = [before EXCEPT ![r] = Acknowledged]
  /\ IF r \in Asking THEN \E ids \in Wishes(r) : wanted' = [wanted EXCEPT ![r] = ids]
     ELSE UNCHANGED wanted
  /\ UNCHANGED <<vars, handling, stage, lock, head, response, answer>>

-----------------------------------------------------------------------------
\* A worker's turn of the loop in `serve`: receive, serve_one.

Receive(w) ==
  /\ stage[w] = "idle"
  /\ \E r \in inbox : /\ inbox' = inbox \ {r}
                      /\ handling' = [handling EXCEPT ![w] = r]
  /\ stage' = [stage EXCEPT ![w] = "reading"]
  /\ UNCHANGED <<vars, lock, head, response, answer, wanted, before>>

\* The body is read to its end before dispatch does anything with the request;
\* a malformed one is refused (400, 404 or 405) without taking the lock.
ReadBody(w) ==
  LET r == handling[w]
  IN  /\ stage[w] = "reading" /\ r \notin Stalled
      /\ IF r \in Malformed
         THEN /\ response' = [response EXCEPT ![w] = [status |-> 400, error |-> "malformed"]]
              /\ stage' = [stage EXCEPT ![w] = "responding"]
         ELSE /\ stage' = [stage EXCEPT ![w] = "locking"]
              /\ UNCHANGED response
      /\ UNCHANGED <<vars, inbox, handling, lock, head, answer, wanted, before>>

\* A failed read that leaves the worker's loop instead of serve_one.
ReadFailsForGood(w) ==
  /\ stage[w] = "reading"
  /\ answer' = [answer EXCEPT ![handling[w]] = [status |-> 400, error |-> "unread"]]
  /\ stage' = [stage EXCEPT ![w] = "ended"]
  /\ UNCHANGED <<vars, inbox, handling, lock, head, response, wanted, before>>

\* The connection fails before the body is complete: serve_one answers 400 and
\* returns to the loop.
ReadFails(w) ==
  /\ stage[w] = "reading"
  /\ answer' = [answer EXCEPT ![handling[w]] = [status |-> 400, error |-> "unread"]]
  /\ stage' = [stage EXCEPT ![w] = "idle"]
  /\ handling' = [handling EXCEPT ![w] = None]
  /\ UNCHANGED <<vars, inbox, lock, head, response, wanted, before>>

\* A ledger that several workers may enter at a time.
Unguarded == TRUE

\* Mutex::lock can be taken.
LockFree == lock = None

Acquire(w) ==
  /\ stage[w] = "locking" /\ LockFree
  /\ lock' = w
  /\ stage' = [stage EXCEPT ![w] = "locked"]
  /\ UNCHANGED <<vars, inbox, handling, head, response, answer, wanted, before>>

\* The handler returns: the guard is dropped and the response is ready.
Finish(w, reply) ==
  /\ response' = [response EXCEPT ![w] = reply]
  /\ lock' = None
  /\ stage' = [stage EXCEPT ![w] = "responding"]

\* Node::capture reads the head of its own chain,
ReadHead(w) ==
  /\ stage[w] = "locked" /\ handling[w] \in Capture
  /\ head' = [head EXCEPT ![w] = ChainHead(Me)]
  /\ stage' = [stage EXCEPT ![w] = "signing"]
  /\ UNCHANGED <<vars, inbox, handling, lock, response, answer, wanted, before>>

\* builds the entry that follows it, signs it and appends it.  A refusal of
\* the append would be answered 500.
SignAndAppend(w) ==
  /\ stage[w] = "signing"
  /\ \E x \in Obs :
       /\ author[x] = Me /\ text[x] = handling[w] /\ prev[x] = head[w]
       /\ seq[x] = IF head[w] = None THEN 0 ELSE seq[head[w]] + 1
       /\ \/ /\ AppendObservation(x)
             /\ Finish(w, [status |-> 201, id |-> x, seq |-> seq[x]])
          \/ /\ ~JoinsChain(x) /\ UNCHANGED vars
             /\ Finish(w, [status |-> 500])
  /\ UNCHANGED <<inbox, handling, head, answer, wanted, before>>

\* Node::provenance: whether the record is held and, if so, the state of its
\* author's chain.
Provenance(w) ==
  /\ stage[w] = "locked" /\ handling[w] \in Lookup
  /\ \E x \in wanted[handling[w]] :
       Finish(w, IF x \in observations THEN [status |-> 200, chain |-> VerifyChain(author[x])]
                 ELSE [status |-> 404])
  /\ UNCHANGED <<vars, inbox, handling, head, answer, wanted, before>>

\* Node::export: the pack for the records asked for, under no conviction, if
\* all of them are held.
NodeExport(w) ==
  LET claims == wanted[handling[w]]
  IN  /\ stage[w] = "locked" /\ handling[w] \in Exporting
      /\ \/ /\ claims \subseteq observations
            /\ \E p \in ExportPack(claims, {}) : Finish(w, [status |-> 200, pack |-> p])
         \/ ~ claims \subseteq observations /\ Finish(w, [status |-> 400, error |-> "not held"])
      /\ UNCHANGED <<vars, inbox, handling, head, answer, wanted, before>>

\* Node::health.
CountChain(w) ==
  /\ stage[w] = "locked" /\ handling[w] \in Health
  /\ Finish(w, [status |-> 200, chain_len |-> Cardinality(Entries(Me))])
  /\ UNCHANGED <<vars, inbox, handling, head, answer, wanted, before>>

Respond(w) ==
  /\ stage[w] = "responding"
  /\ answer' = [answer EXCEPT ![handling[w]] = response[w]]
  /\ stage' = [stage EXCEPT ![w] = "idle"]
  /\ handling' = [handling EXCEPT ![w] = None]
  /\ head' = [head EXCEPT ![w] = None]
  /\ response' = [response EXCEPT ![w] = NoAnswer]
  /\ UNCHANGED <<vars, inbox, lock, wanted, before>>

\* What a worker does without waiting for anyone but the holder of the lock.
Work(w) ==
  \/ Receive(w) \/ ReadBody(w) \/ Acquire(w)
  \/ ReadHead(w) \/ SignAndAppend(w) \/ Provenance(w) \/ NodeExport(w)
  \/ CountChain(w) \/ Respond(w)

NodeNext ==
  \/ \E r \in Request : Send(r)
  \/ \E w \in Worker : Work(w) \/ ReadFails(w)

NodeSpec == NodeInit /\ [][NodeNext]_node

\* The threads run: each is scheduled as long as it can take a step.
FairNodeSpec == NodeSpec /\ \A w \in Worker : WF_node(Work(w))

-----------------------------------------------------------------------------
\* The captures in the order of their entries' numbers.
Recorded ==
  [n \in 1 .. Cardinality(Seqs(Me)) |->
     IF EntriesAt(Me, n - 1) = {} THEN None ELSE text[Min(EntriesAt(Me, n - 1))]]

Log == INSTANCE CaptureLog WITH
  log <- Recorded,
  acknowledged <- [r \in Capture |-> IF answer[r].status = 201 THEN answer[r].seq + 1 ELSE 0]

\* The node's key signs one chain: however many workers capture at a time, no
\* two entries get one number, none skips one, each names the one before it.
\* This is what Objects assumes of an honest key (HonestSigning).
NodeKeepsOneChain ==
  Entries(Me) # {} => OneChain(Entries(Me)) /\ Entries(Me) \subseteq verified

\* The workers together implement CaptureLog: every capture is recorded at most
\* once and for good, and acknowledged with its own place after it is recorded.
ImplementsCaptureLog == Log!Spec

\* Answers agree with the order clients can observe: a capture sent after
\* another was answered gets a higher number, a health check sent after n
\* captures were answered counts at least n, a record whose id anybody was told
\* is found and its chain is whole, and the node's own ledger never refuses its
\* entry (lib.rs: that does not happen "for a well-formed single-node chain").
AnswersAgreeWithRealTime ==
  \A r \in Answered :
    /\ answer[r].status # 500
    /\ r \in Acknowledged => \A q \in before[r] : answer[q].seq < answer[r].seq
    /\ r \in Health /\ answer[r].status = 200
         => answer[r].chain_len >= Cardinality(before[r])
    /\ r \in Lookup /\ answer[r].status = 404 => wanted[r] = {None}
    /\ r \in Lookup /\ answer[r].status = 200 => answer[r].chain = "Verified"

\* A stranger passes every pack the node answers with, however captures and
\* exports crossed, and finds in it all that was asked for, on one whole chain of
\* the node's key; and only an id nobody was told is refused (lib.rs: "vigil-verify
\* <pack> <this pubkey> checks it").
StrangersPassExports ==
  \A r \in Answered \cap Exporting :
    IF answer[r].status = 200
    THEN \A report \in VerifyPack(answer[r].pack) :
           /\ report.passed
           /\ {c.observation : c \in report.claims} = wanted[r]
           /\ \A c \in report.chains : c = [author |-> Me, verdict |-> "Verified"]
    ELSE answer[r].error = "not held" => None \in wanted[r]

\* As long as fewer clients stall than there are workers, every other request
\* that is sent is answered.
EveryRequestAnswered ==
  \A r \in Request \ Stalled : r \in Sent ~> r \in Answered
=============================================================================
