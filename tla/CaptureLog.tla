------------------------------ MODULE CaptureLog -------------------------------
(***************************************************************************)
(* What a node promises the clients that record something with it: one     *)
(* log, to which a capture is appended at most once and for good, and an   *)
(* acknowledgement that names the capture's own place in it.               *)
(***************************************************************************)
EXTENDS Naturals, Sequences

CONSTANT Capture   \* the captures clients may request

VARIABLES
  log,             \* the captures recorded, in order
  acknowledged     \* the place each capture was told it has, 0 for none yet

Init == log = <<>> /\ acknowledged = [r \in Capture |-> 0]

Record(r) ==
  /\ \A n \in 1 .. Len(log) : log[n] # r
  /\ log' = Append(log, r)
  /\ UNCHANGED acknowledged

Acknowledge(r) ==
  /\ acknowledged[r] = 0
  /\ \E n \in 1 .. Len(log) :
       log[n] = r /\ acknowledged' = [acknowledged EXCEPT ![r] = n]
  /\ UNCHANGED log

Next == \E r \in Capture : Record(r) \/ Acknowledge(r)

Spec == Init /\ [][Next]_<<log, acknowledged>>
=============================================================================
