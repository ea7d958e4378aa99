------------------------------ MODULE PipeFifo ------------------------------
(***************************************************************************)
(* What one direction of a VMBus pipe promises its two ends: the packets   *)
(* that are sent come out unchanged, in the order they were sent, none     *)
(* twice and none left out.  The ring of PipeRing implements it.           *)
(***************************************************************************)
EXTENDS Naturals, Sequences

VARIABLES
  sent,      \* every packet the producer has published, oldest first
  delivered  \* every packet the consumer has taken, oldest first

fifoVars == <<sent, delivered>>

Init ==
  /\ sent = << >>
  /\ delivered = << >>

Send ==
  /\ Len(sent') = Len(sent) + 1
  /\ SubSeq(sent', 1, Len(sent)) = sent
  /\ UNCHANGED delivered

Deliver ==
  /\ Len(delivered) < Len(sent)
  /\ delivered' = Append(delivered, sent[Len(delivered) + 1])
  /\ UNCHANGED sent

Next == Send \/ Deliver

Spec == Init /\ [][Next]_fifoVars

=============================================================================
