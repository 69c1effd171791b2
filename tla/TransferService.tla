-------------------------- MODULE TransferService --------------------------
(***************************************************************************)
(* What the transfer server promises the nameservers that pull from it:    *)
(* a zone is handed over only to a peer that may have it, whole and as it  *)
(* was at one moment, to no more than Cap peers at a time; a peer that     *)
(* already has it is told the serial; and the limit is a reason to refuse  *)
(* only while it is reached.                                               *)
(***************************************************************************)
EXTENDS Naturals, FiniteSets

CONSTANTS
  Conns, Cap, Zones, Questions, NoReply, NoZone,
  Entitled(_, _),    \* whether who asks a question may have a zone
  Current(_, _),     \* whether the serial is answer enough
  SerialOf(_), Unsendable(_)

VARIABLES
  zone,      \* what is served
  asked,     \* the question on each connection, NoReply between questions
  taken,     \* the zone a running transfer hands over
  running,   \* the transfers that run
  reply      \* what a connection has got for its question so far

avars == <<zone, asked, taken, running, reply>>

AInit ==
  /\ zone \in Zones
  /\ asked = [c \in Conns |-> NoReply] /\ taken = [c \in Conns |-> NoZone]
  /\ running = {} /\ reply = [c \in Conns |-> NoReply]

Publish ==
  /\ zone' \in Zones
  /\ UNCHANGED <<asked, taken, running, reply>>

Ask(c) ==
  /\ asked[c] = NoReply /\ c \notin running
  /\ \E q \in Questions : asked' = [asked EXCEPT ![c] = q]
  /\ UNCHANGED <<zone, taken, running, reply>>

Waiting(c) == asked[c] # NoReply /\ c \notin running /\ reply[c] = NoReply

\* The server looks at the zone once for a question.
Look(c) ==
  /\ Waiting(c) /\ taken[c] = NoZone
  /\ taken' = [taken EXCEPT ![c] = zone]
  /\ UNCHANGED <<zone, asked, running, reply>>

Looked(c) == Waiting(c) /\ taken[c] # NoZone

Admit(c) ==
  /\ Looked(c) /\ Entitled(asked[c], taken[c])
  /\ Cardinality(running) < Cap
  /\ running' = running \cup {c}
  /\ UNCHANGED <<zone, asked, taken, reply>>

\* Whole, and as it was when the server looked.
Deliver(c) ==
  /\ c \in running /\ reply[c] = NoReply
  /\ reply' = [reply EXCEPT ![c] = [zone |-> taken[c]]]
  /\ UNCHANGED <<zone, asked, taken, running>>

Release(c) ==
  /\ running' = running \ {c}
  /\ UNCHANGED <<zone, asked, taken, reply>>

\* One who needs no more is told the serial.
TellSerial(c) ==
  /\ Looked(c) /\ Entitled(asked[c], taken[c]) /\ Current(asked[c], taken[c])
  /\ reply' = [reply EXCEPT ![c] = [serial |-> SerialOf(taken[c])]]
  /\ UNCHANGED <<zone, asked, taken, running>>

\* A peer that may have the zone is refused only while the house is full.
Refuse(c) ==
  /\ Looked(c)
  /\ \E why \in {"no", "full"} :
       /\ why = "no" => ~Entitled(asked[c], taken[c])
       /\ why = "full" => Cardinality(running) = Cap
       /\ reply' = [reply EXCEPT ![c] = [refused |-> why]]
  /\ UNCHANGED <<zone, asked, taken, running>>

\* A zone with a record that cannot be written out is not handed over in part.
Spoil(c) ==
  /\ c \in running /\ reply[c] = NoReply /\ Unsendable(taken[c])
  /\ running' = running \ {c}
  /\ reply' = [reply EXCEPT ![c] = [refused |-> "broken"]]
  /\ UNCHANGED <<zone, asked, taken>>

\* The question is over.
End(c) ==
  /\ asked[c] # NoReply
  /\ asked' = [asked EXCEPT ![c] = NoReply] /\ taken' = [taken EXCEPT ![c] = NoZone]
  /\ reply' = [reply EXCEPT ![c] = NoReply] /\ running' = running \ {c}
  /\ UNCHANGED zone

ANext ==
  \/ Publish
  \/ \E c \in Conns :
       \/ Ask(c) \/ Look(c) \/ Admit(c) \/ Deliver(c) \/ Release(c) \/ TellSerial(c) \/ Refuse(c)
       \/ Spoil(c) \/ End(c)

ASpec == AInit /\ [][ANext]_avars
=============================================================================
