-------------------------------- MODULE Mailbox --------------------------------
(***************************************************************************)
(* A place for one numbered item between a producer that cannot wait and a *)
(* consumer: what the transfer of the statistics promises.                 *)
(***************************************************************************)
EXTENDS Naturals

VARIABLES
  content,   \* the item in the mailbox, 0 when there is none
  taken      \* the last item the consumer has taken

Init == content = 0 /\ taken = 0

\* Items may be skipped, but none comes again and none comes too late.
Put ==
  /\ content = 0
  /\ content' \in Nat /\ content' > taken
  /\ UNCHANGED taken

Take ==
  /\ content # 0
  /\ taken' = content
  /\ content' = 0

\* The consumer starts anew: what is in the mailbox is lost.
Clear ==
  /\ content # 0
  /\ content' = 0
  /\ UNCHANGED taken

Next == Put \/ Take \/ Clear
Spec == Init /\ [][Next]_<<content, taken>>
FairSpec == Spec /\ WF_<<content, taken>>(Take \/ Clear)
================================================================================
