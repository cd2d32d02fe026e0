----------------------------- MODULE BlockDevice -----------------------------
(***************************************************************************)
(* What the block driver promises its clients: requests are answered one   *)
(* at a time, in arrival order, each with the sector it asked for or with  *)
(* an error.  VirtioBlk implements this; the file system and the services  *)
(* are built on it.                                                        *)
(***************************************************************************)
EXTENDS Partitions, Calls

VARIABLE partitions   \* the registered bounds

\* An answer says what is on the disk where the caller may look, ...
ReadAnswers(m) ==
  IF InBounds(partitions, m.token, m.sector)
    THEN {[label |-> "SUCCESS",
           data |-> Disk[resolve_sector(partitions, m.token, m.sector)]],
          [label |-> "DEVICE_STATUS"]}
    ELSE {[label |-> "OUT_OF_BOUNDS"]}

AnswerRead ==
  /\ Waiting("blk") /\ Oldest("blk").op = "READ_BLOCK"
  /\ \E r \in ReadAnswers(Oldest("blk")) : answer' = Reply(Oldest("blk").from, r)
  /\ inbox' = Taken("blk")
  /\ UNCHANGED partitions

\* ... and a new partition is recorded exactly when it is accepted.
AnswerRegister ==
  /\ Waiting("blk") /\ Oldest("blk").op = "REGISTER_PARTITION"
  /\ LET m == Oldest("blk")
     IN  IF Registrable(partitions, m)
           THEN /\ partitions' = Registered(partitions, m)
                /\ answer' = Reply(m.from, [label |-> "SUCCESS"])
           ELSE /\ answer' = Reply(m.from, [label |-> "REGISTER_REJECTED"])
                /\ UNCHANGED partitions
  /\ inbox' = Taken("blk")

\* The clients ask and look at answers; nobody but the driver answers.
Ask ==
  /\ \A c \in DOMAIN answer : answer'[c] \in {answer[c], NoAnswer}
  /\ Len(inbox["blk"]) <= Len(inbox'["blk"])
  /\ SubSeq(inbox'["blk"], 1, Len(inbox["blk"])) = inbox["blk"]
  /\ UNCHANGED partitions

DeviceSpec ==
  /\ partitions = {}
  /\ [][AnswerRead \/ AnswerRegister \/ Ask]_<<partitions, callVars>>

=============================================================================
