----------------------------- MODULE MCVirtioBlk -----------------------------
(* A disk of three sectors, the last two of them a partition; requests of   *)
(* the whole-disk client and of the partition's client, within bounds and  *)
(* just outside.                                                           *)
EXTENDS VirtioBlk

ThreeSectors == [i \in 0..2 |-> <<"sector", i>>]

Read(k) == [op |-> "READ_BLOCK", sector |-> k]

TwoClients ==
  {[from |-> "vfsd", token |-> 0, msg |-> Read(k)] : k \in {0}}
  \cup {[from |-> "fat", token |-> 1, msg |-> Read(k)] : k \in {1, 2}}
  \cup {[from |-> "vfsd", token |-> 0,
         msg |-> [op |-> "REGISTER_PARTITION", new_token |-> 1, base |-> 1,
                  length |-> 2]]}

=============================================================================
