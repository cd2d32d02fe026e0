------------------------------ MODULE Partitions -----------------------------
(***************************************************************************)
(* The partition table of the block driver (drivers/virtio/blk/src/main.rs)*)
(* as operators on a set of bounds: a caller's token confines it to one    *)
(* partition, token 0 is the holder of the whole disk.                     *)
(***************************************************************************)
EXTENDS Naturals, FiniteSets

CONSTANTS
  Disk,                  \* 0..Capacity-1 -> what the sector holds
  Capacity,              \* sectors on the device
  PARTITION_TABLE_SIZE

ASSUME DiskAssumption == Capacity \in Nat /\ DOMAIN Disk = 0..(Capacity - 1)

\* lookup and resolve_sector.
Known(ps, token) == \E b \in ps : b.token = token
Bound(ps, token) == CHOOSE b \in ps : b.token = token

InBounds(ps, token, sector) ==
  IF token = 0 THEN sector < Capacity
  ELSE /\ Known(ps, token)
       /\ sector < Bound(ps, token).length
       /\ Bound(ps, token).base + sector < Capacity

resolve_sector(ps, token, sector) ==
  IF token = 0 THEN sector ELSE Bound(ps, token).base + sector

\* The checks of handle_register_partition and PartitionTable::insert.
Registrable(ps, m) ==
  /\ m.token = 0
  /\ m.base + m.length <= Capacity /\ m.length # 0 /\ m.new_token # 0
  /\ Cardinality(ps) < PARTITION_TABLE_SIZE
  /\ ~Known(ps, m.new_token)

Registered(ps, m) ==
  ps \cup {[token |-> m.new_token, base |-> m.base, length |-> m.length]}

=============================================================================
