-------------------------------- MODULE FatFs --------------------------------
(***************************************************************************)
(* The FAT driver process (fs/fat/src/main.rs): one instance per mounted   *)
(* volume.  A request that needs the disk is a walk: sectors of a          *)
(* directory, FAT sectors for the links of a chain (one sector is cached), *)
(* then the sector of data.  Each sector is a call to the block driver.    *)
(***************************************************************************)
EXTENDS Processes, Integers, SequencesExt

-----------------------------------------------------------------------------
(* The FAT on disk as fs/fat reads it (bpb.rs, fat.rs, dir.rs).  The unit  *)
(* of data is the word of an IPC buffer.  A path is a sequence of          *)
(* fragments, "/" among them; a name is a sequence of fragments, each as   *)
(* long as one long-file-name entry holds.                                 *)

CONSTANTS
  SECTOR_WORDS,       \* words in a sector
  FAT16_PER_SECTOR,   \* FAT entries in a sector: cluster * 2 / 512 ...
  FAT32_PER_SECTOR,   \* ... and cluster * 4 / 512
  DIR_PER_SECTOR,     \* directory entries in a sector
  FAT16_CLUSTERS,     \* volumes with fewer clusters are FAT16
  Short               \* name -> the 8.3 name it is padded and truncated to

EndOfChain == -1
BadCluster == -2

Unmounted == [fat_size |-> 0]

\* parse_bpb: the geometry, when the boot sector is one.
ParsesBpb(b) == b.signature /\ b.sectors_per_cluster # 0

RootSectors(b) == (b.root_entries + DIR_PER_SECTOR - 1) \div DIR_PER_SECTOR
RootStart(b) == b.reserved + b.num_fats * b.fat_size

parse_bpb(b) ==
  LET data_start == RootStart(b) + RootSectors(b)
      clusters == (b.total - data_start) \div b.sectors_per_cluster
  IN  b @@ [data_start |-> data_start,
            type |-> IF clusters < FAT16_CLUSTERS THEN "Fat16" ELSE "Fat32"]

cluster_to_sector(g, cluster) ==
  g.data_start + (cluster - 2) * g.sectors_per_cluster

cluster_size(g) == g.sectors_per_cluster * SECTOR_WORDS

\* next_cluster: where the entry of a cluster is, and what it says.
PerSector(g) == IF g.type = "Fat16" THEN FAT16_PER_SECTOR ELSE FAT32_PER_SECTOR
FatSector(g, cluster) == g.reserved + (cluster \div PerSector(g))
FatIndex(g, cluster) == 1 + (cluster % PerSector(g))

Chained(value) == value \notin {EndOfChain, BadCluster}

\* read_file_data: where a read starts, and how much one request returns.
ClusterIndex(g, offset) == offset \div cluster_size(g)
SectorInCluster(g, offset) == (offset % cluster_size(g)) \div SECTOR_WORDS
OffsetInSector(offset) == offset % SECTOR_WORDS

Smallest(a, b) == IF a <= b THEN a ELSE b

CopyLength(size, offset, max_len) ==
  Smallest(Smallest(max_len, size - offset), SECTOR_WORDS - OffsetInSector(offset))

Copied(sector, size, offset, max_len) ==
  SubSeq(sector, OffsetInSector(offset) + 1,
         OffsetInSector(offset) + CopyLength(size, offset, max_len))

\* LfnAccum: reset forgets the length and not the characters.
NoLfn == [active |-> FALSE, pieces |-> <<>>, len |-> 0]

reset(lfn) == [lfn EXCEPT !.active = FALSE, !.len = 0]

add_lfn_entry(lfn, e) ==
  IF e.seq = 0 THEN reset(lfn)
  ELSE [active |-> TRUE,
        pieces |-> (e.seq :> e.piece) @@ lfn.pieces,
        len |-> IF e.seq > lfn.len THEN e.seq ELSE lfn.len]

matches(lfn, name) ==
  /\ lfn.active /\ lfn.len = Len(name)
  /\ \A k \in 1..lfn.len : k \in DOMAIN lfn.pieces /\ lfn.pieces[k] = name[k]

name_matches(e, name) == e.short = Short[name]

\* scan_sector_for_name: an end marker, or a match, ends the scan of this
\* sector; the accumulator carries a long name into the next one.
ScanEntry(scan, e, name) ==
  CASE scan.stop -> scan
    [] e.kind = "end" -> [scan EXCEPT !.stop = TRUE]
    [] e.kind = "deleted" -> [scan EXCEPT !.lfn = reset(@)]
    [] e.kind = "lfn" -> [scan EXCEPT !.lfn = add_lfn_entry(@, e)]
    [] e.kind = "entry" /\ (matches(scan.lfn, name) \/ name_matches(e, name)) ->
         [scan EXCEPT !.stop = TRUE, !.hit = <<e>>]
    [] OTHER -> [scan EXCEPT !.lfn = reset(@)]

scan_sector_for_name(sector, name, lfn) ==
  LET Step(scan, e) == ScanEntry(scan, e, name)
  IN  FoldLeft(Step, [stop |-> FALSE, hit |-> <<>>, lfn |-> lfn], sector)

\* read_dir_entry_at_index: `left` entries are still to be passed over; here
\* an end marker ends the whole directory.
ListEntry(scan, e) ==
  CASE scan.stop -> scan
    [] e.kind = "end" -> [scan EXCEPT !.stop = TRUE]
    [] e.kind = "entry" /\ scan.left = 0 ->
         [scan EXCEPT !.stop = TRUE, !.hit = <<e>>]
    [] e.kind = "entry" /\ scan.left > 0 -> [scan EXCEPT !.left = @ - 1]
    [] OTHER -> scan

list_sector(sector, left) ==
  FoldLeft(ListEntry, [stop |-> FALSE, hit |-> <<>>, left |-> left], sector)

\* strip_slashes and split_component.
strip_slashes(path) ==
  IF \A j \in DOMAIN path : path[j] = "/" THEN <<>>
  ELSE LET kept == {j \in DOMAIN path : path[j] # "/"}
           first == CHOOSE j \in kept : \A k \in kept : j <= k
           last == CHOOSE j \in kept : \A k \in kept : k <= j
       IN  SubSeq(path, first, last)

FirstSlash(path) ==
  LET slashes == {j \in DOMAIN path : path[j] = "/"}
  IN  IF slashes = {} THEN Len(path) + 1
      ELSE CHOOSE j \in slashes : \A k \in slashes : j <= k

Component(path) == SubSeq(path, 1, FirstSlash(path) - 1)
RestOfPath(path) == strip_slashes(SubSeq(path, FirstSlash(path) + 1, Len(path)))

\* resolve_path: where a walk starts.  Cluster 0 stands for the fixed root
\* directory of FAT16.
RootCluster(g) == IF g.type = "Fat32" THEN g.root_cluster ELSE 0
RootEntry(g) ==
  [kind |-> "entry", short |-> "/", dir |-> TRUE, cluster |-> RootCluster(g), size |-> 0]

DirSectors(g, cluster) ==
  IF cluster = 0 THEN RootSectors(g) ELSE g.sectors_per_cluster
DirSector(g, cluster, s) ==
  IF cluster = 0 THEN RootStart(g) + s ELSE cluster_to_sector(g, cluster) + s

-----------------------------------------------------------------------------
(* The process.                                                            *)

CONSTANTS
  Volumes,              \* the instances
  MAX_OPEN_FILES,
  MSG_DATA_WORDS_MAX    \* words the kernel copies in a message

VARIABLE fs   \* instance -> its state

NoFile == [token |-> 0, cluster |-> 0, size |-> 0, dir |-> FALSE]
NoWalk == [path |-> <<>>, cluster |-> 0, s |-> 0, lfn |-> NoLfn, left |-> 0]

NewFat ==
  [pc |-> "start", blk |-> NoCap, ep |-> "none", geo |-> Unmounted,
   cached |-> 0, cache |-> <<>>, files |-> [k \in 1..MAX_OPEN_FILES |-> NoFile],
   next |-> 1, walk |-> NoWalk]

FatFsInit == fs = [i \in Volumes |-> NewFat]

Request(i) == Oldest(fs[i].ep)

\* The ways a step of an instance ends: it asks for a sector and waits at pc,
\* it goes on at pc, or it replies to the request it is serving.
AskSector(i, f, sector, pc) ==
  /\ CallCap(i, f.blk, [op |-> "READ_BLOCK", sector |-> sector])
  /\ fs' = [fs EXCEPT ![i] = [f EXCEPT !.pc = pc]]
  /\ UNCHANGED processVars

GoOn(i, f, pc) ==
  /\ fs' = [fs EXCEPT ![i] = [f EXCEPT !.pc = pc]]
  /\ UNCHANGED <<inbox, answer, processVars>>

ReplyFrom(i, f, r) ==
  /\ Respond(f.ep, r)
  /\ fs' = [fs EXCEPT ![i] = [f EXCEPT !.pc = "serve", !.walk = NoWalk]]

ReplyLabel(i, f, label) == ReplyFrom(i, f, [label |-> label]) /\ UNCHANGED processVars

\* main and bootstrap_caps.
FatBootstrap(i) ==
  /\ Running(i) /\ fs[i].pc = "start"
  /\ request_round(i)
  /\ fs' = [fs EXCEPT ![i].pc = "boot"]
  /\ UNCHANGED processVars

FatBootstrapped(i) ==
  /\ fs[i].pc = "boot" /\ Answered(i)
  /\ IF answer[i].label = "DONE" /\ Len(answer[i].caps) >= 3
       THEN /\ fs' = [fs EXCEPT ![i].pc = "serve", ![i].blk = answer[i].caps[1],
                                ![i].ep = answer[i].caps[3].ep]
            /\ threads' = Keep(i)
            /\ UNCHANGED events
       ELSE /\ fs' = [fs EXCEPT ![i].pc = "ended"]
            /\ threads' = Ended(i) /\ events' = Posted(i, "exit")
  /\ UNCHANGED <<inbox, answer, faults>>

\* service_loop: the opcodes of the two kinds of capability.
Serves(i, ops, mounted) ==
  /\ fs[i].pc = "serve" /\ Waiting(fs[i].ep)
  /\ Request(i).op \in ops
  /\ (Request(i).token = 0) = mounted

Opcodes(token) ==
  IF token = 0 THEN {"FS_MOUNT", "FS_OPEN"}
  ELSE {"FS_READ", "FS_CLOSE", "FS_STAT", "FS_READDIR"}

UnknownOpcode(i) ==
  /\ fs[i].pc = "serve" /\ Waiting(fs[i].ep)
  /\ Request(i).op \notin Opcodes(Request(i).token)
  /\ ReplyLabel(i, fs[i], "UNKNOWN_OPCODE")

\* FS_MOUNT and validate_bpb.
FsMount(i) ==
  /\ Serves(i, {"FS_MOUNT"}, TRUE)
  /\ IF fs[i].geo.fat_size = 0 THEN AskSector(i, fs[i], 0, "bpb")
     ELSE ReplyLabel(i, fs[i], "SUCCESS")

validate_bpb(i) ==
  /\ fs[i].pc = "bpb" /\ Answered(i)
  /\ IF answer[i].label # "SUCCESS" THEN ReplyLabel(i, fs[i], "IO_ERROR")
     ELSE IF ~ParsesBpb(answer[i].data) THEN ReplyLabel(i, fs[i], "NOT_FOUND")
     ELSE ReplyLabel(i, [fs[i] EXCEPT !.geo = parse_bpb(answer[i].data)], "SUCCESS")

\* file.rs: find_by_token and alloc_slot.
find_by_token(f, token) == {k \in 1..MAX_OPEN_FILES : f.files[k].token = token}
FreeSlots(f) == {k \in 1..MAX_OPEN_FILES : f.files[k].token = 0}
alloc_slot(f) == CHOOSE k \in FreeSlots(f) : \A j \in FreeSlots(f) : k <= j

\* The end of handle_open, once the path is resolved to an entry.
OpenEntry(i, f, e) ==
  IF FreeSlots(f) = {} THEN ReplyLabel(i, f, "TOO_MANY_OPEN")
  ELSE /\ UNCHANGED <<threads, events>>
       /\ \/ /\ Works
             /\ ReplyFrom(i, [f EXCEPT !.next = @ + 1,
                                       !.files[alloc_slot(f)] =
                                         [token |-> f.next, cluster |-> e.cluster,
                                          size |-> e.size, dir |-> e.dir]],
                          [label |-> "SUCCESS", cap |-> [ep |-> f.ep, token |-> f.next]])
          \/ /\ Fails
             /\ ReplyFrom(i, [f EXCEPT !.next = @ + 1], [label |-> "IO_ERROR"])

\* handle_open: an empty path is refused, one of slashes only is the root.
handle_open(i) ==
  /\ Serves(i, {"FS_OPEN"}, TRUE)
  /\ LET f == fs[i]
         path == strip_slashes(Request(i).path)
         walk == [NoWalk EXCEPT !.path = path, !.cluster = RootCluster(f.geo)]
     IN  IF Request(i).path = <<>> THEN ReplyLabel(i, f, "NOT_FOUND")
         ELSE IF path = <<>> THEN OpenEntry(i, f, RootEntry(f.geo))
         ELSE AskSector(i, [f EXCEPT !.walk = walk],
                        DirSector(f.geo, walk.cluster, 0), "dir")

\* The next sector of the directory, or the next link of its chain.
NextOfDirectory(i, f, w) ==
  IF w.s + 1 < DirSectors(f.geo, w.cluster)
    THEN AskSector(i, [f EXCEPT !.walk = [w EXCEPT !.s = @ + 1]],
                   DirSector(f.geo, w.cluster, w.s + 1), f.pc)
    ELSE GoOn(i, [f EXCEPT !.walk = w], "link")

\* find_in_directory, find_in_fat16_root and the loop of resolve_path.
find_in_directory(i) ==
  /\ fs[i].pc = "dir" /\ Answered(i)
  /\ LET f == fs[i]
         w == f.walk
         scan == scan_sector_for_name(answer[i].data, Component(w.path), w.lfn)
         below == [NoWalk EXCEPT !.path = RestOfPath(w.path), !.cluster = scan.hit[1].cluster]
     IN  IF answer[i].label # "SUCCESS" THEN ReplyLabel(i, f, "NOT_FOUND")
         ELSE IF scan.hit = <<>>
           THEN IF w.cluster = 0 /\ w.s + 1 = RootSectors(f.geo)
                  THEN ReplyLabel(i, f, "NOT_FOUND")
                  ELSE NextOfDirectory(i, f, [w EXCEPT !.lfn = scan.lfn])
         ELSE IF RestOfPath(w.path) = <<>> THEN OpenEntry(i, f, scan.hit[1])
         ELSE IF ~scan.hit[1].dir THEN ReplyLabel(i, f, "NOT_FOUND")
         ELSE AskSector(i, [f EXCEPT !.walk = below],
                        DirSector(f.geo, below.cluster, 0), "dir")

\* next_cluster, from the cached FAT sector or from the disk.  A chain that
\* ends, is bad or cannot be read ends the walk.
EndWalk(i, f) ==
  CASE Request(i).op = "FS_OPEN" -> ReplyLabel(i, f, "NOT_FOUND")
    [] Request(i).op = "FS_READDIR" -> ReplyLabel(i, f, "END_OF_DIR")
    [] Request(i).op = "FS_READ" ->
         ReplyFrom(i, f, [label |-> "SUCCESS", len |-> 0, data |-> <<>>])
         /\ UNCHANGED processVars

DataSector(i, cluster) ==
  cluster_to_sector(fs[i].geo, cluster) + SectorInCluster(fs[i].geo, Request(i).offset)

Follow(i, f, value) ==
  LET w == [f.walk EXCEPT !.cluster = value, !.s = 0]
      on == [f EXCEPT !.walk = w]
      onward == [f EXCEPT !.walk = [w EXCEPT !.left = @ - 1]]
  IN  CASE ~Chained(value) -> EndWalk(i, f)
        [] Chained(value) /\ Request(i).op = "FS_OPEN" ->
             AskSector(i, on, DirSector(f.geo, value, 0), "dir")
        [] Chained(value) /\ Request(i).op = "FS_READDIR" ->
             AskSector(i, on, DirSector(f.geo, value, 0), "list")
        [] Chained(value) /\ Request(i).op = "FS_READ" /\ w.left > 1 ->
             GoOn(i, onward, "link")
        [] Chained(value) /\ Request(i).op = "FS_READ" /\ w.left = 1 ->
             AskSector(i, onward, DataSector(i, value), "data")

next_cluster(i) ==
  /\ fs[i].pc = "link"
  /\ LET f == fs[i]
         c == f.walk.cluster
     IN  IF f.cached = FatSector(f.geo, c)
           THEN Follow(i, f, f.cache[FatIndex(f.geo, c)])
           ELSE AskSector(i, f, FatSector(f.geo, c), "fat")

FatSectorRead(i) ==
  /\ fs[i].pc = "fat" /\ Answered(i)
  /\ IF answer[i].label = "SUCCESS"
       THEN GoOn(i, [fs[i] EXCEPT !.cached = FatSector(fs[i].geo, fs[i].walk.cluster),
                                  !.cache = answer[i].data], "link")
       ELSE EndWalk(i, fs[i])

\* handle_read: the start of read_file_data.
OpenFile(i) ==
  fs[i].files[CHOOSE k \in find_by_token(fs[i], Request(i).token) : TRUE]

BadToken(i) ==
  /\ Serves(i, {"FS_READ", "FS_CLOSE", "FS_STAT", "FS_READDIR"}, FALSE)
  /\ \/ find_by_token(fs[i], Request(i).token) = {}
     \/ Request(i).op = "FS_READDIR" /\ ~OpenFile(i).dir
  /\ ReplyLabel(i, fs[i], "INVALID_TOKEN")

ServesFile(i, op) ==
  Serves(i, {op}, FALSE) /\ find_by_token(fs[i], Request(i).token) # {}

handle_read(i) ==
  /\ ServesFile(i, "FS_READ")
  /\ LET f == fs[i]
         file == OpenFile(i)
         links == ClusterIndex(f.geo, Request(i).offset)
         walk == [NoWalk EXCEPT !.cluster = file.cluster, !.left = links]
     IN  IF Request(i).offset >= file.size THEN EndWalk(i, f)
         ELSE IF links > 0 THEN GoOn(i, [f EXCEPT !.walk = walk], "link")
         ELSE AskSector(i, [f EXCEPT !.walk = walk], DataSector(i, file.cluster), "data")

\* The reply is a length word and the data; the kernel copies no more than
\* MSG_DATA_WORDS_MAX words, and the word after them is the capability count, 0.
Delivered(data) ==
  IF Len(data) < MSG_DATA_WORDS_MAX THEN data
  ELSE Append(SubSeq(data, 1, MSG_DATA_WORDS_MAX - 1), [at |-> 0])

read_file_data(i) ==
  /\ fs[i].pc = "data" /\ Answered(i)
  /\ LET file == OpenFile(i)
         data == Copied(answer[i].data, file.size, Request(i).offset, Request(i).max_len)
     IN  IF answer[i].label # "SUCCESS" THEN EndWalk(i, fs[i])
         ELSE /\ ReplyFrom(i, fs[i], [label |-> "SUCCESS", len |-> Len(data),
                                      data |-> Delivered(data)])
              /\ UNCHANGED processVars

handle_close(i) ==
  /\ ServesFile(i, "FS_CLOSE")
  /\ LET f == fs[i]
     IN  ReplyLabel(i, [f EXCEPT !.files = [k \in 1..MAX_OPEN_FILES |->
           IF k \in find_by_token(f, Request(i).token) THEN NoFile ELSE f.files[k]]],
           "SUCCESS")

handle_stat(i) ==
  /\ ServesFile(i, "FS_STAT")
  /\ ReplyFrom(i, fs[i], [label |-> "SUCCESS", size |-> OpenFile(i).size,
                          dir |-> OpenFile(i).dir])
  /\ UNCHANGED processVars

\* handle_readdir and read_dir_entry_at_index.
handle_readdir(i) ==
  /\ ServesFile(i, "FS_READDIR") /\ OpenFile(i).dir
  /\ LET walk == [NoWalk EXCEPT !.cluster = OpenFile(i).cluster, !.left = Request(i).index]
     IN  AskSector(i, [fs[i] EXCEPT !.walk = walk],
                   DirSector(fs[i].geo, walk.cluster, 0), "list")

read_dir_entry_at_index(i) ==
  /\ fs[i].pc = "list" /\ Answered(i)
  /\ LET f == fs[i]
         w == f.walk
         scan == list_sector(answer[i].data, w.left)
     IN  IF answer[i].label # "SUCCESS" THEN EndWalk(i, f)
         ELSE IF scan.hit # <<>>
           THEN /\ ReplyFrom(i, f, [label |-> "SUCCESS", name |-> scan.hit[1].short,
                                    size |-> scan.hit[1].size, dir |-> scan.hit[1].dir])
                /\ UNCHANGED processVars
         ELSE IF scan.stop \/ (w.cluster = 0 /\ w.s + 1 = RootSectors(f.geo))
           THEN EndWalk(i, f)
         ELSE NextOfDirectory(i, f, [w EXCEPT !.left = scan.left])

FatNext(i) ==
  \/ FatBootstrap(i) \/ FatBootstrapped(i)
  \/ UnknownOpcode(i) \/ BadToken(i)
  \/ FsMount(i) \/ validate_bpb(i)
  \/ handle_open(i) \/ find_in_directory(i)
  \/ next_cluster(i) \/ FatSectorRead(i)
  \/ handle_read(i) \/ read_file_data(i)
  \/ handle_close(i) \/ handle_stat(i)
  \/ handle_readdir(i) \/ read_dir_entry_at_index(i)

=============================================================================
