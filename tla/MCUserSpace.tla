---------------------------- MODULE MCUserSpace -----------------------------
(***************************************************************************)
(* One small machine for UserSpace: a disk with a FAT16 root partition and *)
(* a FAT32 system partition, a PCI bus with one virtio block device, the   *)
(* boot modules, and several amounts of memory.                            *)
(***************************************************************************)
EXTENDS UserSpace

Word(n) == [at |-> n]

\* Directory entries.
Deleted == [kind |-> "deleted"]
End == [kind |-> "end"]
Lfn(seq, piece) == [kind |-> "lfn", seq |-> seq, piece |-> piece]
Entry(short, dir, cluster, size) ==
  [kind |-> "entry", short |-> short, dir |-> dir, cluster |-> cluster, size |-> size]

McShort ==
  (<<"config">> :> "CONFIG") @@ (<<"mounts.conf">> :> "MOUNTS  CON")
  @@ (<<"bin">> :> "BIN") @@ (<<"svcmgr">> :> "SVCMGR") @@ (<<"EFI">> :> "EFI")
  @@ (<<"seraph">> :> "SERAPH") @@ (<<"boot.conf">> :> "BOOT    CON")
  @@ (<<"long-", "name">> :> "LONG-NAM") @@ (<<"none">> :> "NONE") @@ (<<"esp">> :> "ESP") @@ (<<"again">> :> "AGAIN")

\* The file of svcmgr: a header of two words, a segment of seven words that
\* begins in the middle of a page and has three more words of memory.
SvcmgrSegments == <<[vaddr |-> 12, offset |-> 2, filesz |-> 7, memsz |-> 10]>>
SvcmgrFile ==
  [k \in 1..9 |->
     IF k = 1 THEN [at |-> 1, segments |-> SvcmgrSegments, program |-> "svcmgr"]
     ELSE Word(100 + k)]

MountsConfFile ==
  <<[at |-> 1, text |-> "comment"],
    [at |-> 2, uuid |-> "esp", path |-> <<"/", "esp">>],
    [at |-> 3, uuid |-> "gone", path |-> <<"/", "gone">>],
    [at |-> 4, uuid |-> "esp", path |-> <<"/", "again">>]>>

BootConfFile == <<Word(31), Word(32)>>

RootVolume == 4
EspVolume == 15

\* Sector by sector: the partition table, the root volume (clusters from
\* sector 9), the system volume (clusters from sector 21).
McDisk ==
  (0 :> <<>>)
  @@ (1 :> [signature |-> TRUE, lba |-> 2, num |-> 5, per_sector |-> 4])
  @@ (2 :> <<[uuid |-> "gone", first |-> 0, last |-> 0],
             [uuid |-> "root", first |-> RootVolume, last |-> RootVolume + 10],
             [uuid |-> "void", first |-> 9, last |-> 8],
             [uuid |-> "esp", first |-> EspVolume, last |-> EspVolume + 12]>>)
  @@ (3 :> <<[uuid |-> "gone", first |-> 0, last |-> 0],
             [uuid |-> "spare", first |-> 9, last |-> 9]>>)
  \* root: boot sector, two FAT sectors, two root directory sectors
  @@ (4 :> [signature |-> TRUE, sectors_per_cluster |-> 1, reserved |-> 1, num_fats |-> 1,
            root_entries |-> 5, total |-> 11, fat_size |-> 2, root_cluster |-> 0])
  @@ (5 :> <<EndOfChain, EndOfChain, EndOfChain, 6>>)
  @@ (6 :> <<EndOfChain, 7, EndOfChain, EndOfChain>>)
  @@ (7 :> <<Deleted, Lfn(2, "name"), Lfn(1, "long-"), Entry("LONG-N~1", FALSE, 0, 0)>>)
  @@ (8 :> <<Entry("CONFIG", TRUE, 2, 0), Entry("BIN", TRUE, 3, 0), End, End>>)
  @@ (9 :> <<Lfn(1, "mounts.conf"), Entry("MOUNTS~1CON", FALSE, 4, 4), End, End>>)
  @@ (10 :> <<Deleted, Lfn(1, "svcmgr"), Deleted, Entry("SVCMGR~1", FALSE, 4, 4)>>)
  @@ (11 :> MountsConfFile)
  @@ (12 :> SubSeq(SvcmgrFile, 1, 5))
  @@ (13 :> <<Entry("SVCMGR", FALSE, 5, 9), End, End, End>>)
  @@ (14 :> SubSeq(SvcmgrFile, 6, 9))
  \* system: boot sector, five FAT sectors, seven clusters
  @@ (15 :> [signature |-> TRUE, sectors_per_cluster |-> 1, reserved |-> 1, num_fats |-> 1,
             root_entries |-> 0, total |-> 13, fat_size |-> 5, root_cluster |-> 2])
  @@ (16 :> <<EndOfChain, EndOfChain>>)
  @@ (17 :> <<7, EndOfChain>>)
  @@ (18 :> <<EndOfChain, EndOfChain>>)
  @@ (19 :> <<EndOfChain, EndOfChain>>)
  @@ (20 :> <<BadCluster, EndOfChain>>)
  @@ (21 :> <<Deleted, Deleted, Deleted, Deleted>>)
  @@ (22 :> <<Entry("SERAPH", TRUE, 4, 0), End, End, End>>)
  @@ (23 :> <<Lfn(1, "boot.conf"), Entry("BOOT~1  CON", FALSE, 5, 2), End, End>>)
  @@ (24 :> BootConfFile)
  @@ (25 :> <<>>)
  @@ (26 :> <<Entry("EFI", TRUE, 3, 0), End, End, End>>)
  @@ (27 :> <<>>)

McCapacity == 28

McFiles ==
  (MountsConf :> MountsConfFile) @@ (BootConf :> BootConfFile) @@ (SvcmgrPath :> SvcmgrFile)

\* PCI: a bridge, a device of two functions, the block device.
NoRegs == [k \in 1..6 |-> [kind |-> "none", base |-> 0, size |-> 0]]
Regs(vendor, device, multi) ==
  [vendor |-> vendor, device |-> device, multi |-> multi, header |-> 0, bars |-> NoRegs,
   cap_ptr |-> 0, caps |-> <<>>, irq_line |-> 0, irq_pin |-> 0]

BlkRegs ==
  [Regs("virtio", "blk", FALSE) EXCEPT
     !.bars = <<[kind |-> "io", base |-> 3, size |-> 1],
                [kind |-> "mem32", base |-> 2, size |-> 1],
                [kind |-> "none", base |-> 0, size |-> 0],
                [kind |-> "mem64", base |-> 20, size |-> 2],
                [kind |-> "mem32", base |-> 0, size |-> 1],
                [kind |-> "none", base |-> 0, size |-> 0]>>,
     !.cap_ptr = 2,
     !.caps = <<[next |-> 0, id |-> "virtio", type |-> "common", bar |-> 3],
                [next |-> 3, id |-> "msix", type |-> "none", bar |-> 1],
                [next |-> 1, id |-> "virtio", type |-> "notify", bar |-> 1]>>,
     !.irq_pin = 1]

McConfigSpace ==
  (<<0, 0, 0>> :> Regs("intel", "bridge", FALSE))
  @@ (<<0, 1, 0>> :> Regs("intel", "net", TRUE))
  @@ (<<0, 1, 1>> :> Regs("intel", "net", FALSE))
  @@ (<<0, 2, 0>> :> BlkRegs)
  @@ (<<0, 2, 1>> :> Regs("virtio", "blk", FALSE))

McEcam == [ep |-> "ecam", token |-> 0]
McWindows ==
  <<[ep |-> "mmio", token |-> 0, base |-> 0, size |-> 8],
    [ep |-> "mmio", token |-> 0, base |-> 16, size |-> 16]>>
McIrqs == [k \in 1..3 |-> [ep |-> "irq", token |-> 32 + k]]

\* Boot modules: one page each, the process manager two.
Module(program, segments) ==
  <<[at |-> 1, segments |-> segments, program |-> program], Word(2)>>
  \o [k \in 1..6 |-> Word(200 + k)]
SmallSegments == <<[vaddr |-> 1, offset |-> 2, filesz |-> 2, memsz |-> 3]>>
McModules ==
  [m \in {"devmgr", "vfsd", "virtio_blk", "fatfs", "crasher", "allocsmoke"} |->
     Module(m, SmallSegments)]
  @@ ("procmgr" :> Module("procmgr", <<[vaddr |-> 4, offset |-> 2, filesz |-> 6, memsz |-> 8]>>))

McInstances ==
  [devmgr |-> <<"devmgr">>, vfsd |-> <<"vfsd">>, virtio_blk |-> <<"blk">>,
   fatfs |-> <<"fatfs1", "fatfs2", "fatfs3">>, svcmgr |-> <<"svcmgr">>,
   crasher |-> <<"crasher1", "crasher2">>, allocsmoke |-> <<"smoke">>]

McVolumes == {"fatfs1", "fatfs2", "fatfs3"}
McCrashers == {"crasher1", "crasher2"}
McSmokes == {"smoke"}
McDriverEndpoints == <<"fs1", "fs2", "fs3">>

McThreads ==
  {"init", "log", "procmgr", "devmgr", "blk", "vfsd", "svcmgr", "app"}
  \cup McVolumes \cup McCrashers \cup McSmokes
McEndpoints ==
  {"init_boot", "procmgr", "log", "registry", "devmgr_boot", "blk", "vfsd", "vfsd_boot",
   "fs1", "fs2", "fs3", "svcmgr", "svcmgr_boot"}
McQueues == 1..3

\* Memory: enough, not enough for every process, and a second capability too
\* small for the log thread.
Pages(a, b) == [k \in 1..(b - a + 1) |-> a + k - 1]
Plenty == <<Pages(1, 2), Pages(3, 8), Pages(9, 20), Pages(21, 70)>>
McNames == {"probe", "app"}

\* The application.  A call to "last" uses the capability last received.
Ask1(to, m) == [to |-> to, m |-> m]
Op(op) == [op |-> op]
Open(path) == Ask1(Cap("vfsd"), [op |-> "OPEN", path |-> path])
OnLast(m) == Ask1(Cap("last"), m)
ReadDir(k) == OnLast([op |-> "FS_READDIR", index |-> k])
ReadAt(k, len) == OnLast([op |-> "FS_READ", offset |-> k, max_len |-> len])
Mount(uuid, path) == Ask1(Cap("vfsd"), [op |-> "MOUNT", uuid |-> uuid, path |-> path])
Register(name, module, policy, criticality) ==
  Ask1(Cap("svcmgr"), [op |-> "REGISTER_SERVICE", name |-> name, thread |-> "app", module |-> module,
                      caps |-> <<>>, policy |-> policy, criticality |-> criticality])
Publish(name, cap) == Ask1(Cap("svcmgr"), [op |-> "PUBLISH_ENDPOINT", name |-> name, cap |-> cap])
Query(name) == Ask1(Cap("svcmgr"), [op |-> "QUERY_ENDPOINT", name |-> name])
Procmgr(m) == Ask1(Cap("procmgr"), m)

Directories ==
  <<Open(<<"/", "bin">>), ReadDir(0), ReadDir(1), ReadDir(2), OnLast(Op("FS_OPEN")),
    Open(<<"/", "config", "/", "mounts.conf">>), ReadDir(0), ReadAt(0, 9), ReadAt(4, 1),
    Open(<<"/", "config">>)>>
EspRoot ==
  <<Open(<<"/", "esp", "/">>), ReadDir(0), ReadDir(1), OnLast(Op("FS_CLOSE")), ReadAt(0, 1),
    Open(<<"/", "esp">>)>>
RootList ==
  <<Open(<<"/", "/">>), ReadDir(2), ReadDir(3), Open(<<"/", "long-", "name", "/", "none">>)>>
Clients ==
  <<Publish("", Cap("app")), Publish("app", NoCap), Publish("app", Cap("app")),
    Publish("app", Cap("app")), Query("app"), Query(""), Query("none"),
    Register("", "app", "always", "normal"), Register("app", "none", "always", "normal"),
    Register("app", "fatfs", "on_failure", "normal"), Register("app", "fatfs", "always", "fatal")>>
Fatal == <<Register("app", "fatfs", "always", "fatal")>>
Refused ==
  <<Procmgr([op |-> "REQUEST_FRAMES", count |-> 0]), Procmgr(Op("START_PROCESS")),
    Procmgr([op |-> "CREATE_FROM_VFS", path |-> <<>>]),
    Procmgr([op |-> "CREATE_FROM_VFS", path |-> <<"/", "none">>]),
    Procmgr([op |-> "CREATE_FROM_VFS", path |-> <<"/", "long-", "name">>]),
    Procmgr([op |-> "CREATE_FROM_VFS", path |-> <<"/", "config", "/", "mounts.conf">>]),
    Procmgr(Op("NONE")), Ask1(Cap("registry"), Op("NONE")), Ask1(Cap("vfsd"), Op("NONE")),
    Ask1(Cap("registry"), Op("QUERY_DEVICE_INFO")), Ask1(Cap("svcmgr"), Op("NONE")),
    Mount("root", <<>>), Mount("esp", <<"/", "more">>), Mount("gone", <<"/", "x">>), Open(<<>>)>>

Small(n) == <<Pages(1, 2), Pages(3, 8), Pages(9, n)>>
McMachines ==
  {[memory |-> Plenty, faults |-> 1, script |-> <<Publish("app", Cap("app")), Query("app")>>]}
  \cup {[memory |-> Plenty, faults |-> 0, script |-> s] :
          s \in {Directories, EspRoot, RootList, Clients, Fatal, Refused}}
  \cup {[memory |-> Small(n), faults |-> 0, script |-> <<>>] : n \in {12, 17, 18, 20, 35, 52}}
  \cup {[memory |-> <<Pages(1, 2), Pages(3, n), Pages(9, 70)>>, faults |-> 0, script |-> <<>>] :
          n \in {4, 7}}

=============================================================================
