------------------------------- MODULE Procmgr -------------------------------
(***************************************************************************)
(* The process manager (procmgr/src): the pool of memory frames, the table *)
(* of processes, creation from a boot module and from a file, and start.   *)
(***************************************************************************)
EXTENDS Processes, SequencesExt

-----------------------------------------------------------------------------
(* ELF segments and pages (shared/elf, procmgr/src/loader.rs; init loads   *)
(* the process manager the same way) and what is written into a page.  A   *)
(* word is a record, so that a header can be told from data; [at |-> 0] is *)
(* a zero word.                                                            *)

CONSTANTS
  PAGE_WORDS,        \* words in a page
  HEADER_WORDS,      \* words of an ELF header and its program headers
  PROCESS_STACK_PAGES,
  Modules            \* boot module -> the words of its file

Zero == [at |-> 0]
EmptyPage == [k \in 1..PAGE_WORDS |-> Zero]

\* elf::validate on the part of a file that was read, and the program headers.
ValidElf(data) == Len(data) >= HEADER_WORDS /\ "segments" \in DOMAIN data[1]
Segments(data) == data[1].segments

\* load_segments and load_segments_metadata skip empty segments and refuse one
\* that lies outside the file.
WellPlaced(seg, size) == seg.offset + seg.filesz <= size /\ seg.filesz <= seg.memsz

FirstPage(seg) == (seg.vaddr \div PAGE_WORDS) * PAGE_WORDS
NumPages(seg) ==
  IF seg.memsz = 0 THEN 0
  ELSE (seg.vaddr + seg.memsz + PAGE_WORDS - 1) \div PAGE_WORDS - (seg.vaddr \div PAGE_WORDS)

PagesOf(seg) ==
  [k \in 1..NumPages(seg) |-> [vaddr |-> FirstPage(seg) + (k - 1) * PAGE_WORDS, seg |-> seg]]
AllPages(segments) == FlattenSeq([k \in 1..Len(segments) |-> PagesOf(segments[k])])

\* copy_segment_data: a page of a segment whose bytes are at hand.
Least(a, b) == IF a <= b THEN a ELSE b
Monus(a, b) == IF a >= b THEN a - b ELSE 0

copy_segment_data(page, file_data) ==
  LET from == Least(Monus(page.vaddr, page.seg.vaddr), Len(file_data))
      to == Least(Monus(page.vaddr, page.seg.vaddr) + PAGE_WORDS, Len(file_data))
      dest == Monus(page.seg.vaddr, page.vaddr)
      len == Least(to - from, PAGE_WORDS - dest)
  IN  [k \in 1..PAGE_WORDS |->
         IF k > dest /\ k <= dest + len THEN file_data[from + k - dest] ELSE Zero]

load_elf_page(page, file) ==
  copy_segment_data(page, SubSeq(file, page.seg.offset + 1, page.seg.offset + page.seg.filesz))

\* stream_segment_to_frame: the part of the file a page wants.
CopyStart(page) == IF page.vaddr >= page.seg.vaddr THEN page.vaddr ELSE page.seg.vaddr
CopyEnd(page) == Least(page.vaddr + PAGE_WORDS, page.seg.vaddr + page.seg.filesz)
DestOffset(page) == CopyStart(page) - page.vaddr
\* Mutation: every page of a segment is read from its start.
SegmentOffset(page) == page.seg.offset

FileOffset(page) == page.seg.offset + (CopyStart(page) - page.seg.vaddr)
ToRead(page) == Monus(CopyEnd(page), CopyStart(page))

\* Words written at a place in a page.
Written(page, at, words) ==
  [k \in 1..PAGE_WORDS |->
     IF k > at /\ k <= at + Len(words) THEN words[k - at] ELSE page[k]]

\* The reference: what a word of a loaded program holds.
ImageWord(file, seg, va) ==
  IF va >= seg.vaddr /\ va < seg.vaddr + seg.filesz
    THEN file[seg.offset + (va - seg.vaddr) + 1] ELSE Zero

ImageOf(file) ==
  [k \in 1..Len(AllPages(Segments(file))) |->
     LET page == AllPages(Segments(file))[k]
     IN  [w \in 1..PAGE_WORDS |-> ImageWord(file, page.seg, page.vaddr + w - 1)]]

-----------------------------------------------------------------------------
(* The process.                                                            *)

CONSTANTS
  MAX_PROCESSES, MAX_FREE_PAGES, MAX_GRANT,
  VFS_CHUNK,          \* words asked for in one FS_READ
  Instances           \* program -> the threads that run it, in order of creation

VARIABLE pm

NoJob ==
  [file |-> NoCap, size |-> 0, data |-> <<>>, hdr |-> 0, pages |-> <<>>, frame |-> EmptyPage,
   pos |-> 0, image |-> <<>>, thread |-> "none", error |-> "none"]

ProcmgrInit ==
  pm = [pc |-> "start", vfsd |-> NoCap,
        pool |-> [free |-> <<>>, current |-> <<>>, later |-> <<>>],
        given |-> {}, table |-> <<>>, next |-> 1, job |-> NoJob,
        images |-> [t \in {} |-> <<>>]]

PmStep(pc) == pm' = [pm EXCEPT !.pc = pc]

\* bootstrap_from_init and the beginning of main.
PmBootstrap ==
  /\ Running("procmgr") /\ pm.pc = "start"
  /\ request_round("procmgr") /\ PmStep("boot")
  /\ UNCHANGED processVars

PmBootstrapped ==
  /\ pm.pc = "boot" /\ Answered("procmgr")
  /\ IF answer["procmgr"].label = "DONE"
       THEN /\ pm' = [pm EXCEPT !.pc = "serve", !.pool.later = answer["procmgr"].data]
            /\ threads' = Keep("procmgr") /\ UNCHANGED events
       ELSE /\ PmStep("ended")
            /\ threads' = Ended("procmgr") /\ events' = Posted("procmgr", "exit")
  /\ UNCHANGED <<inbox, answer, faults>>

\* FramePool::alloc_page: the free list, then the current capability, whose
\* last page is the capability itself, then the next capability.
HasPage(pool) == pool.free # <<>> \/ pool.current # <<>> \/ pool.later # <<>>

\* Mutation: a page from the free list stays on it.
alloc_page_kept(pool) ==
  IF pool.free # <<>> THEN [page |-> Last(pool.free), pool |-> pool]
  ELSE IF pool.current # <<>>
    THEN [page |-> Head(pool.current), pool |-> [pool EXCEPT !.current = Tail(@)]]
  ELSE [page |-> Head(Head(pool.later)),
        pool |-> [pool EXCEPT !.current = Tail(Head(pool.later)), !.later = Tail(@)]]

alloc_page(pool) ==
  IF pool.free # <<>>
    THEN [page |-> Last(pool.free), pool |-> [pool EXCEPT !.free = Front(@)]]
  ELSE IF pool.current # <<>>
    THEN [page |-> Head(pool.current), pool |-> [pool EXCEPT !.current = Tail(@)]]
  ELSE [page |-> Head(Head(pool.later)),
        pool |-> [pool EXCEPT !.current = Tail(Head(pool.later)), !.later = Tail(@)]]

free_page(pool, page) ==
  IF Len(pool.free) < MAX_FREE_PAGES THEN [pool EXCEPT !.free = Append(@, page)] ELSE pool

\* n allocations in a row, stopping where the pool is empty.
AllocUpTo(pool, n) ==
  LET Step(acc, k) ==
        IF HasPage(acc.pool)
          THEN [pool |-> alloc_page(acc.pool).pool,
                pages |-> Append(acc.pages, alloc_page(acc.pool).page)]
          ELSE acc
  IN  FoldLeft(Step, [pool |-> pool, pages |-> <<>>], [k \in 1..n |-> k])

Took(p, alloc) ==
  [p EXCEPT !.pool = alloc.pool, !.given = @ \cup ToSet(alloc.pages)]

PmServes(op) == pm.pc = "serve" /\ Waiting("procmgr") /\ Oldest("procmgr").op = op

PmReply(p, r) ==
  Respond("procmgr", r) /\ pm' = [p EXCEPT !.pc = "serve", !.job = NoJob]

PmUnknown ==
  /\ pm.pc = "serve" /\ Waiting("procmgr") /\ UNCHANGED processVars
  /\ Oldest("procmgr").op \notin {"CREATE_PROCESS", "START_PROCESS", "REQUEST_FRAMES",
                                "SET_VFSD_EP", "CREATE_FROM_VFS"}
  /\ PmReply(pm, [label |-> "UNKNOWN_OPCODE"])

\* handle_request_frames.
handle_request_frames ==
  /\ PmServes("REQUEST_FRAMES") /\ UNCHANGED processVars
  /\ LET n == Oldest("procmgr").count
         alloc == AllocUpTo(pm.pool, n)
     IN  IF n = 0 \/ n > MAX_GRANT THEN PmReply(pm, [label |-> "INVALID_ARGUMENT"])
         ELSE IF alloc.pages = <<>> THEN PmReply(pm, [label |-> "REQUEST_FRAMES_OOM"])
         ELSE PmReply(Took(pm, alloc), [label |-> "SUCCESS", frames |-> alloc.pages])

\* populate_child_info, map_child_stack_and_ipc and finalize_creation: the
\* child exists, with its creator's capability, and is not yet running.  The
\* table's verdict on a full table is not looked at.
ChildPages == 1 + PROCESS_STACK_PAGES + 1

Unused(program) == {k \in DOMAIN Instances[program] :
                      threads[Instances[program][k]].state = "none"}
NewThread(program) ==
  Instances[program][CHOOSE k \in Unused(program) : \A j \in Unused(program) : k <= j]

\* Mutation: the last row is never used.
insert_but_last(table, entry) ==
  IF Len(table) < MAX_PROCESSES - 1 THEN Append(table, entry) ELSE table

insert(table, entry) ==
  IF Len(table) < MAX_PROCESSES THEN Append(table, entry) ELSE table

finalize_creation(p, thread, image) ==
  [p EXCEPT !.next = @ + 1,
            !.table = insert(@, [token |-> p.next, thread |-> thread, started |-> FALSE]),
            !.images = (thread :> image) @@ @]

Created(thread, creator) ==
  threads' = [threads EXCEPT ![thread].state = "created", ![thread].creator = creator]

CreateResult(thread) ==
  [label |-> "SUCCESS", handle |-> [ep |-> "procmgr", token |-> pm.next], thread |-> thread]

\* handle_create and create_process_from_bytes: no call leaves the process
\* manager, so the whole creation is one step.  When a kernel call or the pool
\* fails, the frames taken so far stay taken.
ModuleImage(file) ==
  [k \in 1..Len(AllPages(Segments(file))) |->
     load_elf_page(AllPages(Segments(file))[k], file)]

handle_create ==
  /\ PmServes("CREATE_PROCESS") /\ UNCHANGED events
  /\ LET m == Oldest("procmgr")
         file == Modules[m.module]
         need == Len(AllPages(Segments(file))) + ChildPages
         alloc == AllocUpTo(pm.pool, need)
         thread == NewThread(m.module)
     IN  \/ /\ Len(alloc.pages) = need /\ Works
            /\ PmReply(Took(finalize_creation(pm, thread, ModuleImage(file)), alloc),
                       CreateResult(thread))
            /\ Created(thread, m.creator)
         \/ /\ Len(alloc.pages) < need /\ Works
            /\ PmReply(Took(pm, alloc), [label |-> "OUT_OF_MEMORY"])
            /\ UNCHANGED threads
         \/ /\ Fails
            /\ \E n \in {0, need} :
                 PmReply(Took(pm, AllocUpTo(pm.pool, n)), [label |-> "OUT_OF_MEMORY"])
            /\ UNCHANGED threads

\* start_process: the token of the handle names the process.
Entries(token) == {k \in DOMAIN pm.table : pm.table[k].token = token}

StartFirst(k) == [pm EXCEPT !.table[k].started = TRUE]

start_process ==
  /\ PmServes("START_PROCESS") /\ UNCHANGED events
  /\ LET ks == Entries(Oldest("procmgr").token)
         k == CHOOSE j \in ks : TRUE
         refused == IF ks = {} THEN TRUE ELSE pm.table[k].started
     IN  \/ /\ refused /\ Works /\ UNCHANGED threads
            /\ PmReply(pm, [label |-> IF ks = {} THEN "INVALID_TOKEN" ELSE "ALREADY_STARTED"])
         \/ /\ ~refused /\ Works
            /\ PmReply(StartFirst(k), [label |-> "SUCCESS"])
            /\ threads' = [threads EXCEPT ![pm.table[k].thread].state = "running"]
         \/ /\ ~refused /\ Fails
            /\ PmReply(pm, [label |-> "START_FAILED"]) /\ UNCHANGED threads

SetVfsdEp ==
  /\ PmServes("SET_VFSD_EP") /\ UNCHANGED processVars
  /\ PmReply([pm EXCEPT !.vfsd = Oldest("procmgr").cap], [label |-> "SUCCESS"])

\* handle_create_from_vfs: the file is opened through vfsd and sized ...
CallAs(cap, m, p) == CallCap("procmgr", cap, m) /\ pm' = p

AskVfs(p, pc, m) == CallAs(p.job.file, m, [p EXCEPT !.pc = pc])

handle_create_from_vfs ==
  /\ PmServes("CREATE_FROM_VFS") /\ UNCHANGED processVars
  /\ CASE pm.vfsd = NoCap -> PmReply(pm, [label |-> "NO_VFSD_ENDPOINT"])
       [] pm.vfsd # NoCap /\ Oldest("procmgr").path = <<>> ->
            PmReply(pm, [label |-> "FILE_NOT_FOUND"])
       [] OTHER ->
            CallAs(pm.vfsd, [op |-> "OPEN", path |-> Oldest("procmgr").path],
                 [pm EXCEPT !.pc = "open"])

PmError(p, error) == PmReply(p, [label |-> error])

\* Closing the file comes before some of the replies, not before all.
CloseThen(p, error) ==
  AskVfs([p EXCEPT !.job.error = error], "close", [op |-> "FS_CLOSE"])

vfs_open ==
  /\ pm.pc = "open" /\ Answered("procmgr") /\ UNCHANGED processVars
  /\ IF answer["procmgr"].label = "SUCCESS"
       THEN AskVfs([pm EXCEPT !.job.file = answer["procmgr"].cap], "stat", [op |-> "FS_STAT"])
       ELSE PmError(pm, "FILE_NOT_FOUND")

\* ... then its first page is read, chunk by chunk, into a frame ...
ReadChunk(p, pc, offset, left) ==
  AskVfs(p, pc, [op |-> "FS_READ", offset |-> offset, max_len |-> Least(VFS_CHUNK, left)])

HeaderSize == Least(pm.job.size, PAGE_WORDS)

vfs_stat ==
  /\ pm.pc = "stat" /\ Answered("procmgr") /\ UNCHANGED <<threads, events>>
  /\ LET size == answer["procmgr"].size
         sized == [pm EXCEPT !.job.size = size]
         alloc == AllocUpTo(pm.pool, 1)
         mapped == [Took(sized, alloc) EXCEPT !.job.hdr = Head(alloc.pages)]
     IN  IF answer["procmgr"].label # "SUCCESS" THEN PmError(pm, "IO_ERROR") /\ Works
         ELSE IF size = 0 THEN CloseThen(sized, "INVALID_ELF") /\ Works
         ELSE IF alloc.pages = <<>> THEN CloseThen(sized, "OUT_OF_MEMORY") /\ Works
         ELSE \/ ReadChunk(mapped, "hdr", 0, Least(size, PAGE_WORDS)) /\ Works
              \/ CloseThen(Took(sized, alloc), "OUT_OF_MEMORY") /\ Fails

\* ... and, once the header is complete or the file ends, validated.
HeaderRead(p) ==
  \/ /\ ~ValidElf(p.job.data) /\ Works
     /\ PmError(p, "INVALID_ELF") /\ UNCHANGED threads
  \/ /\ ValidElf(p.job.data) /\ Works
     /\ pm' = [p EXCEPT !.pc = "page", !.job.pages = AllPages(Segments(p.job.data)),
                        !.job.thread = NewThread(p.job.data[1].program)]
     /\ UNCHANGED <<inbox, answer, threads>>
  \/ /\ ValidElf(p.job.data) /\ Fails
     /\ PmError(p, "OUT_OF_MEMORY") /\ UNCHANGED threads

vfs_read_header ==
  /\ pm.pc = "hdr" /\ Answered("procmgr") /\ UNCHANGED events
  /\ LET data == pm.job.data \o answer["procmgr"].data
         read == [pm EXCEPT !.job.data = data]
     IN  IF answer["procmgr"].label # "SUCCESS"
           THEN PmError(pm, "IO_ERROR") /\ UNCHANGED <<threads, faults>>
         ELSE IF answer["procmgr"].len = 0 \/ Len(data) >= HeaderSize
           THEN HeaderRead(read)
         ELSE /\ ReadChunk(read, "hdr", Len(data), HeaderSize - Len(data))
              /\ UNCHANGED <<threads, faults>>

\* load_elf_page_streaming: a frame per page, filled from the file.  After the
\* last page the header's frame goes back and the file is closed.
PageDone(p) ==
  [p EXCEPT !.pc = "page", !.job.pages = Tail(@), !.job.frame = EmptyPage,
            !.job.image = Append(@, p.job.frame), !.job.pos = 0]

LoadPage ==
  /\ pm.pc = "page" /\ UNCHANGED <<threads, events>>
  /\ LET page == Head(pm.job.pages)
         alloc == AllocUpTo(pm.pool, 1)
         taken == Took(pm, alloc)
     IN  IF pm.job.pages = <<>>
           THEN /\ CloseThen([pm EXCEPT !.pool = free_page(@, pm.job.hdr),
                                        !.given = @ \ {pm.job.hdr}], "none")
                /\ Works
         ELSE IF alloc.pages = <<>> THEN PmError(pm, "INVALID_ELF") /\ Works
         ELSE \/ PmError(taken, "INVALID_ELF") /\ Fails
              \/ /\ Works
                 /\ IF WellPlaced(page.seg, pm.job.size)
                      THEN IF ToRead(page) = 0
                             THEN pm' = PageDone(taken) /\ UNCHANGED <<inbox, answer>>
                             ELSE ReadChunk(taken, "chunk", FileOffset(page), ToRead(page))
                      ELSE PmError(pm, "INVALID_ELF")

\* stream_segment_to_frame: a failed or empty read leaves the rest zero.
stream_segment_to_frame ==
  /\ pm.pc = "chunk" /\ Answered("procmgr") /\ UNCHANGED processVars
  /\ LET page == Head(pm.job.pages)
         words == SubSeq(answer["procmgr"].data, 1,
                         Least(answer["procmgr"].len, ToRead(page) - pm.job.pos))
         pos == pm.job.pos + Len(words)
         read == [pm EXCEPT !.job.pos = pos,
                            !.job.frame = Written(@, DestOffset(page) + pm.job.pos, words)]
     IN  IF answer["procmgr"].label # "SUCCESS" THEN pm' = PageDone(pm) /\ UNCHANGED <<inbox, answer>>
         ELSE IF words = <<>> \/ pos >= ToRead(page)
           THEN pm' = PageDone(read) /\ UNCHANGED <<inbox, answer>>
         ELSE ReadChunk(read, "chunk", FileOffset(page) + pos, ToRead(page) - pos)

\* vfs_close, and then the error that made it close or the rest of the creation.
vfs_close ==
  /\ pm.pc = "close" /\ Answered("procmgr") /\ UNCHANGED events
  /\ LET alloc == AllocUpTo(pm.pool, ChildPages)
         thread == pm.job.thread
         made == Took(finalize_creation(pm, thread, pm.job.image), alloc)
     IN  \/ /\ pm.job.error # "none" /\ Works
            /\ PmError(pm, pm.job.error) /\ UNCHANGED threads
         \/ /\ pm.job.error = "none" /\ Len(alloc.pages) < ChildPages /\ Works
            /\ PmError(Took(pm, alloc), "OUT_OF_MEMORY") /\ UNCHANGED threads
         \/ /\ pm.job.error = "none" /\ Fails
            /\ PmError(Took(pm, alloc), "OUT_OF_MEMORY") /\ UNCHANGED threads
         \/ /\ pm.job.error = "none" /\ Len(alloc.pages) = ChildPages /\ Works
            /\ PmReply(made, CreateResult(thread))
            /\ Created(thread, Oldest("procmgr").creator)

PmNext ==
  \/ PmBootstrap \/ PmBootstrapped
  \/ PmUnknown \/ handle_request_frames \/ handle_create \/ start_process \/ SetVfsdEp
  \/ handle_create_from_vfs \/ vfs_open \/ vfs_stat \/ vfs_read_header
  \/ LoadPage \/ stream_segment_to_frame \/ vfs_close

=============================================================================
