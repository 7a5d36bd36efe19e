--------------------------- MODULE HugeTLBFS_SHM ----------------------------
(***************************************************************************)
(* The allocator of shared huge pages (mica/alloc/hugetlbfs_shm.cc) and    *)
(* the three ways its users build a block out of its pages: contiguous     *)
(* (malloc_contiguous, and the constructors of SegregatedFit and LTable),  *)
(* striped over two NUMA nodes (malloc_striped), and mirrored (the         *)
(* constructor of CircularLog, whose first page shows again past its end). *)
(*                                                                         *)
(* Sizes and addresses are counted in pages.  The calls under state_lock_  *)
(* are one step each; between them other threads run, mmap fails, and the  *)
(* process dies and starts again over the files it left behind.            *)
(***************************************************************************)
EXTENDS Integers, Sequences, FiniteSets, FiniteSetsExt, SequencesExt, Functions

CONSTANTS
  NumFrames, NodeOf,  \* the physical pages, in order, and their NUMA nodes
  LeftBehind,         \* files found at the first start: sets of <<file, frame>>
  NumPagesToInit,     \* num_pages_to_init_
  NumPagesToFree,     \* num_pages_to_free_ of each node
  NumCells,           \* the address space
  Threads, Allocators,
  Requests,           \* the blocks asked for: <<kind, length, node>>
  MaxBlocks,          \* bound on the blocks at a time
  MaxCrashes          \* and on the restarts

Nodes == {0, 1}
Kinds == { "contiguous", "striped", "mirrored" }
Frames == 1 .. NumFrames
Cells == 1 .. NumCells
Vacant == 0           \* a cell that shows no page

ASSUME ShmAssumption ==
  /\ { NumFrames, NumCells } \subseteq Nat \ {0}
  /\ { NumPagesToInit, MaxBlocks, MaxCrashes } \subseteq Nat
  /\ NodeOf \in [Frames -> Nodes] /\ NumPagesToFree \in [Nodes -> Nat]
  /\ \A F \in LeftBehind : F \subseteq Nat \X Frames
  /\ Allocators \subseteq Threads
  /\ Requests \subseteq Kinds \X (Nat \ {0}) \X Nodes /\ IsFiniteSet(Requests)

VARIABLES
  files,       \* hugetlbfs_path_: what survives the process
  crashes,
  phase,       \* of initialize(), or "ready"
  unread,      \* the directory entries that readdir has still to return
  nextFile,    \* next_file_id
  pages,       \* pages_; in the order of creation until they are sorted
  toFree,      \* num_pages_to_free of each node
  entries,     \* entries_
  mappings,    \* mappings_; that its slots are reused makes no difference
  cells,       \* the process's page table
  pc, job,     \* where each thread is, and the block it works on
  blocks       \* the blocks in use

init == <<unread, nextFile, toFree>>
state == <<pages, entries, mappings, cells>>
vars == <<files, crashes, phase, init, state, pc, job, blocks>>
-----------------------------------------------------------------------------
(* Blocks: the entries they take and the segments they map, in order.      *)

\* done: the segments mapped; step: how far the loop at hand has come.
Block(kind, n, node) ==
  [kind |-> kind, n |-> n, node |-> node, ids |-> <<>>, base |-> 0, done |-> 0, step |-> 0]
NoBlock == Block("none", 0, 0)

\* malloc_striped() adds two pages for its own data, and gives both nodes the
\* same number of pages.
Total(b) == IF b.kind = "striped" THEN b.n + 2 ELSE b.n
Wanted(b) ==
  IF b.kind = "striped"
  THEN [e \in 1 .. 2 |-> [node |-> e - 1, n |-> (Total(b) + 1) \div 2]]
  ELSE << [node |-> b.node, n |-> b.n] >>

\* The pages from .. from + n - 1 of the e-th entry, at base + at.
Segment(e, from, n, at) == [e |-> e, from |-> from, n |-> n, at |-> at]

\* Mutant: offset_in_stripe does not advance.
Striped_SamePage(k) == Segment((k % 2) + 1, 0, 1, k)

Striped(k) == Segment((k % 2) + 1, k \div 2, 1, k)

Segments(b) ==
  CASE b.kind = "striped"  -> [k \in 1 .. Total(b) |-> Striped(k - 1)]
    [] b.kind = "mirrored" -> << Segment(1, 0, b.n, 0), Segment(1, 0, 1, b.n) >>
    [] OTHER               -> << Segment(1, 0, b.n, 0) >>

\* The size find_free_address() is asked for.
Region(b) == IF b.kind = "mirrored" THEN b.n + 1 ELSE Total(b)

Unused == [pages |-> <<>>, refcount |-> 0, remove |-> FALSE]
EntryIds == 1 .. 2 * (MaxBlocks + Cardinality(Threads))

NoEntries == [e \in EntryIds |-> Unused]
NoCells == [c \in Cells |-> Vacant]
AllIdle == [t \in Threads |-> "idle"]
NoJobs == [t \in Threads |-> NoBlock]

Init ==
  /\ files \in LeftBehind /\ crashes = 0
  /\ phase = "scan" /\ unread = files /\ nextFile = 0 /\ pages = <<>>
  /\ toFree = NumPagesToFree
  /\ entries = NoEntries /\ mappings = {} /\ cells = NoCells
  /\ pc = AllIdle /\ job = NoJobs /\ blocks = {}

\* The process dies and starts again; what it had mapped is gone, its files
\* are not, unless the configuration says clean_files_on_init.
Crash(clean) ==
  /\ crashes < MaxCrashes /\ crashes' = crashes + 1
  /\ files' = IF clean THEN {} ELSE files
  /\ phase' = "scan" /\ unread' = files' /\ nextFile' = 0 /\ pages' = <<>>
  /\ toFree' = NumPagesToFree
  /\ entries' = NoEntries /\ mappings' = {} /\ cells' = NoCells
  /\ pc' = AllIdle /\ job' = NoJobs /\ blocks' = {}
-----------------------------------------------------------------------------
(* initialize().                                                           *)

NewPage(file, frame) == [file |-> file, frame |-> frame, kept |-> TRUE, inUse |-> FALSE]
FileIds == { f[1] : f \in files }
FrameOf(file) == (CHOOSE f \in files : f[1] = file)[2]

\* The kernel's huge pages that no file holds.
FreeFrames == Frames \ { f[2] : f \in files }

\* Mutant: the ids of the files found are forgotten.
NextFile_Forgotten(file) == nextFile

NextFile(file) == Max({ nextFile, file + 1 })

\* A file of an earlier process is reused, or removed if it cannot be mapped.
\* Bound: readdir returns the first or the last of those that are left.
Reuse ==
  /\ phase = "scan"
  /\ \E f \in unread :
       /\ \/ \A g \in unread : f[1] <= g[1]
          \/ \A g \in unread : f[1] >= g[1]
       /\ unread' = unread \ {f}
       /\ \/ /\ pages' = Append(pages, NewPage(f[1], f[2]))
             /\ nextFile' = NextFile(f[1])
             /\ UNCHANGED files
          \/ /\ files' = files \ {f}
             /\ UNCHANGED <<pages, nextFile>>
  /\ UNCHANGED <<crashes, phase, toFree, entries, mappings, cells, pc, job, blocks>>

\* open(O_CREAT) and mmap of the next file.  Bound: the kernel hands
\* out its free pages in order.
Create ==
  /\ phase = "scan" /\ unread = {} /\ Len(pages) < NumPagesToInit
  /\ nextFile \in FileIds \/ FreeFrames # {}
  /\ LET frame == IF nextFile \in FileIds THEN FrameOf(nextFile) ELSE Min(FreeFrames) IN
     /\ files' = files \cup { <<nextFile, frame>> }
     /\ pages' = Append(pages, NewPage(nextFile, frame))
  /\ nextFile' = nextFile + 1
  /\ UNCHANGED <<crashes, phase, unread, toFree, entries, mappings, cells, pc, job, blocks>>

\* There are enough pages, or no more huge pages; they are sorted by paddr.
Sort ==
  /\ phase = "scan" /\ unread = {}
  /\ \/ Len(pages) >= NumPagesToInit
     \/ nextFile \notin FileIds /\ FreeFrames = {}
  /\ pages' = SortSeq(pages, LAMBDA p, q : p.frame < q.frame)
  /\ phase' = "surplus"
  /\ UNCHANGED <<files, crashes, init, entries, mappings, cells, pc, job, blocks>>

PagesOf(node) == { i \in DOMAIN pages : NodeOf[pages[i].frame] = node }
Kept(node) == { i \in PagesOf(node) : pages[i].kept }

\* The runs of physically contiguous pages among pages I, from .. to.
Runs(I) ==
  { r \in I \X I : /\ r[1] <= r[2] /\ r[1] .. r[2] \subseteq I
                   /\ pages[r[2]].frame - pages[r[1]].frame = r[2] - r[1] }
Size(r) == r[2] - r[1] + 1

\* The first of the largest.
LargestRegion(node) ==
  CHOOSE r \in Runs(Kept(node)) :
    \A q \in Runs(Kept(node)) : Size(q) < Size(r) \/ (Size(q) = Size(r) /\ r[1] <= q[1])

Settled(node) == toFree[node] = 0 \/ Kept(node) = {}

\* The largest region, or as much of it as is asked for, goes back to the
\* kernel, with its files.  Node 1 has its turn after node 0.
Surplus(node) ==
  /\ phase = "surplus" /\ ~Settled(node) /\ \A m \in 0 .. node - 1 : Settled(m)
  /\ LET r == LargestRegion(node)
         n == Min({ Size(r), toFree[node] })
         gone == r[1] .. r[1] + n - 1
     IN  /\ pages' = [i \in DOMAIN pages |->
                        [pages[i] EXCEPT !.kept = @ /\ i \notin gone]]
         /\ files' = { f \in files : \A i \in gone : f[1] # pages[i].file }
         /\ toFree' = [toFree EXCEPT ![node] = @ - n]
  /\ UNCHANGED <<crashes, phase, unread, nextFile, entries, mappings, cells, pc, job, blocks>>

Ready ==
  /\ phase = "surplus" /\ \A node \in Nodes : Settled(node)
  /\ phase' = "ready"
  /\ UNCHANGED <<files, crashes, init, state, pc, job, blocks>>
-----------------------------------------------------------------------------
(* The calls under the lock.                                               *)

At(t, where) == phase = "ready" /\ pc[t] = where
Goto(t, where) == pc' = [pc EXCEPT ![t] = where]
Work(t, b) == job' = [job EXCEPT ![t] = b]
Drop(t) == Work(t, NoBlock) /\ Goto(t, "idle")
Boot == <<files, crashes, phase, init>>
Use(I, used) ==
  pages' = [i \in DOMAIN pages |-> IF i \in I THEN [pages[i] EXCEPT !.inUse = used] ELSE pages[i]]
Show(from, n, shown(_)) ==
  cells' = [c \in Cells |-> IF c \in from .. from + n - 1 THEN shown(c - from) ELSE cells[c]]

Released(x) == x.refcount = 0 /\ x.remove

\* check_release() of an entry that has just become x.
CheckRelease(id, x) ==
  /\ entries' = [entries EXCEPT ![id] = IF Released(x) THEN Unused ELSE x]
  /\ Use(IF Released(x) THEN Range(x.pages) ELSE {}, FALSE)

ScheduleRelease(id) == CheckRelease(id, [entries[id] EXCEPT !.remove = TRUE])

\* unmap() of the mapping at an address.
Unmap(addr) ==
  LET m == CHOOSE m \in mappings : m.addr = addr IN
  /\ mappings' = mappings \ {m}
  /\ Show(addr, m.n, LAMBDA k : Vacant)
  /\ CheckRelease(m.entry, [entries[m.entry] EXCEPT !.refcount = @ - 1])

\* The free pages of a node, in the order of pages_.
FreePages(node) == SetToSortSeq({ i \in Kept(node) : ~pages[i].inUse }, <)
-----------------------------------------------------------------------------
(* The users.                                                              *)

\* A thread wants a block.  Bound: no process but the first gets that far,
\* since all that another would find is the files.
Call(t, kind, n, node) ==
  /\ At(t, "idle") /\ t \in Allocators /\ crashes = 0
  /\ Cardinality(blocks) < MaxBlocks
  /\ Work(t, Block(kind, n, node)) /\ Goto(t, "alloc")
  /\ UNCHANGED <<Boot, state, blocks>>

\* alloc() of the next entry; the entry stays unused if there are not enough
\* pages.
Alloc(t) ==
  LET b == job[t]
      want == Wanted(b)[Len(b.ids) + 1]
      id == Min({ e \in EntryIds : entries[e].pages = <<>> })
      taken == SubSeq(FreePages(want.node), 1, want.n)
  IN
  /\ At(t, "alloc")
  /\ \/ /\ Len(FreePages(want.node)) >= want.n
        /\ entries' = [entries EXCEPT ![id] = [Unused EXCEPT !.pages = taken]]
        /\ Use(Range(taken), TRUE)
        /\ Work(t, [b EXCEPT !.ids = Append(@, id)])
        /\ Goto(t, IF Len(b.ids) + 1 = Len(Wanted(b)) THEN "find" ELSE "alloc")
     \/ /\ Len(FreePages(want.node)) < want.n
        /\ Goto(t, "give up")
        /\ UNCHANGED <<entries, pages, job>>
  /\ UNCHANGED <<Boot, mappings, cells, blocks>>

\* Mutant: a malloc that fails keeps the entries it has got.
ToRelease_None(b) == b.ids = <<>> \/ b.done < Len(Segments(b))

\* No entry of b is left to release.
ToRelease(b) == b.step = Len(b.ids)

\* Mutant: malloc tries alloc() again.
GiveUp_Again(t) ==
  LET b == job[t] IN
  /\ At(t, "give up")
  /\ \/ /\ ToRelease(b) /\ Work(t, Block(b.kind, b.n, b.node)) /\ Goto(t, "alloc")
        /\ UNCHANGED <<entries, pages>>
     \/ /\ ~ToRelease(b)
        /\ ScheduleRelease(b.ids[b.step + 1])
        /\ Work(t, [b EXCEPT !.step = @ + 1])
        /\ UNCHANGED pc
  /\ UNCHANGED <<Boot, mappings, cells, blocks>>

\* The entries that were allocated are released, and nullptr is returned.
GiveUp(t) ==
  LET b == job[t] IN
  /\ At(t, "give up")
  /\ \/ ToRelease(b) /\ Drop(t) /\ UNCHANGED <<entries, pages>>
     \/ /\ ~ToRelease(b)
        /\ ScheduleRelease(b.ids[b.step + 1])
        /\ Work(t, [b EXCEPT !.step = @ + 1])
        /\ UNCHANGED pc
  /\ UNCHANGED <<Boot, mappings, cells, blocks>>

Holes(n) == { a \in Cells : a .. a + n - 1 \subseteq { c \in Cells : cells[c] = Vacant } }

\* find_free_address(), without the lock: it maps a region and unmaps it
\* again, so that nothing keeps it free for its caller.  Bound: the kernel
\* offers the lowest.
Find(t) ==
  /\ At(t, "find") /\ Holes(Region(job[t])) # {}
  /\ Work(t, [job[t] EXCEPT !.base = Min(Holes(Region(job[t])))])
  /\ Goto(t, "map")
  /\ UNCHANGED <<Boot, state, blocks>>

\* No region, or no /dev/zero: the two mallocs give up.  The constructors do
\* not come back from their assertions.
FindFails(t) ==
  /\ At(t, "find") /\ job[t].kind # "mirrored"
  /\ Goto(t, "give up")
  /\ UNCHANGED <<Boot, state, job, blocks>>

\* map() of the next segment, over whatever is there (MAP_FIXED); the page is
\* the one whose file is opened.
Map(t) ==
  LET b == job[t]
      s == Segments(b)[b.done + 1]
      id == b.ids[s.e]
  IN
  /\ At(t, "map")
  /\ Show(b.base + s.at, s.n, LAMBDA k : FrameOf(pages[entries[id].pages[s.from + k + 1]].file))
  /\ mappings' = mappings \cup { [entry |-> id, addr |-> b.base + s.at, n |-> s.n] }
  /\ entries' = [entries EXCEPT ![id].refcount = @ + 1]
  /\ Work(t, [b EXCEPT !.done = @ + 1])
  /\ Goto(t, IF b.done + 1 = Len(Segments(b)) THEN "release" ELSE "map")
  /\ UNCHANGED <<Boot, pages, blocks>>

\* mmap fails within the segment, and map() unmaps the k pages before it; the
\* caller undoes the segments before this one.
MapFails(t) ==
  LET b == job[t]
      s == Segments(b)[b.done + 1]
  IN
  /\ At(t, "map")
  /\ \E k \in 0 .. s.n - 1 : Show(b.base + s.at, k, LAMBDA j : Vacant)
  /\ Goto(t, "undo")
  /\ UNCHANGED <<Boot, pages, entries, mappings, job, blocks>>

\* Every segment is unmapped again.
Undone(b) == b.step = b.done

\* What was mapped is unmapped, from the base on; then the next attempt.
Undo(t) ==
  LET b == job[t] IN
  /\ At(t, "undo")
  /\ \/ /\ Undone(b)
        /\ Work(t, [b EXCEPT !.done = 0, !.step = 0, !.base = 0]) /\ Goto(t, "find")
        /\ UNCHANGED state
     \/ /\ ~Undone(b)
        /\ Unmap(b.base + Segments(b)[b.step + 1].at)
        /\ Work(t, [b EXCEPT !.step = @ + 1])
        /\ UNCHANGED pc
  /\ UNCHANGED <<Boot, blocks>>

\* schedule_release() of every entry: from now on the mappings keep it alive.
Release(t) ==
  LET b == job[t] IN
  /\ At(t, "release")
  /\ \/ /\ ToRelease(b) /\ Drop(t)
        /\ blocks' = blocks \cup { [b EXCEPT !.step = 0] }
        /\ UNCHANGED <<entries, pages>>
     \/ /\ ~ToRelease(b)
        /\ ScheduleRelease(b.ids[b.step + 1])
        /\ Work(t, [b EXCEPT !.step = @ + 1])
        /\ UNCHANGED <<pc, blocks>>
  /\ UNCHANGED <<Boot, mappings, cells>>

\* free_contiguous(), free_striped(), or a destructor: segment by segment.
BeginFree(t) ==
  /\ At(t, "idle")
  /\ \E b \in blocks : blocks' = blocks \ {b} /\ Work(t, b)
  /\ Goto(t, "free")
  /\ UNCHANGED <<Boot, state>>

Free(t) ==
  LET b == job[t] IN
  /\ At(t, "free")
  /\ \/ Undone(b) /\ Drop(t) /\ UNCHANGED state
     \/ /\ ~Undone(b)
        /\ Unmap(b.base + Segments(b)[b.step + 1].at)
        /\ Work(t, [b EXCEPT !.step = @ + 1])
        /\ UNCHANGED pc
  /\ UNCHANGED <<Boot, blocks>>
-----------------------------------------------------------------------------
Boots == Reuse \/ Create \/ Sort \/ Ready \/ \E node \in Nodes : Surplus(node)

Calls(t) == \E r \in Requests : Call(t, r[1], r[2], r[3])

\* What a thread does once it has called.
Steps(t) ==
  \/ Alloc(t) \/ GiveUp(t) \/ Find(t) \/ FindFails(t) \/ Map(t) \/ MapFails(t)
  \/ Undo(t) \/ Release(t) \/ Free(t)

Next ==
  \/ Boots
  \/ \E clean \in BOOLEAN : Crash(clean)
  \/ \E t \in Threads : Calls(t) \/ BeginFree(t) \/ Steps(t)

\* Threads run, and mmap does not fail at the same segment for ever.
Fairness ==
  /\ \A t \in Threads : WF_vars(Steps(t))
  /\ \A t \in Allocators :
       \A k \in 0 .. Max({ r[2] : r \in Requests }) + 1 : SF_vars(job[t].done = k /\ Map(t))

Spec == Init /\ [][Next]_vars /\ Fairness
-----------------------------------------------------------------------------
(* Properties.                                                             *)

\* The files and the pages agree whatever a dead process left behind: no two
\* pages share a file or a frame, a page that is kept has its file, and alloc()
\* meets the pages in physical order.  After start-up each node has given back
\* what num_pages_to_free asks for, and "largest regions first": no run that
\* was left whole is larger than one that lost a page (hugetlbfs_shm.cc:388).
PagesSound ==
  /\ \A i, j \in DOMAIN pages :
       i # j => pages[i].file # pages[j].file /\ pages[i].frame # pages[j].frame
  /\ \A i \in DOMAIN pages :
       (<<pages[i].file, pages[i].frame>> \in files) = pages[i].kept
  /\ phase # "scan" => \A i, j \in DOMAIN pages : i < j => pages[i].frame < pages[j].frame
  /\ phase = "ready" =>
       \A node \in Nodes :
         LET lost == PagesOf(node) \ Kept(node) IN
         /\ Cardinality(lost) = Min({ NumPagesToFree[node], Cardinality(PagesOf(node)) })
         /\ \A p \in lost : \A q \in Runs(Kept(node)) :
              \E r \in Runs(PagesOf(node)) :
                /\ p \in r[1] .. r[2]
                /\ \/ Size(q) <= Size(r)
                   \/ q[1] .. q[2] \cap r[1] .. r[2] # {}
                   \/ q \notin Runs(PagesOf(node))

\* A page is in use exactly while one entry lists it, an entry's refcount is
\* the number of its mappings, and an entry lives only as long as a call works
\* on it or a mapping shows it: neither a failed malloc nor a failed map()
\* leaks a page (:886, :935, :962).
PagesAccounted ==
  LET Lists(i) == { e \in EntryIds : i \in Range(entries[e].pages) } IN
  /\ \A i \in DOMAIN pages : Cardinality(Lists(i)) = IF pages[i].inUse THEN 1 ELSE 0
  /\ \A e \in EntryIds :
       /\ entries[e].refcount = Cardinality({ m \in mappings : m.entry = e })
       /\ entries[e].pages # <<>> =>
            \/ entries[e].refcount > 0
            \/ \E t \in Threads : pc[t] # "free" /\ e \in Range(job[t].ids)
  /\ \A m \in mappings :
       \E b \in blocks \cup Range(job) :
         \E k \in 1 .. b.done : m.addr = b.base + Segments(b)[k].at /\ m.entry = b.ids[Segments(b)[k].e]

\* What a caller of malloc relies on: as long as it holds the block its cells
\* show pages in use, of the node asked for or of the nodes in turn, each page
\* once (the end of a mirrored block shows its first page again), and no
\* page of another block.
BlocksBacked ==
  LET View(b) == [k \in 0 .. Region(b) - 1 |-> cells[b.base + k]]
      Own(b) == 0 .. Total(b) - 1
      InUse == { pages[i].frame : i \in { i \in DOMAIN pages : pages[i].inUse } }
  IN
  /\ \A b \in blocks :
       /\ Range(View(b)) \subseteq InUse
       /\ \A k \in Own(b) : NodeOf[View(b)[k]] = IF b.kind = "striped" THEN k % 2 ELSE b.node
       /\ \A j, k \in Own(b) : j # k => View(b)[j] # View(b)[k]
       /\ b.kind = "mirrored" => View(b)[b.n] = View(b)[0]
  /\ \A a, b \in blocks : a # b => Range(View(a)) \cap Range(View(b)) = {}

\* A call comes to its end, however often mmap has failed before.
CallsEnd == \A t \in Threads : pc[t] # "idle" ~> pc[t] = "idle"
=============================================================================
