------------------------------ MODULE Paging ------------------------------
(***************************************************************************)
(* Physical pages and address spaces: kernel/mem.c (pages), kernel/pt.c,   *)
(* kernel/paging.c, kernel/exec.c, mmap and munmap of kernel/sysfile.c,    *)
(* and what fork, exit and wait (kernel/proc.c) do to memory.              *)
(*                                                                         *)
(* A process changes only its own address space, and shares with the       *)
(* others the queue of free pages and the zero page: a call is one step,   *)
(* but for execve, which may fail between any two of its reads.  The queue *)
(* is a stack that is changed by compare and swap; that a swap may succeed *)
(* on a head that has gone and come back is outside the model.  When it is *)
(* empty kalloc_page goes on with a NULL page, whose count is at no        *)
(* address the kernel has: PANIC.                                          *)
(*                                                                         *)
(* The contents of pages, the registers and the arguments on the new stack *)
(* are left out, and so are files, but for the references that mappings    *)
(* hold.  The four levels of a page table are two here.  Nothing sets      *)
(* ST_SWAP, so swap_in never runs.                                         *)
(***************************************************************************)
EXTENDS Integers, Sequences, FiniteSets, SequencesExt, FiniteSetsExt

CONSTANTS
  Procs, First,  \* the processes, and the one kernel_entry starts
  Pages,         \* the physical pages, as integers, but for the next two
  Zero,          \* zero_page_ptr
  Null,          \* the page at the physical address 0
  PAGE_SIZE,     \* in bytes: small, so that sections may end inside a page
  N_PTE,         \* entries of a table
  Span,          \* how many pages an address space may need
  VaEnd,         \* bound: user addresses are below it
  KSPACE_MASK,   \* where kernel addresses begin
  Word,          \* what addresses count modulo (2^64)
  StackPages,    \* stack_page_size
  Files,         \* the files that may be mapped
  MaxNull,       \* bound: how often the queue holds the page Null
  MaxSects,      \* bound: fork copies fewer sections than these
  Uses,          \* bound: which calls of which processes, on which addresses and program
                 \* files (sequences of program headers), and the physical pages there are
  None

ASSUME PagingAssumption ==
  /\ First \in Procs /\ None \notin Pages \cup {Zero, Null} \cup Files
  /\ Pages \subseteq Nat /\ Zero \in Nat \ Pages /\ Null \in Nat \ (Pages \cup {Zero})
  /\ VaEnd < KSPACE_MASK /\ KSPACE_MASK < Word
  /\ PAGE_SIZE \in Nat \ {0} /\ N_PTE \in Nat \ {0} /\ Span \in Nat \ {0} /\ VaEnd \in Nat

VARIABLES
  mem,    \* pool: how often the queue holds each page; ref: pages_ref; oom: was a
          \* page taken from the empty queue?
  space,  \* the pgdir of each process: root table, tables, entries, sections
  kstack, \* the page of each kernel stack
  exec,   \* the state of execve: the new pgdir and what is left to load
  pc,     \* what each process does
  fref,   \* the ref of each file, which a descriptor keeps open
  stale,  \* the fp of sections whose memory was freed
  use     \* the chosen element of Uses

vars == <<mem, space, kstack, exec, pc, fref, stale, use>>

PAGE_BASE(a) == a - (a % PAGE_SIZE)
VPages == {a \in 0 .. VaEnd - 1 : a % PAGE_SIZE = 0}
Table(va) == va \div (PAGE_SIZE * N_PTE)
Tables == {Table(va) : va \in VPages}
NoPte == [page |-> None, ro |-> FALSE]
NoSpace == [root |-> None, tab |-> [t \in Tables |-> None], pte |-> [v \in VPages |-> NoPte],
            sect |-> <<>>]
NoExec == [file |-> None, img |-> <<>>, va |-> 0, left |-> 0, space |-> NoSpace]
Section(kind, begin, end, fp) == [kind |-> kind, begin |-> begin, end |-> end, fp |-> fp]

\* The pages a loop over a section visits.
PagesOf(st) == {v \in VPages : PAGE_BASE(st.begin) <= v /\ v < st.end}
Covers(st, a) == st.begin <= a /\ a < st.end

-----------------------------------------------------------------------------
(* mem.c, with the memory as an argument.                                  *)

\* kinit and init_page: every page there is is in the queue, the zero page is in use.
kinit ==
  [pool |-> [g \in Pages \cup {Null} |-> IF g \in use.pages THEN 1 ELSE 0],
   ref  |-> [g \in Pages \cup {Zero, Null} |-> IF g = Zero THEN 1 ELSE 0],
   oom  |-> FALSE]

FreePages(m) == {g \in Pages \cup {Null} : m.pool[g] > 0}

\* The page kalloc_page takes out of the queue.  Any would do; the one the use
\* names is taken when it is free, so that few states differ by page numbers only.
Pick(m, want) ==
  IF want \in FreePages(m) THEN want ELSE IF FreePages(m) # {} THEN Min(FreePages(m)) ELSE None
PickRoot(m) == LET roots == {g \in FreePages(m) : g % Span = 0}
               IN  Pick(m, IF roots = {} THEN None ELSE Min(roots))
PickStack(m) == Pick(m, IF PickRoot(m) = None THEN None ELSE PickRoot(m) + Span - 1)
Slot(a, n) == IF a.root = None THEN None ELSE a.root + 1 + n

\* kalloc_page clears the count of the page.
kalloc_page(m, g) ==
  IF g = None THEN [m EXCEPT !.oom = TRUE] ELSE [m EXCEPT !.pool[g] = @ - 1, !.ref[g] = 0]

\* kfree_page; the count of a page in the queue means nothing, and is 0 here.
kfree_page(m, g) ==
  IF m.ref[g] - 1 <= 0 THEN [m EXCEPT !.ref[g] = 0, !.pool[g] = @ + 1]
  ELSE [m EXCEPT !.ref[g] = @ - 1]

-----------------------------------------------------------------------------
(* pt.c, paging.c: s is a record of the memory m and an address space a.   *)

\* get_pte(pd, va, true): the table of va exists afterwards.
get_pte(s, va) ==
  LET g == Pick(s.m, Slot(s.a, Cardinality(VPages) + Table(va)))
  IN  IF s.a.tab[Table(va)] # None THEN s
      ELSE [m |-> kalloc_page(s.m, g), a |-> [s.a EXCEPT !.tab[Table(va)] = g]]

\* vmmap.
vmmap(s, va, g, ro) ==
  LET t == get_pte(s, va)
  IN  IF t.m.oom THEN t
      ELSE [m |-> [t.m EXCEPT !.ref[g] = @ + 1], a |-> [t.a EXCEPT !.pte[va] = [page |-> g, ro |-> ro]]]

\* A new page at va, as in the callers of kalloc_page and vmmap.
NewPage(s, va, ro) ==
  LET g == Pick(s.m, Slot(s.a, va \div PAGE_SIZE))
  IN  vmmap([s EXCEPT !.m = kalloc_page(s.m, g)], va, g, ro)

Unmap(s, va) ==
  IF s.a.pte[va] = NoPte THEN s
  ELSE [m |-> kfree_page(s.m, s.a.pte[va].page), a |-> [s.a EXCEPT !.pte[va] = NoPte]]

\* kfree_page for each mapped page of the set, in the order of addresses.
Over(op(_, _), s, pages) == FoldLeft(op, s, SetToSortSeq(pages, <))

\* _insert_into_list puts a node in front.
Insert(s, st) == [s EXCEPT !.a.sect = <<st>> \o @]

\* init_sections leaves the fp of the heap as it finds it in the memory kalloc
\* returns.
init_sections(s, fp) == Insert(s, Section("heap", 0, 0, fp))

init_pgdir(m, fp) ==
  LET g == PickRoot(m)
  IN  init_sections([m |-> kalloc_page(m, g), a |-> [NoSpace EXCEPT !.root = g]], fp)

\* copy_sections puts every copy in front of the sections the child already has.
copy_sections(from, to) == Reverse(from) \o to

\* free_sections: the entries stay as they are.
free_sections(s) ==
  LET free(m, st) ==
        FoldLeft(LAMBDA n, v : IF s.a.pte[v] = NoPte THEN n ELSE kfree_page(n, s.a.pte[v].page),
                 m, SetToSortSeq(PagesOf(st), <))
  IN  FoldLeft(free, s.m, s.a.sect)


\* free_pgdir.
free_pgdir(s) ==
  IF s.a.root = None THEN s.m
  ELSE LET tabs == {s.a.tab[t] : t \in Tables} \ {None}
       IN  kfree_page(FoldLeft(kfree_page, free_sections(s), SetToSeq(tabs)), s.a.root)

\* The references its sections give back, and leave in freed memory; file_close
\* does nothing to a file that is closed.
Fps(a) == {a.sect[i].fp : i \in DOMAIN a.sect} \ {None}
Held(a, f) == Cardinality({i \in DOMAIN a.sect : a.sect[i].fp = f})
CloseAll(a) == fref' = [f \in Files |-> Max({0, fref[f] - Held(a, f)})] /\ stale' = stale \cup Fps(a)

\* The page fault of a process in kernel or user mode, at an address for which
\* the search of pgfault_handler finds a section.
Fault(s, va) ==
  IF s.a.pte[va] = NoPte THEN NewPage(s, va, FALSE)
  ELSE IF s.a.pte[va].ro
  THEN LET g == Pick(s.m, Slot(s.a, va \div PAGE_SIZE))
       IN  vmmap([s EXCEPT !.m = kfree_page(kalloc_page(s.m, g), s.a.pte[va].page)], va, g, FALSE)
  ELSE s

Here(p) == [m |-> mem, a |-> space[p]]
Install(p, s) == mem' = s.m /\ space' = [space EXCEPT ![p] = s.a]
Goto(p, where) == pc' = [pc EXCEPT ![p] = where]
Panic(p) == Goto(p, "panic") /\ UNCHANGED <<mem, space, kstack, exec, fref, stale, use>>

\* A behaviour is followed to its first PANIC, which stops one CPU and lets the others run
\* until they are idle.
At(p, where) == pc[p] = where /\ \A q \in Procs : pc[q] # "panic"

\* init.S calls nothing but execve, and gives up when that fails.
Booting(p) == \E st \in Range(space[p].sect) : st.kind = "init"
Calls(p, call) == At(p, "user") /\ call \in use.calls /\ ~Booting(p)

\* After kernel_entry: the first process has its stack, its table and the page of
\* init.S, which belongs to the kernel's image but is counted among Pages, since
\* free_sections puts it into the queue.
Init ==
  /\ use \in Uses
  /\ LET g == PickStack(kinit)
         s == init_pgdir(kalloc_page(kinit, g), None)
         t == Insert(NewPage(s, 0, TRUE), Section("init", 0, 1, None))
     IN  /\ kstack = [p \in Procs |-> IF p = First THEN g ELSE None]
         /\ mem = t.m
         /\ space = [p \in Procs |-> IF p = First THEN t.a ELSE NoSpace]
  /\ exec = [p \in Procs |-> NoExec]
  /\ pc = [p \in Procs |-> IF p = First THEN "user" ELSE "unused"]
  /\ fref = [f \in Files |-> 1] /\ stale = {}

-----------------------------------------------------------------------------
(* execve.                                                                 *)

\* There is no such file, or the file is no program: PANIC.
exec_missing(p) ==
  /\ At(p, "user") /\ (Booting(p) \/ "exec" \in use.calls)
  /\ Panic(p)

\* The lock of the program's inode is held from here until all is loaded.
exec_start(p, img) ==
  /\ \A q \in Procs : exec[q].file # img
  /\ At(p, "user") /\ (Booting(p) \/ "exec" \in use.calls)
  /\ \E fp \in stale \cup {None} :
       LET s == init_pgdir(mem, fp)
       IN  IF s.m.oom THEN Panic(p)
           ELSE /\ mem' = s.m
                /\ exec' = [exec EXCEPT ![p] = [NoExec EXCEPT !.file = img, !.img = img, !.space = s.a]]
                /\ Goto(p, "header")
                /\ UNCHANGED <<space, kstack, fref, stale, use>>

New(p) == [m |-> mem, a |-> exec[p].space]

\* A program header: a section, unless the header is not PT_LOAD.
exec_header(p) ==
  LET h == Head(exec[p].img)
      end == h.vaddr + (IF h.flags = "RX" THEN h.filesz ELSE h.memsz)
      s == Insert(New(p), Section(IF h.flags = "RX" THEN "text" ELSE "data", h.vaddr, end, None))
  IN
  /\ At(p, "header") /\ exec[p].img # <<>>
  /\ \/ /\ h.flags \in {"RX", "RW"}
        /\ exec' = [exec EXCEPT ![p].va = h.vaddr, ![p].left = h.filesz, ![p].space = s.a]
        /\ Goto(p, "load")
     \/ /\ h.flags = "note"
        /\ exec' = [exec EXCEPT ![p].img = Tail(@)]
        /\ UNCHANGED pc
  /\ UNCHANGED <<mem, space, kstack, fref, stale, use>>

\* One page of the segment.
exec_load(p) ==
  LET e == exec[p]
      va0 == PAGE_BASE(e.va)
      sz == Min({PAGE_SIZE - (e.va - va0), e.left})
      s == NewPage(New(p), va0, Head(e.img).flags = "RX")
  IN
  /\ At(p, "load") /\ e.left > 0
  /\ IF s.m.oom THEN Panic(p)
     ELSE /\ mem' = s.m
          /\ exec' = [exec EXCEPT ![p].va = @ + sz, ![p].left = @ - sz, ![p].space = s.a]
          /\ UNCHANGED <<space, kstack, pc, fref, stale, use>>

\* The pages that hold nothing but bss: they start at the next page boundary.
BssPages(h, va) ==
  LET next == IF va # PAGE_BASE(va) THEN PAGE_BASE(va) + PAGE_SIZE ELSE va
  IN  {v \in VPages : next <= v /\ v < h.vaddr + h.memsz}

exec_bss(p) ==
  LET e == exec[p]
      bss == IF Head(e.img).flags = "RW" THEN BssPages(Head(e.img), e.va) ELSE {}
      s == Over(LAMBDA t, v : vmmap(t, v, Zero, TRUE), New(p), bss)
  IN
  /\ At(p, "load") /\ e.left = 0
  /\ IF s.m.oom THEN Panic(p)
     ELSE /\ mem' = s.m
          /\ exec' = [exec EXCEPT ![p].img = Tail(@), ![p].space = s.a]
          /\ Goto(p, "header")
          /\ UNCHANGED <<space, kstack, fref, stale, use>>

\* A read comes back short, or a header has flags of another kind: the new
\* pgdir is freed and the old one stays.
exec_fail(p) ==
  /\ (At(p, "header") \/ At(p, "load")) /\ exec[p].img # <<>>
  /\ mem' = free_pgdir(New(p))
  /\ exec' = [exec EXCEPT ![p] = NoExec]
  /\ CloseAll(exec[p].space)
  /\ Goto(p, IF Booting(p) THEN "panic" ELSE "user")
  /\ UNCHANGED <<space, kstack, use>>

\* The stack, and the switch to the new pgdir.
exec_switch(p) ==
  LET max_end == Max({st.end : st \in Range(exec[p].space.sect)})
      bottom == PAGE_BASE(max_end) + PAGE_SIZE
      top == bottom + StackPages * PAGE_SIZE
      stack == Section("stack", bottom, top, None)
      s == Insert(Over(LAMBDA t, v : NewPage(t, v, FALSE), New(p), PagesOf(stack)), stack)
  IN
  /\ At(p, "header") /\ exec[p].img = <<>>
  /\ IF s.m.oom THEN Panic(p)
     ELSE /\ mem' = free_pgdir([m |-> s.m, a |-> space[p]])
          /\ CloseAll(space[p])
          /\ space' = [space EXCEPT ![p] = s.a]
          /\ exec' = [exec EXCEPT ![p] = NoExec]
          /\ Goto(p, "user")
          /\ UNCHANGED <<kstack, use>>

-----------------------------------------------------------------------------
(* fork, exit and wait.                                                    *)

\* fork copies pages also where the parent has the zero page.
CopyPage(s, a, v) == IF a.pte[v] = NoPte THEN s ELSE NewPage(s, v, a.pte[v].ro)

\* A new stack and pgdir; the pages of each section; then copy_sections.
fork(p, q) ==
  LET a == space[p]
      copy(s, st) == Over(LAMBDA t, v : CopyPage(t, a, v), s, PagesOf(st))
  IN
  /\ Calls(p, "fork") /\ pc[q] = "unused" /\ q \in use.procs /\ Len(a.sect) < MaxSects
  /\ \E fp \in stale \cup {None} :
       LET s == FoldLeft(copy, init_pgdir(kalloc_page(mem, PickStack(mem)), fp), a.sect)
       IN  IF s.m.oom THEN Panic(p)
           ELSE /\ kstack' = [kstack EXCEPT ![q] = PickStack(mem)]
                /\ Install(q, [s EXCEPT !.a.sect = copy_sections(a.sect, @)])
                /\ fref' = [f \in Files |-> fref[f] + Held(a, f)]
                /\ Goto(q, "user")
                /\ UNCHANGED <<exec, stale, use>>

exit(p) ==
  /\ Calls(p, "exit") /\ p # First
  /\ mem' = free_pgdir(Here(p))
  /\ space' = [space EXCEPT ![p] = NoSpace]
  /\ CloseAll(space[p])
  /\ Goto(p, "zombie")
  /\ UNCHANGED <<kstack, exec, use>>

\* The parent, in wait, frees the stack.
wait(q) ==
  /\ At(q, "zombie")
  /\ mem' = kfree_page(mem, kstack[q])
  /\ kstack' = [kstack EXCEPT ![q] = None]
  /\ Goto(q, "unused")
  /\ UNCHANGED <<space, exec, fref, stale, use>>

-----------------------------------------------------------------------------
(* sbrk, page faults, mmap and munmap.                                     *)

\* The pages sbrk gives back.
Shrunk(s, begin, end) == Over(Unmap, s, {v \in VPages : begin <= v /\ v < end})

\* sbrk(n) moves the end of the first heap section by n pages.
sbrk(p, n) ==
  LET a == space[p]
      i == Min({j \in DOMAIN a.sect : a.sect[j].kind = "heap"})
      end == a.sect[i].end + n * PAGE_SIZE
      s == [Here(p) EXCEPT !.a.sect[i].end = end]
  IN
  /\ Calls(p, "sbrk") /\ a.sect[i].begin <= end /\ end <= VaEnd
  /\ Install(p, Shrunk(s, end, a.sect[i].end))
  /\ UNCHANGED <<kstack, exec, pc, fref, stale, use>>

\* The process writes at an address it has no writable page for; the handler asserts
\* that a section has it.
pgfault_handler(p, a) ==
  LET s == Fault(Here(p), PAGE_BASE(a)) IN
  /\ Calls(p, "touch") /\ s.a # space[p]
  /\ IF (\A st \in Range(space[p].sect) : ~Covers(st, a)) \/ s.m.oom THEN Panic(p)
     ELSE Install(p, s) /\ UNCHANGED <<kstack, exec, pc, fref, stale, use>>

\* get_free_vm: below the lowest section that is not empty.
get_free_vm(a) ==
  Min({VaEnd} \cup {PAGE_BASE(st.begin) : st \in {t \in Range(a.sect) : ~(t.begin = 0 /\ t.end = 0)}})

\* mmap of file f, of which the file holds the first got bytes: file_read
\* faults their pages in.  With a section at 0 the address wraps around, and
\* the fault finds no section.
mmap(p, f, length, got) ==
  LET end == get_free_vm(space[p])
      st == Section("mmap", end - length, end, f)
      s == Over(Fault, Insert(Here(p), st), PagesOf([st EXCEPT !.end = st.begin + got]))
  IN
  /\ Calls(p, "mmap") /\ fref[f] > 0
  /\ IF end < length \/ s.m.oom THEN Panic(p)
     ELSE /\ Install(p, s)
          /\ fref' = [fref EXCEPT ![f] = @ + 1]
          /\ UNCHANGED <<kstack, exec, pc, stale, use>>

\* get_page_ref reads an entry that no page has, so that nothing is written to the
\* file.
free_section_pages(s, st) == Over(Unmap, s, PagesOf(st))

\* The bytes from begin to end are cleared through the mappings, which faults in what
\* was not touched; is there one that no section has?
Cleared(s, begin, end) == Over(Fault, s, PagesOf(Section("clear", begin, end, None)))
Unmapped(a, begin, end) ==
  \E v \in PagesOf(Section("clear", begin, end, None)) :
    /\ a.pte[v] = NoPte \/ a.pte[v].ro
    /\ \A st \in Range(a.sect) : ~Covers(st, Max({v, begin}))

\* munmap of a whole mapping, and of more bytes after it.
munmap(p, i, more) ==
  LET st == space[p].sect[i]
      s == Cleared(Here(p), st.begin, st.end + more)
      t == free_section_pages(s, st)
  IN
  /\ Calls(p, "munmap") /\ i \in DOMAIN space[p].sect /\ st.kind = "mmap"
  /\ IF Unmapped(space[p], st.begin, st.end + more) \/ s.m.oom THEN Panic(p)
     ELSE /\ Install(p, [t EXCEPT !.a.sect = RemoveAt(@, i)])
          /\ fref' = [fref EXCEPT ![st.fp] = Max({0, @ - 1})] /\ stale' = stale \cup {st.fp}
          /\ UNCHANGED <<kstack, exec, pc, use>>

\* munmap of its first page, which is written to the file and freed.  Without a table
\* the kernel faults; without an entry it writes and frees the page Null.
munmap_part(p, i) ==
  LET st == space[p].sect[i]
      v == PAGE_BASE(st.begin)
      s == IF space[p].pte[v] = NoPte THEN [Here(p) EXCEPT !.m = kfree_page(@, Null)]
           ELSE Unmap(Here(p), v)
  IN
  /\ Calls(p, "munmap") /\ i \in DOMAIN space[p].sect /\ st.kind = "mmap"
  /\ PAGE_SIZE < st.end - st.begin
  /\ IF space[p].tab[Table(v)] = None THEN Panic(p)
     ELSE /\ s.m.pool[Null] <= MaxNull
          /\ Install(p, [s EXCEPT !.a.sect[i].begin = st.begin + PAGE_SIZE])
          /\ UNCHANGED <<kstack, exec, pc, fref, stale, use>>

-----------------------------------------------------------------------------

Next ==
  \E p \in Procs :
    \/ \E img \in use.images : exec_start(p, img)
    \/ exec_missing(p)
    \/ exec_header(p) \/ exec_load(p) \/ exec_bss(p) \/ exec_fail(p) \/ exec_switch(p)
    \/ \E q \in Procs : fork(p, q)
    \/ exit(p) \/ wait(p)
    \/ \E n \in {-1, 1} : sbrk(p, n)
    \/ \E v \in use.touch : pgfault_handler(p, v)
    \/ \E f \in Files, n \in {1, 2} : \E k \in 0 .. n : mmap(p, f, n * PAGE_SIZE, k * PAGE_SIZE)
    \/ \E i \in 1 .. Len(space[p].sect) :
         munmap_part(p, i) \/ \E more \in {0, PAGE_SIZE} : munmap(p, i, more)

Spec == Init /\ [][Next]_vars

-----------------------------------------------------------------------------

\* Mutated form: a buffer is accepted for its first byte.
user_writeable_first(a, start, size) ==
  \/ start >= KSPACE_MASK
  \/ \E st \in Range(a.sect) : st.kind \notin {"init", "text"} /\ st.begin <= start /\ start < st.end

user_readable(a, start, size) ==
  \/ start >= KSPACE_MASK
  \/ \E st \in Range(a.sect) : st.begin <= start /\ (start + size) % Word < st.end

\* Only text sections have ST_RO.
user_writeable(a, start, size) ==
  \/ start >= KSPACE_MASK
  \/ \E st \in Range(a.sect) :
       st.kind \notin {"init", "text"} /\ st.begin <= start /\ (start + size) % Word < st.end

Spaces == {space[p] : p \in Procs} \cup {exec[p].space : p \in Procs}

\* Who has a page: the tables and the mappings of an address space, and the stacks.
Entries(a) ==
  {<<"root", 0, a.root>>} \cup {<<"table", t, a.tab[t]>> : t \in Tables}
  \cup {<<"page", v, a.pte[v].page>> : v \in VPages}
Holders ==
  UNION {{<<p, "stack", <<"stack", 0, kstack[p]>>>>}
         \cup {<<p, "space", e>> : e \in Entries(space[p])}
         \cup {<<p, "exec", e>> : e \in Entries(exec[p].space)} : p \in Procs}
PageOf(h) == h[3][3]

\* Type invariant.
TypeOK ==
  /\ mem \in [pool : [Pages \cup {Null} -> Nat], ref : [Pages \cup {Zero, Null} -> Nat],
              oom : {FALSE}]
  /\ \A a \in Spaces : /\ a.root \in Pages \cup {Null, None}
                       /\ a.tab \in [Tables -> Pages \cup {Null, None}]
                       /\ a.pte \in [VPages -> [page : Pages \cup {Zero, Null, None}, ro : BOOLEAN]]
  /\ kstack \in [Procs -> Pages \cup {Null, None}]
  /\ pc \in [Procs -> {"unused", "user", "header", "load", "zombie", "panic"}]
  /\ stale \subseteq Files

\* Every page is in the queue once, or is used once, as a stack, as a table or
\* under one mapping, and the zero page is counted once for each mapping.
Accounted ==
  /\ \A g \in use.pages : mem.pool[g] <= 1
  /\ {g \in use.pages : mem.pool[g] = 0} = {PageOf(h) : h \in Holders} \cap Pages
  /\ Cardinality({g \in use.pages : mem.pool[g] = 0}) = Cardinality({h \in Holders : PageOf(h) \in Pages})
  /\ mem.ref[Zero] = 1 + Cardinality({h \in Holders : PageOf(h) = Zero})

\* No two sections of an address space have a page in common.
SectionsApart ==
  \A a \in Spaces : \A i \in DOMAIN a.sect : \A j \in 1 .. i - 1 :
    PagesOf(a.sect[i]) \cap PagesOf(a.sect[j]) = {}


\* A buffer of user addresses that user_readable or user_writeable accepts, and whose end
\* does not wrap around, can be faulted in whole as long as there are pages, and one that
\* user_writeable accepts is then the process's own to write: what a read copies to it
\* reaches neither the zero page nor another process, and the assertion of
\* pgfault_handler holds (syscall.c:42-84, paging.c:111-153).
BuffersBacked ==
  SectionsApart =>
    \A p \in Procs : \A start \in 0 .. VaEnd - 1, size \in 1 .. PAGE_SIZE + 1 :
      LET a == space[p]
          s == Cleared(Here(p), start, start + size)
      IN
      /\ user_readable(a, start, size) =>
           \A b \in start .. start + size - 1 : \E st \in Range(a.sect) : Covers(st, b)
      /\ user_writeable(a, start, size) /\ ~s.m.oom =>
           \A b \in start .. start + size - 1 :
             LET e == s.a.pte[PAGE_BASE(b)]
             IN  /\ \E st \in Range(a.sect) : Covers(st, b)
                 /\ e # NoPte /\ ~e.ro /\ e.page # Zero /\ s.m.ref[e.page] = 1

-----------------------------------------------------------------------------
(* What the repository says and the code does not do.                      *)

\* "确保内存不会泄漏" (paging.c:49): also when sections overlap.
NoPageLost == []Accounted

\* "释放 kalloc_page 分配的物理页" (mem.c:62): nothing else is freed.
FreesAllocated == mem.pool[Null] = 0

\* "Check if the virtual address [start, start+size) is READABLE & WRITEABLE by the
\* current user process" (syscall.c:60-63).
ChecksAddresses ==
  \A p \in Procs : \A start \in 0 .. Word - 1, size \in 1 .. Word - 1 :
    pc[p] = "user" /\ user_writeable(space[p], start, size) =>
      \A b \in 0 .. size - 1 : \E st \in Range(space[p].sect) : Covers(st, start + b)

\* "reference count" (file.h:18): a file counts its descriptor and the mappings
\* that refer to it.
FileRefsExact ==
  \A f \in Files :
    fref[f] = 1 + Cardinality({<<p, i>> \in Procs \X (1 .. 9) :
                /\ i \in DOMAIN space[p].sect
                /\ space[p].sect[i].fp = f /\ space[p].sect[i].kind = "mmap"})
=============================================================================
