----------------------------- MODULE MCPaging -----------------------------
(* Module Paging on a small instance. *)
EXTENDS Paging

CONSTANTS p1, p2, p3

\* Pages of two bytes: a header that is not loaded, text, and half a page of
\* data with a bss of a page and more.
Image(base) ==
  <<[flags |-> "note", vaddr |-> 0, filesz |-> 0, memsz |-> 0],
    [flags |-> "RX", vaddr |-> base, filesz |-> 1, memsz |-> 1],
    [flags |-> "RW", vaddr |-> base + 2, filesz |-> 1, memsz |-> 3]>>

Use(calls, procs, touch, base, pages) ==
  [calls |-> calls, procs |-> procs, touch |-> touch, images |-> {Image(base)}, pages |-> 0 .. pages - 1]

\* A program writes to its heap, text and bss, alone or with a child; programs come and
\* go; the same with few pages; heaps grow, shrink and are inherited over two
\* generations; files are mapped, with room for two pages, or for one and a child.
MCUses ==
  {Use({"exec", "touch", "sbrk"}, {p1}, {0, 4, 8}, 4, 33),
   Use({"touch", "fork", "exit"}, {p1, p2}, {4, 8}, 4, 33),
   Use({"exec", "fork", "exit"}, {p1, p2}, {}, 4, 33),
   Use({"exec", "fork"}, {p1, p2}, {}, 4, 16),
   Use({"sbrk", "touch", "fork", "exit"}, {p1, p2}, {0, 2}, 4, 33),
   Use({"sbrk", "touch", "fork", "exit"}, {p1, p2, p3}, {0}, 2, 33),
   Use({"mmap", "munmap", "sbrk"}, {p1}, {}, 4, 33),
   Use({"mmap", "munmap", "touch", "fork", "exit"}, {p1, p2}, {0}, 2, 33)}

MCPages == 0 .. 32
=============================================================================
