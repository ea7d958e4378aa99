------------------------------ MODULE UioMmap -------------------------------
(***************************************************************************)
(* uio_mmap and uio_vma_fault: how the offset of mmap() chooses a region   *)
(* of the device, how many pages of it a process may map, and which page a *)
(* fault puts there, also after the process has unmapped a part.           *)
(*                                                                         *)
(* Addresses and sizes are small numbers of bytes; PAGE_SIZE is small too. *)
(* A page of the device is <<mi, k>>, the k-th page that starts in or      *)
(* before mem[mi].  Splitting a mapping is the kernel's: what is left of   *)
(* it begins later in the file, so vm_pgoff grows by what was cut off.     *)
(***************************************************************************)
EXTENDS Integers

CONSTANTS
  PAGE_SIZE,
  MAX_UIO_MAPS,
  MaxSize  \* bound: bytes of a region

VARIABLES
  mem,   \* info->mem
  info,  \* idev->info is not NULL
  vma    \* the mapping of a process

vars == <<mem, info, vma>>

(***************************************************************************)
(* mem[mi]: addr within its page, size, and memtype: "phys" stands for     *)
(* UIO_MEM_PHYS and UIO_MEM_IOVA and "dma" for UIO_MEM_DMA_COHERENT, which *)
(* map at once, "logical" for UIO_MEM_LOGICAL and UIO_MEM_VIRTUAL, which   *)
(* map at a fault, "none" for UIO_MEM_NONE.                                *)
(*                                                                         *)
(* vma: mapped, vm_pgoff, pages, faults (it has uio_logical_vm_ops), pte,  *)
(* the device page at each page of the mapping that has one; and the       *)
(* histories region, the offset given to mmap(), and cut, the number of    *)
(* pages cut off its front.                                                *)
(***************************************************************************)
Maps == 0..(MAX_UIO_MAPS - 1)
NoVma == [mapped |-> FALSE, vm_pgoff |-> 0, pages |-> 0, faults |-> FALSE,
          pte |-> << >>, region |-> 0, cut |-> 0]

Init ==
  /\ mem \in [Maps -> [addr : 0..(PAGE_SIZE - 1), size : 0..MaxSize,
                       memtype : {"phys", "dma", "logical", "none"}]]
  /\ info = TRUE
  /\ vma = NoVma

\* -1 when there is no such region.
uio_find_mem_index(vm_pgoff) ==
  IF vm_pgoff \in Maps /\ mem[vm_pgoff].size > 0 THEN vm_pgoff ELSE -1

\* Faulty: rounds up once too often.
PagesRoundedUp(mi) == (mem[mi].addr + mem[mi].size + PAGE_SIZE) \div PAGE_SIZE

actual_pages(mi) == (mem[mi].addr + mem[mi].size + PAGE_SIZE - 1) \div PAGE_SIZE

\* What uio_mmap_physical and uio_mmap_dma_coherent ask for.
PhysicalFits(mi, pages) == mem[mi].addr = 0 /\ pages * PAGE_SIZE <= mem[mi].size

\* Faulty: vm_pgoff stays 0 after dma_mmap_coherent.
PgoffLeftCleared(mi) == IF mem[mi].memtype = "dma" THEN 0 ELSE mi

\* vm_pgoff is cleared for dma_mmap_coherent and set again.
PgoffAfter(mi) == mi

\* Every other call of mmap() fails.
uio_mmap(vm_pgoff, pages) ==
  LET mi == uio_find_mem_index(vm_pgoff)
  IN  /\ ~vma.mapped
      /\ info
      /\ mi >= 0
      /\ pages <= actual_pages(mi)
      /\ \/ mem[mi].memtype \in {"phys", "dma"} /\ PhysicalFits(mi, pages)
         \/ mem[mi].memtype = "logical"
      /\ vma' = [mapped |-> TRUE, vm_pgoff |-> PgoffAfter(mi), pages |-> pages,
                 faults |-> mem[mi].memtype = "logical",
                 pte |-> IF mem[mi].memtype = "logical" THEN << >>
                         ELSE [k \in 0..(pages - 1) |-> <<mi, k>>],
                 region |-> vm_pgoff, cut |-> 0]
      /\ UNCHANGED <<mem, info>>

\* vmf->pgoff - mi.
FaultOffset(k, mi) == (vma.vm_pgoff + k) - mi

\* A fault at page k.  Where the code gives SIGBUS nothing is mapped.
uio_vma_fault(k) ==
  LET mi == uio_find_mem_index(vma.vm_pgoff)
  IN  /\ vma.mapped /\ vma.faults
      /\ k \in 0..(vma.pages - 1) \ DOMAIN vma.pte
      /\ info
      /\ mi >= 0
      /\ vma' = [vma EXCEPT !.pte =
           [j \in DOMAIN vma.pte \cup {k} |->
              IF j = k THEN <<mi, FaultOffset(k, mi)>> ELSE vma.pte[j]]]
      /\ UNCHANGED <<mem, info>>

\* munmap() of n pages at the front or at the back, or of everything.
MunmapFront(n) ==
  /\ n < vma.pages
  /\ vma' = [vma EXCEPT !.vm_pgoff = @ + n, !.pages = @ - n, !.cut = @ + n,
                        !.pte = [k \in {j - n : j \in {i \in DOMAIN vma.pte : i >= n}} |->
                                   vma.pte[k + n]]]
  /\ UNCHANGED <<mem, info>>

MunmapBack(n) ==
  /\ n < vma.pages
  /\ vma' = [vma EXCEPT !.pages = @ - n,
                        !.pte = [k \in DOMAIN vma.pte \cap 0..(vma.pages - n - 1) |->
                                   vma.pte[k]]]
  /\ UNCHANGED <<mem, info>>

Munmap ==
  /\ vma.mapped
  /\ vma' = NoVma
  /\ UNCHANGED <<mem, info>>

\* uio_unregister_device: a fault gives SIGBUS from now on.
Unregister ==
  /\ info
  /\ info' = FALSE
  /\ UNCHANGED <<mem, vma>>

-----------------------------------------------------------------------------
Lengths == 1..(MaxSize + PAGE_SIZE)

Next ==
  \/ \E vm_pgoff \in 0..MAX_UIO_MAPS, pages \in Lengths : uio_mmap(vm_pgoff, pages)
  \/ \E k \in 0..MaxSize : uio_vma_fault(k)
  \/ \E n \in Lengths : MunmapFront(n) \/ MunmapBack(n)
  \/ Munmap
  \/ Unregister

Spec == Init /\ [][Next]_vars

-----------------------------------------------------------------------------
\* The pages on which the bytes of a region lie, byte by byte.
RegionPages(mi) == {<<mi, (mem[mi].addr + b) \div PAGE_SIZE>> : b \in 0..(mem[mi].size - 1)}

TypeOK ==
  /\ mem \in [Maps -> [addr : 0..(PAGE_SIZE - 1), size : Nat,
                       memtype : {"phys", "dma", "logical", "none"}]]
  /\ info \in BOOLEAN
  /\ DOMAIN vma.pte \subseteq 0..(vma.pages - 1)
  /\ vma.vm_pgoff = vma.region + vma.cut

\* A mapping whose front was never cut off shows pages of the region that the
\* offset of mmap() chose, each at its place, and no page without a byte of
\* that region: actual_pages is the number of pages the region lies on.
ShowsItsRegion ==
  vma.cut = 0 =>
    \A k \in DOMAIN vma.pte : vma.pte[k] = <<vma.region, k>>
                              /\ vma.pte[k] \in RegionPages(vma.region)

=============================================================================
