----------------------------- MODULE BootLoader -----------------------------
(***************************************************************************)
(* src/src/bootloader.asm, from the message to the jump, and boot.asm: two *)
(* files of a FAT12 floppy are brought into the segment DIRSEG by the BIOS, *)
(* and the second of them, the kernel, is moved to high memory.            *)
(*                                                                         *)
(* Memory is the 64 KB a 16-bit offset reaches in DIRSEG, in sectors; a    *)
(* sector of it holds the number (LBA) of the disk's sector that was read  *)
(* there last.  The comparison of names is left out: a file is found when  *)
(* it is listed in the first sector of the directory, the only one read.   *)
(*                                                                         *)
(* "int 13" of the start is number 13, not 13h: no disk is reset there and *)
(* the carry flag is still clear, so the branch to int13_error is not      *)
(* taken and the step has no state.                                        *)
(***************************************************************************)
EXTENDS Integers

CONSTANTS sectorSize,       \* 512 bytes
          SegmentSectors,   \* sectors in 64 KB: 128
          sectorsPerTrack,  \* 18
          numHeads,         \* 2
          Cylinders,        \* 80
          directoryLBA,     \* 19
          clusterToSector,  \* 31
          Disks             \* the floppies to boot from

Files == {"boot", "kernel"}
Word == sectorSize * SegmentSectors    \* 2^16: registers and offsets wrap there
Slots == 0..SegmentSectors - 1
DiskSectors == sectorsPerTrack * numHeads * Cylinders
LBAs == 0..DiskSectors - 1
Nothing == -1

\* The sectors of a file of that many bytes.
SectorsOf(size) == (size + sectorSize - 1) \div sectorSize

\* A floppy: the files of the directory's first sector, and for each file its
\* size in bytes, its first cluster, and whether the rest of it is elsewhere.
\* Behind the first sector of a file there is room for all of it.
Floppies ==
  {d \in [listed : SUBSET Files, size : [Files -> Nat],
          cluster : [Files -> Nat], split : SUBSET Files] :
     \A f \in d.listed :
       d.cluster[f] + clusterToSector + SectorsOf(d.size[f]) <= DiskSectors}

ASSUME SectorAssumption == sectorSize \in Nat \ {0} /\ SegmentSectors \in Nat \ {0, 1, 2}
ASSUME GeometryAssumption ==
  /\ sectorsPerTrack \in Nat \ {0} /\ numHeads \in Nat \ {0}
  /\ Cylinders \in 1..255
  /\ DiskSectors <= Word
  /\ directoryLBA \in LBAs
  /\ clusterToSector \in Nat \ {0}
ASSUME DisksAssumption == Disks \subseteq Floppies

VARIABLES
  pc,       \* "directory", "search", "file", "jump", "move", "kernel", "lost"
  file,     \* the file this call of floppy_read is for
  si,       \* the next sector to read
  di,       \* sectors left
  bx,       \* where the next sector goes
  memory,
  high,     \* what boot.asm moved to 0x200000
  disk,
  present   \* the floppy is in the drive

registers == <<pc, file, si, di, bx>>
loaderVars == <<registers, memory, high, disk, present>>

FileStart(f) == disk.cluster[f] + clusterToSector

\* Where sector i of a file really is.
FileSector(f, i) == FileStart(f) + i + (IF f \in disk.split /\ i > 0 THEN 1 ELSE 0)

InitLoader ==
  /\ pc = "directory" /\ file = "boot"
  /\ si = directoryLBA /\ di = 0 /\ bx = 0
  /\ memory = [s \in Slots |-> Nothing]
  /\ high = <<>>
  /\ disk \in Disks
  /\ present = TRUE

-----------------------------------------------------------------------------
(* The BIOS is asked for cylinder, head and sector.                        *)

\* A plausible slip: sectors counted from zero.
ChsFromZero(lba) ==
  [cylinder |-> ((lba \div sectorsPerTrack) \div numHeads) % 256,
   head |-> (lba \div sectorsPerTrack) % numHeads,
   sector |-> lba % sectorsPerTrack]

\* calculate_chs: ch takes the low byte of the cylinder.
Chs(lba) ==
  [cylinder |-> ((lba \div sectorsPerTrack) \div numHeads) % 256,
   head |-> (lba \div sectorsPerTrack) % numHeads,
   sector |-> (lba % sectorsPerTrack) + 1]

\* What the BIOS finds there.
BiosSector(chs) ==
  (chs.cylinder * numHeads + chs.head) * sectorsPerTrack + chs.sector - 1

BiosReads(lba) == present /\ Chs(lba).cylinder < Cylinders

Load(lba, slot) ==
  /\ BiosReads(lba)
  /\ memory' = [memory EXCEPT ![slot] = BiosSector(Chs(lba))]

\* The carry flag: the same once more, without a count (read_failed, read_file).
Retry == pc \in {"directory", "file"} /\ UNCHANGED loaderVars

-----------------------------------------------------------------------------
(* floppy_read, for the boot file and then for the kernel.                 *)

\* 0200h and 0400h, in sectors.
Target(f) == IF f = "boot" THEN 1 ELSE 2

\* A plausible slip: the remainder is not looked at.
CountWhole(size) == (size % Word) \div sectorSize

\* The low word of the size, rounded up to sectors.
Count(size) ==
  (size % Word) \div sectorSize + (IF (size % Word) % sectorSize = 0 THEN 0 ELSE 1)

\* The return, the same after success, and after the message of not_found:
\* the result in ax is overwritten by the pop, and nobody asks for it.
ReturnFrom(f) ==
  IF f = "boot"
  THEN pc' = "directory" /\ file' = "kernel" /\ si' = directoryLBA /\ bx' = 0
  ELSE pc' = "jump" /\ UNCHANGED <<file, si, bx>>

ReadDirectory ==
  /\ pc = "directory"
  /\ Load(si, bx)
  /\ pc' = "search"
  /\ UNCHANGED <<file, si, di, bx, high, disk, present>>

\* The sixteen entries of the sector at DIRSEG:0 are compared with the name.
InDirectory(f) == memory[0] = directoryLBA /\ f \in disk.listed

Found ==
  /\ pc = "search" /\ InDirectory(file)
  /\ pc' = "file"
  /\ si' = FileStart(file)
  /\ di' = Count(disk.size[file])
  /\ bx' = Target(file)
  /\ UNCHANGED <<file, memory, high, disk, present>>

NotFound ==
  /\ pc = "search" /\ ~InDirectory(file)
  /\ ReturnFrom(file)
  /\ UNCHANGED <<di, memory, high, disk, present>>

\* One sector; the count is tested behind it, so that a count of 0 goes round
\* to 2^16 - 1, and the offset wraps to the start of the segment.
ReadFile ==
  /\ pc = "file"
  /\ Load(si, bx)
  /\ di' = (di - 1) % Word
  /\ IF di' = 0 THEN ReturnFrom(file)
     ELSE /\ si' = si + 1
          /\ bx' = (bx + 1) % SegmentSectors
          /\ UNCHANGED <<pc, file>>
  /\ UNCHANGED <<high, disk, present>>

-----------------------------------------------------------------------------
(* The jump to DIRSEG:0200h, and boot.asm.                                 *)

\* If the boot file is not what is there, anything may follow.
Jump ==
  /\ pc = "jump"
  /\ pc' = IF memory[1] = FileSector("boot", 0) THEN "move" ELSE "lost"
  /\ UNCHANGED <<file, si, di, bx, memory, high, disk, present>>

\* More is moved than the kernel has: all of the segment from 0400h on.
Move ==
  /\ pc = "move"
  /\ high' = [i \in 0..SegmentSectors - 3 |-> memory[i + 2]]
  /\ pc' = "kernel"
  /\ UNCHANGED <<file, si, di, bx, memory, disk, present>>

TakeOut ==
  /\ present
  /\ present' = FALSE
  /\ UNCHANGED <<registers, memory, high, disk>>

LoaderEnded == pc \in {"kernel", "lost"} /\ UNCHANGED loaderVars

Loader == ReadDirectory \/ Found \/ NotFound \/ ReadFile \/ Jump \/ Move

NextLoader == Loader \/ Retry \/ TakeOut \/ LoaderEnded

SpecLoader == InitLoader /\ [][NextLoader]_loaderVars

\* "maybe the floppy is stuck?": as long as there is a floppy, a read that is
\* tried again and again succeeds.
FairSpecLoader == SpecLoader /\ WF_loaderVars(Loader)

-----------------------------------------------------------------------------
Sectors(f) == SectorsOf(disk.size[f])

\* A kernel in one piece, of at most 63 KB, that is listed in the directory's
\* first sector: the 126 sectors between 0400h and the end of the segment.
KernelFits ==
  /\ "kernel" \in disk.listed \ disk.split
  /\ Sectors("kernel") <= SegmentSectors - 2

\* The whole kernel, in order, is what is jumped to at 0x200000 - whatever
\* failed and was tried again, whatever the boot file left in its place.
KernelWhole ==
  pc = "kernel" /\ KernelFits =>
    \A i \in 0..Sectors("kernel") - 1 : high[i] = FileSector("kernel", i)

\* The boot file survives the loading of the kernel, also of one that is too
\* long and wraps around into the directory: up to 127 sectors.  One more, which
\* the 16 bits of the size admit, and the kernel lies over the boot file.
BootSurvives ==
  pc = "jump" /\ "boot" \in disk.listed /\ (\A f \in Files : Sectors(f) < SegmentSectors)
    => memory[1] = FileSector("boot", 0)

\* The loader comes to its end, or the floppy is gone and it tries for ever
\* (bootloader.asm:260, :279).  A file of 0 or a multiple of 64 KB is excepted:
\* its count wraps and it reads past the end of the disk, for ever as well.
BootEnds ==
  (\A f \in disk.listed : disk.size[f] % Word # 0) =>
    <>(pc \in {"kernel", "lost"} \/ ~present)
=============================================================================
