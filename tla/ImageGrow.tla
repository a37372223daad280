----------------------------- MODULE ImageGrow -----------------------------
(***************************************************************************)
(* A volume's image while it is grown in place (upperfs/writer.rs), with    *)
(* the process or the machine stopping at any write, and the guest that    *)
(* mounts the image in between.                                            *)
(*                                                                         *)
(* grow_ext4 writes in batches, each ended by an fsync.  A grow cut short   *)
(* inside a batch leaves any subset of that batch's blocks written and     *)
(* nothing of the later ones.  The volume's lease keeps everyone else away *)
(* meanwhile (module Volumes).  The guest is the Linux kernel: it is       *)
(* modelled from what the code says of it, see constants.rs on             *)
(* INCOMPAT_RECOVER.                                                       *)
(***************************************************************************)
EXTENDS ImageLayout

CONSTANTS
  FreshSizes,  \* sizes a volume is created at
  AskedSizes,  \* sizes a run may ask a volume to have
  DiskBlocks,  \* bound: blocks of the largest image
  MaxAsks,     \* bound: runs that ask for the volume
  MaxCuts,     \* bound: grows cut short
  MaxWrites    \* bound: blocks the guest writes

VARIABLES
  disk,        \* what is in each block of the file
  len,         \* the file's length in blocks
  marker,      \* the .img.growing file beside it
  grow,        \* the grow under way: its next batch, its plan, the superblock it read
  used         \* the asks, cuts and guest writes so far, and the largest size a cut grow tried

imageVars == <<disk, len, marker, grow, used>>

-----------------------------------------------------------------------------
(* What a block holds.                                                     *)

Zero == [kind |-> "zero", holds |-> 0]
Data == [kind |-> "data", holds |-> 0]
SuperblockOf(sb) == [kind |-> "sb", holds |-> sb]
BitmapOf(bits) == [kind |-> "bitmap", holds |-> bits]
DindOf(slots) == [kind |-> "dind", holds |-> slots]
IndirectOf(copies) == [kind |-> "indirect", holds |-> copies]
InodesOf(resize) == [kind |-> "inodes", holds |-> resize]

Superblock == disk[0].holds

\* The blocks of a copy of the table that begins at block first.
GdtAt(l, first, desc) ==
  [b \in first .. first + l.gdt_blocks - 1 |->
     [kind |-> "gdt",
      holds |-> [g \in {g \in Groups(l) : g \div DESCS_PER_BLOCK = b - first} |-> desc[g]]]]

\* The descriptor of a group, in the primary table.
LiveDescriptor(d, g) == d[1 + g \div DESCS_PER_BLOCK].holds[g]

\* f, and g where f says nothing.
Over(f, g) == [b \in DOMAIN f \cup DOMAIN g |-> IF b \in DOMAIN f THEN f[b] ELSE g[b]]

Bitmaps(l, groups) ==
  [b \in {GroupBlockLayout(l, g).bbmp : g \in groups} |->
     BitmapOf(BlockBitmap(l, b \div BLOCKS_PER_GROUP))]

\* A superblock and a table in every group that carries a backup.
BackupsOf(l, sb, desc, groups) ==
  LET at == {g * BLOCKS_PER_GROUP : g \in groups}
      tables == {GdtAt(l, b + 1, desc) : b \in at}
  IN  [b \in at \cup UNION {DOMAIN t : t \in tables} |->
         IF b \in at THEN SuperblockOf(sb) ELSE (CHOOSE t \in tables : b \in DOMAIN t)[b]]

\* write_resize_tree, and the same of a fresh image.
ResizeTree(l, dind) ==
  LET reserved == {DindContents(l)[s] : s \in DOMAIN DindContents(l)}
  IN  IF l.reserved_gdt_blocks = 0 THEN << >>
      ELSE Over([b \in reserved |-> IndirectOf(Copies(l, b))],
           Over([b \in {dind} |-> DindOf(DindContents(l))],
                [b \in {GroupBlockLayout(l, 0).itab} |-> InodesOf(dind)]))

\* write_metadata: what a fresh image holds.
FreshImage(blocks) ==
  LET l == ForFreshImage(blocks)
      desc == [g \in Groups(l) |-> GroupDescriptor(l, g)]
      sb == [blocks_count |-> blocks, free |-> TotalFree(l, desc), valid |-> TRUE,
             inodes_per_group |-> l.inodes_per_group, inodes_count |-> InodesCount(l),
             reserved_gdt_blocks |-> l.reserved_gdt_blocks, recover |-> FALSE]
      written == Over(ResizeTree(l, ResizeDindBlock(l)),
                 Over(BackupsOf(l, sb, desc, BackupGroups(NumGroups(l))), Bitmaps(l, Groups(l))))
  IN  [b \in 0 .. DiskBlocks - 1 |-> IF b \in DOMAIN written THEN written[b] ELSE Zero]

-----------------------------------------------------------------------------
(* The batches of grow_ext4.                                               *)

NoGrow(at) == [at |-> at, plan |-> << >>, sb |-> << >>]

ImageInit ==
  \E blocks \in FreshSizes :
    /\ PlanAccepts(blocks)
    /\ disk = FreshImage(blocks) /\ len = blocks
    /\ marker = FALSE /\ grow = NoGrow("idle")
    /\ used = [asks |-> 0, cuts |-> 0, writes |-> 0, tried |-> 0]

TailGroup == NumGroups(grow.plan.before) - 1

\* fill_old_tail: the padding of the old last group becomes free blocks.
TailBitmapAt == GroupBlockLayout(grow.plan.after, TailGroup).bbmp
TailBitmap == disk[TailBitmapAt].holds \ FilledTail(grow.plan)

\* The tail's count with the gained blocks added to it, not counted.
GrownDescriptorsAdded ==
  [g \in Groups(grow.plan.after) |->
     IF g \in AppendedGroups(grow.plan) THEN GroupDescriptor(grow.plan.after, g)
     ELSE IF g = TailGroup
     THEN [LiveDescriptor(disk, g) EXCEPT !.free = @ + Cardinality(FilledTail(grow.plan))]
     ELSE LiveDescriptor(disk, g)]

\* grown_gdt_bytes and retally_filled_tail: a descriptor that was there is
\* kept, but for the tail's, which is counted again from its bitmap.
GrownDescriptors ==
  [g \in Groups(grow.plan.after) |->
     IF g \in AppendedGroups(grow.plan) THEN GroupDescriptor(grow.plan.after, g)
     ELSE IF g = TailGroup /\ FilledTail(grow.plan) # {}
     THEN [LiveDescriptor(disk, g) EXCEPT !.free = FreeIn(grow.plan.after, g, TailBitmap)]
     ELSE LiveDescriptor(disk, g)]

\* commit_superblock
CommitSuperblock ==
  LET after == grow.plan.after
      appended == [g \in AppendedGroups(grow.plan) |-> GroupDescriptor(after, g)]
  IN  [grow.sb EXCEPT !.valid = TRUE, !.blocks_count = after.block_count,
         !.inodes_count = InodesCount(after), !.reserved_gdt_blocks = after.reserved_gdt_blocks,
         !.free = @ + MapThenSumSet(LAMBDA g : appended[g].free, DOMAIN appended)
                    + Cardinality(FilledTail(grow.plan))]

\* read_resize_dind_block: where the image put its resize block.
ResizeDindRead == disk[GroupBlockLayout(grow.plan.before, 0).itab].holds

\* The old tail, the table and the resize tree.
TableBatch ==
  Over(ResizeTree(grow.plan.after, ResizeDindRead),
  Over(GdtAt(grow.plan.after, 1, GrownDescriptors),
       [b \in {b \in {TailBitmapAt} : FilledTail(grow.plan) # {}} |-> BitmapOf(TailBitmap)]))

\* refresh_backups
BackupsBatch ==
  BackupsOf(grow.plan.after, CommitSuperblock, GrownDescriptors,
            BackupGroups(NumGroups(grow.plan.after)) \ {0})

\* What is written before each fsync.
Batch ==
  CASE grow.at = "mark"    -> [b \in {0} |-> SuperblockOf([grow.sb EXCEPT !.valid = FALSE])]
    [] grow.at = "groups"  -> Bitmaps(grow.plan.after, AppendedGroups(grow.plan))
    [] grow.at = "table"   -> TableBatch
    [] grow.at = "backups" -> BackupsBatch
    [] grow.at = "commit"  -> [b \in {0} |-> SuperblockOf(CommitSuperblock)]

Batches == {"mark", "groups", "table", "backups", "commit"}

NextBatch(at) ==
  CASE at = "mark" -> "extend" [] at = "extend" -> "groups" [] at = "groups" -> "table"
    [] at = "table" -> "backups" [] at = "backups" -> "commit" [] at = "commit" -> "finish"

\* Some blocks of the batch reach the file.
Written(blocks) == [b \in DOMAIN disk |-> IF b \in blocks THEN Batch[b] ELSE disk[b]]

-----------------------------------------------------------------------------
(* The service.                                                            *)

\* grow_ext4, up to the first write: the volume is as large already, or the
\* grow is refused and the run with it, or it begins.
Ask(blocks) ==
  LET plan == PlanGrow(Superblock, blocks)
      refused == \/ plan.what = "refused"
                 \/ plan.what = "grow" /\ Superblock.recover
                 \/ plan.what = "grow" /\ ~marker /\ ~Superblock.valid
  IN  /\ grow.at = "idle" /\ used.asks < MaxAsks
      /\ used' = [used EXCEPT !.asks = @ + 1]
      /\ \/ refused /\ UNCHANGED <<marker, grow>>
         \/ plan.what = "none" /\ marker' = FALSE /\ grow' = NoGrow("ready")
         \/ /\ ~refused /\ plan.what = "grow"
            /\ marker' = TRUE
            /\ grow' = [at |-> "mark", plan |-> plan, sb |-> Superblock]
      /\ UNCHANGED <<disk, len>>

WriteBatch ==
  /\ grow.at \in Batches
  /\ disk' = Written(DOMAIN Batch)
  /\ grow' = [grow EXCEPT !.at = NextBatch(@)]
  /\ UNCHANGED <<len, marker, used>>

\* set_len, which also drops what an earlier, longer attempt left.
ExtendTo(blocks) ==
  /\ len' = blocks
  /\ disk' = [b \in DOMAIN disk |-> IF b < blocks THEN disk[b] ELSE Zero]

Extend ==
  /\ grow.at = "extend"
  /\ ExtendTo(grow.plan.after.block_count)
  /\ grow' = [grow EXCEPT !.at = NextBatch(@)]
  /\ UNCHANGED <<marker, used>>

\* finish_resumable
FinishResumable ==
  /\ grow.at = "finish"
  /\ marker' = FALSE /\ grow' = NoGrow("ready")
  /\ UNCHANGED <<disk, len, used>>

\* The service or the machine stops, or a write fails.
CutShort ==
  /\ used.cuts < MaxCuts
  /\ \/ grow.at \in Batches /\ \E some \in SUBSET DOMAIN Batch : disk' = Written(some) /\ UNCHANGED len
     \/ grow.at = "extend" /\ (ExtendTo(grow.plan.after.block_count) \/ UNCHANGED <<disk, len>>)
     \/ grow.at = "finish" /\ UNCHANGED <<disk, len>>
  /\ grow' = NoGrow("idle")
  /\ used' = [used EXCEPT !.cuts = @ + 1, !.tried = Most(@, grow.plan.after.block_count)]
  /\ UNCHANGED marker

-----------------------------------------------------------------------------
(* The guest, an external program.                                         *)

GuestMounts ==
  /\ grow.at = "ready"
  /\ disk' = [disk EXCEPT ![0].holds.recover = TRUE]
  /\ grow' = NoGrow("guest")
  /\ UNCHANGED <<len, marker, used>>

\* The kernel takes the first free block of a group.
GuestWrites(g) ==
  LET l == LayoutOf(Superblock)
      at == LiveDescriptor(disk, g).block_bitmap
      free == (0 .. BlocksInGroup(l, g) - 1) \ disk[at].holds
  IN  /\ grow.at = "guest" /\ used.writes < MaxWrites
      /\ g \in Groups(l) /\ free # {}
      /\ disk' = [disk EXCEPT ![0].holds.free = @ - 1,
                    ![1 + g \div DESCS_PER_BLOCK].holds[g].free = @ - 1,
                    ![at].holds = @ \cup {Min(free)},
                    ![g * BLOCKS_PER_GROUP + Min(free)] = Data]
      /\ used' = [used EXCEPT !.writes = @ + 1]
      /\ UNCHANGED <<len, marker, grow>>

\* A clean unmount: the state is what it was at the mount.
GuestUnmounts ==
  /\ grow.at = "guest"
  /\ disk' = [disk EXCEPT ![0].holds.recover = FALSE]
  /\ grow' = NoGrow("idle")
  /\ UNCHANGED <<len, marker, used>>

\* The guest is killed, or never came to mount the volume.
GuestKilled ==
  /\ grow.at \in {"ready", "guest"}
  /\ grow' = NoGrow("idle")
  /\ UNCHANGED <<disk, len, marker, used>>

ImageNext ==
  \/ \E blocks \in AskedSizes : Ask(blocks)
  \/ WriteBatch \/ Extend \/ FinishResumable \/ CutShort
  \/ GuestMounts \/ GuestUnmounts \/ GuestKilled
  \/ \E g \in 0 .. DiskBlocks \div BLOCKS_PER_GROUP : GuestWrites(g)

ImageSpec == ImageInit /\ [][ImageNext]_imageVars

-----------------------------------------------------------------------------
(* Properties.                                                             *)

\* Type invariant: the superblock on the disk is always one superblock, of a
\* filesystem that fits the disk, whichever writes of a grow have reached it.
ImageTypeOK ==
  /\ DOMAIN disk = 0 .. DiskBlocks - 1
  /\ Superblock \in [blocks_count : 1 .. DiskBlocks, free : Nat, valid : BOOLEAN, recover : BOOLEAN,
                     inodes_per_group : Nat, inodes_count : Nat, reserved_gdt_blocks : Nat]
  /\ len \in 1 .. DiskBlocks /\ marker \in BOOLEAN
  /\ grow.at \in Batches \cup {"idle", "extend", "finish", "ready", "guest"}
  /\ used \in [asks : 0 .. MaxAsks, cuts : 0 .. MaxCuts, writes : 0 .. MaxWrites, tried : 0 .. DiskBlocks]

\* A group's descriptor, its bitmap and its blocks agree.  The padding bits are
\* claimed only where no longer grow was cut short: the bits such an attempt
\* cleared stay clear when a shorter one follows it.
GroupSound(l, g) ==
  LET desc == LiveDescriptor(disk, g)
      bitmap == disk[desc.block_bitmap].holds
      gbl == GroupBlockLayout(l, g)
  IN  /\ gbl.data <= g * BLOCKS_PER_GROUP + BlocksInGroup(l, g)
      /\ desc.block_bitmap = gbl.bbmp /\ disk[gbl.bbmp].kind = "bitmap"
      /\ (0 .. gbl.data - gbl.group_base - 1) \subseteq bitmap
      /\ used.tried <= l.block_count => (BlocksInGroup(l, g) .. BLOCKS_PER_GROUP - 1) \subseteq bitmap
      /\ desc.free = FreeIn(l, g, bitmap)

\* The resize inode's tree names the reserved blocks and nothing else.
ResizeTreeSound(l) ==
  LET dind == disk[GroupBlockLayout(l, 0).itab].holds
  IN  l.reserved_gdt_blocks > 0 =>
        /\ dind \in disk[GroupBlockLayout(l, 0).bbmp].holds
        /\ disk[dind] = DindOf(DindContents(l))
        /\ \A s \in DOMAIN DindContents(l) :
             disk[DindContents(l)[s]] = IndirectOf(Copies(l, DindContents(l)[s]))

\* The backups are of a filesystem of this size.
BackupsSound(l) ==
  \A g \in BackupGroups(NumGroups(l)) :
    /\ disk[g * BLOCKS_PER_GROUP].kind = "sb"
    /\ disk[g * BLOCKS_PER_GROUP].holds.blocks_count = l.block_count
    /\ \A h \in Groups(l) :
         disk[g * BLOCKS_PER_GROUP + 1 + h \div DESCS_PER_BLOCK].holds[h].block_bitmap
           = GroupBlockLayout(l, h).bbmp

\* A filesystem check finds nothing to repair.
Sound ==
  LET l == LayoutOf(Superblock)
  IN  /\ Superblock.blocks_count <= len
      /\ Superblock.inodes_count = InodesCount(l)
      /\ \A g \in Groups(l) : GroupSound(l, g)
      /\ Superblock.free = MapThenSumSet(LAMBDA g : LiveDescriptor(disk, g).free, Groups(l))
      /\ ResizeTreeSound(l)
      /\ BackupsSound(l)

\* A filesystem that says it is clean is sound: at every moment, and after a
\* stop at any point of a grow with any of the unsynced blocks written, either
\* the superblock says the filesystem is not clean or its counts, bitmaps,
\* descriptors, backups and resize tree all agree with one another.  This is
\* what the order of grow_ext4's batches and fsyncs is for.
ValidIsSound == Superblock.valid => Sound

\* The blocks of the guest's that the filesystem still says are taken: with the
\* size in the superblock, what ImageResize sees of the image.
GuestBlocks ==
  {b \in 0 .. Superblock.blocks_count - 1 :
     /\ disk[b] = Data
     /\ b % BLOCKS_PER_GROUP \in disk[LiveDescriptor(disk, b \div BLOCKS_PER_GROUP).block_bitmap].holds}
=============================================================================
