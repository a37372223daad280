---------------------------- MODULE ImageLayout ----------------------------
(***************************************************************************)
(* The geometry of the ext4 images the service writes (upperfs/layout.rs,  *)
(* upperfs/plan.rs) and what a grow plans from it (upperfs/grow.rs).        *)
(*                                                                         *)
(* A size is a number of blocks, a block is its number in the image and a  *)
(* bitmap is the set of the bits of its group that are set.  A layout is   *)
(* what the superblock keeps of it; the rest is derived from that.         *)
(***************************************************************************)
EXTENDS Integers, FiniteSets, FiniteSetsExt

CONSTANTS
  BLOCKS_PER_GROUP,
  DESCS_PER_BLOCK,     \* group descriptors in a block of the table
  ADDRS_PER_BLOCK,     \* block addresses in an indirect block
  INODES_PER_BLOCK,    \* BLOCK_SIZE / INODE_SIZE
  BLOCKS_PER_INODE,    \* INODE_RATIO / BLOCK_SIZE
  GROWTH_FACTOR,
  LOST_FOUND_BLOCKS,
  JBD2_MIN_JOURNAL_BLOCKS,
  JOURNAL_TARGET_BLOCKS

ASSUME LayoutAssumption ==
  /\ {BLOCKS_PER_GROUP, DESCS_PER_BLOCK, ADDRS_PER_BLOCK, INODES_PER_BLOCK,
      BLOCKS_PER_INODE, GROWTH_FACTOR, JBD2_MIN_JOURNAL_BLOCKS} \subseteq Nat \ {0}
  /\ LOST_FOUND_BLOCKS \in Nat /\ JOURNAL_TARGET_BLOCKS \in Nat

RESIZE_DIND_BLOCKS == 1

DivCeil(a, b) == (a + b - 1) \div b
Least(a, b) == IF a < b THEN a ELSE b
Most(a, b) == IF a < b THEN b ELSE a
SaturatingSub(a, b) == IF a < b THEN 0 ELSE a - b

-----------------------------------------------------------------------------
(* layout.rs                                                               *)

Layout == [block_count : Nat, inodes_per_group : Nat, gdt_blocks : Nat, reserved_gdt_blocks : Nat]

ForExisting(blocks, ipg, gdt, reserved) ==
  [block_count |-> blocks, inodes_per_group |-> ipg, gdt_blocks |-> gdt,
   reserved_gdt_blocks |-> reserved]

NumGroups(l) == DivCeil(l.block_count, BLOCKS_PER_GROUP)
Groups(l) == 0 .. NumGroups(l) - 1
LastGroupBlocks(l) == l.block_count - (NumGroups(l) - 1) * BLOCKS_PER_GROUP
BlocksInGroup(l, g) == IF g + 1 = NumGroups(l) THEN LastGroupBlocks(l) ELSE BLOCKS_PER_GROUP
InodeTableBlocks(l) == l.inodes_per_group \div INODES_PER_BLOCK
InodesCount(l) == l.inodes_per_group * NumGroups(l)

\* compute_backup_groups: 0, 1 and the powers of 3, 5 and 7.
BackupGroups(n) ==
  {g \in 0 .. n - 1 : g <= 1 \/ \E base \in {3, 5, 7}, i \in 1 .. g : g = base ^ i}

\* Blocks held back behind the table: what a GROWTH_FACTOR-fold image would
\* need, as far as one indirect block addresses it and group 0 has room.
ReservedGdtBlocks(groups, gdt, inGroup0, itab) ==
  LET grown == DivCeil(groups * GROWTH_FACTOR, DESCS_PER_BLOCK)
      wanted == Least(SaturatingSub(grown, gdt), SaturatingSub(ADDRS_PER_BLOCK, gdt))
      fixed == 1 + gdt + 2 + itab + 1 + LOST_FOUND_BLOCKS + RESIZE_DIND_BLOCKS
      spare == SaturatingSub(SaturatingSub(inGroup0, fixed), JBD2_MIN_JOURNAL_BLOCKS * 4)
  IN  Least(wanted, spare)

ForFreshImage(blocks) ==
  LET groups == DivCeil(blocks, BLOCKS_PER_GROUP)
      raw == DivCeil(blocks \div BLOCKS_PER_INODE, groups)
      ipg == DivCeil(raw, INODES_PER_BLOCK) * INODES_PER_BLOCK
      gdt == DivCeil(groups, DESCS_PER_BLOCK)
      inGroup0 == IF groups = 1 THEN blocks ELSE BLOCKS_PER_GROUP
  IN  ForExisting(blocks, ipg, gdt,
        ReservedGdtBlocks(groups, gdt, inGroup0, ipg \div INODES_PER_BLOCK))

-----------------------------------------------------------------------------
(* plan.rs                                                                 *)

\* group_block_layout: where the parts of a group are; the first four only in
\* a group that carries a backup.
GroupBlockLayout(l, g) ==
  LET base == g * BLOCKS_PER_GROUP
      table == IF g \in BackupGroups(NumGroups(l))
               THEN 1 + l.gdt_blocks + l.reserved_gdt_blocks ELSE 0
  IN  [group_base |-> base, sb |-> base, gdt |-> base + 1,
       reserved |-> base + 1 + l.gdt_blocks,
       bbmp |-> base + table, ibmp |-> base + table + 1, itab |-> base + table + 2,
       data |-> base + table + 2 + InodeTableBlocks(l)]

GroupZeroFreeBlocks(l) ==
  SaturatingSub(BlocksInGroup(l, 0),
                GroupBlockLayout(l, 0).data + 1 + LOST_FOUND_BLOCKS + RESIZE_DIND_BLOCKS)

JournalBlocks(l) ==
  IF GroupZeroFreeBlocks(l) >= JOURNAL_TARGET_BLOCKS * 4
  THEN JOURNAL_TARGET_BLOCKS ELSE JBD2_MIN_JOURNAL_BLOCKS

JournalFirstBlock(l) == GroupBlockLayout(l, 0).data + 1 + LOST_FOUND_BLOCKS
ResizeDindBlock(l) == JournalFirstBlock(l) + JournalBlocks(l)

\* block_bitmap: the group's own metadata, in group 0 the root directory,
\* lost+found, the journal and the resize block, and the padding past the end.
BlockBitmap(l, g) ==
  LET gbl == GroupBlockLayout(l, g)
      upto == IF g # 0 THEN gbl.data
              ELSE ResizeDindBlock(l) + (IF l.reserved_gdt_blocks > 0 THEN 1 ELSE 0)
  IN  (0 .. upto - gbl.group_base - 1) \cup (BlocksInGroup(l, g) .. BLOCKS_PER_GROUP - 1)

\* group_descriptor, of which the free count and the place of the bitmap matter.
FreeIn(l, g, bitmap) == Cardinality((0 .. BlocksInGroup(l, g) - 1) \ bitmap)
GroupDescriptor(l, g) ==
  [block_bitmap |-> GroupBlockLayout(l, g).bbmp, free |-> FreeIn(l, g, BlockBitmap(l, g))]

TotalFree(l, desc) == MapThenSumSet(LAMBDA g : desc[g].free, Groups(l))

\* Plan::new refuses an image whose group 0 cannot hold the smallest journal.
PlanAccepts(blocks) ==
  /\ blocks >= 1
  /\ GroupZeroFreeBlocks(ForFreshImage(blocks)) >= JBD2_MIN_JOURNAL_BLOCKS * 4

\* resize_blocks: the double-indirect block names the reserved blocks, and
\* each of those names its copies in the other groups that carry a backup.
DindContents(l) ==
  [slot \in l.gdt_blocks .. l.gdt_blocks + l.reserved_gdt_blocks - 1 |->
     GroupBlockLayout(l, 0).gdt + slot]
Copies(l, primary) ==
  {primary + g * BLOCKS_PER_GROUP : g \in BackupGroups(NumGroups(l)) \ {0}}

-----------------------------------------------------------------------------
(* grow.rs                                                                 *)

ReservedAfter(before, gdt) == before.gdt_blocks + before.reserved_gdt_blocks - gdt

\* A last group too short for its own metadata is not begun.
DropAShortTail(before, requested) ==
  LET groups == DivCeil(requested, BLOCKS_PER_GROUP)
      tail == requested - (groups - 1) * BLOCKS_PER_GROUP
      gdt == DivCeil(groups, DESCS_PER_BLOCK)
      table == IF groups - 1 \in BackupGroups(groups) THEN 1 + gdt + ReservedAfter(before, gdt) ELSE 0
  IN  IF tail = BLOCKS_PER_GROUP \/ tail > table + 2 + InodeTableBlocks(before)
      THEN requested ELSE (groups - 1) * BLOCKS_PER_GROUP

\* The layout an image has, from its superblock.
LayoutOf(sb) ==
  ForExisting(sb.blocks_count, sb.inodes_per_group,
              DivCeil(sb.blocks_count, DESCS_PER_BLOCK * BLOCKS_PER_GROUP), sb.reserved_gdt_blocks)

\* One block of a reserved run is kept for the resize inode to name.
LargestGdt(before) ==
  before.gdt_blocks + before.reserved_gdt_blocks - (IF before.reserved_gdt_blocks > 0 THEN 1 ELSE 0)

\* plan_grow: "none" when nothing is to be written, "refused" when the table
\* cannot reach that far, and else the layout before and after.
PlanGrow(sb, requested) ==
  LET before == LayoutOf(sb)
      blocks == DropAShortTail(before, requested)
      gdt == DivCeil(DivCeil(blocks, BLOCKS_PER_GROUP), DESCS_PER_BLOCK)
      after == ForExisting(blocks, before.inodes_per_group, gdt, ReservedAfter(before, gdt))
      wants == DivCeil(DivCeil(requested, BLOCKS_PER_GROUP), DESCS_PER_BLOCK)
      Answer(what, l) == [what |-> what, before |-> before, after |-> l]
  IN  IF requested <= before.block_count THEN Answer("none", before)
      ELSE IF wants > LargestGdt(before) THEN Answer("refused", before)
      ELSE IF blocks <= before.block_count THEN Answer("none", before)
      ELSE Answer("grow", after)

\* The old last group counts as appended.
AppendedGroupsFromTail(plan) == NumGroups(plan.before) - 1 .. NumGroups(plan.after) - 1

AppendedGroups(plan) == NumGroups(plan.before) .. NumGroups(plan.after) - 1

\* filled_tail: the blocks the old last group gains, as bits of its bitmap.
FilledTail(plan) ==
  LET tail == NumGroups(plan.before) - 1
  IN  LastGroupBlocks(plan.before) .. BlocksInGroup(plan.after, tail) - 1
=============================================================================
