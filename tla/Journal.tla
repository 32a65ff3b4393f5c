------------------------------ MODULE Journal ------------------------------
(***************************************************************************)
(* The undo journal of HBFS (kernel/hbfs.inc): a transaction logs the old  *)
(* content of a metadata sector before it overwrites it, and the next      *)
(* mount, or an abort, writes the logged contents back.                    *)
(*                                                                         *)
(* One step ends with at most one sector write, so that the power may go   *)
(* between any two of them (PowerOff), the writes of recovery included.    *)
(* A sector write is atomic and the writes reach the disk in order.  The   *)
(* content of a sector is the number of the operation that wrote it, plus, *)
(* for the superblock, the three journal fields.  The CRC of a record is   *)
(* modelled as the content it was computed from.                           *)
(***************************************************************************)
EXTENDS Integers, Sequences, FiniteSets, FiniteSetsExt, SequencesExt

CONSTANTS
  BitmapSects, DirSects,   \* the sectors of the bitmap and of the directory
  HBFS_JOURNAL_SECTS,      \* sectors of the journal area
  MaxOps, MaxPowerOffs, MaxFaults   \* bounds on operations, power cuts and I/O errors

ASSUME JournalAssumption ==
  /\ HBFS_JOURNAL_SECTS \in Nat /\ HBFS_JOURNAL_SECTS % 2 = 0
  /\ HBFS_JOURNAL_SECTS > 4
  /\ "super" \notin BitmapSects \cup DirSects
  /\ BitmapSects \cap DirSects = {}

VARIABLES
  disk,     \* target sector -> content
  jrnl,     \* the journal area: index -> sector
  mem,      \* super_buf and the hbfs_journal_* variables
  prog,     \* what the running operation still does
  at,       \* the sector write it is about to make
  ebx,      \* the scan index of hbfs_journal_recover
  ops,      \* operations started
  faults, offs,   \* I/O errors and power cuts so far
  op,       \* the running operation: sectors it writes, whether it succeeds so far
  expect,   \* the sectors as the answered operations left them
  strayed,  \* an operation has left the journal open or hidden a failure
  lost,     \* an I/O error of the journal itself has gone unnoticed
  kept      \* what the next mount would have found until then

vars == <<disk, jrnl, mem, prog, at, ebx, ops, faults, offs, op, expect, strayed, lost, kept>>

Sectors == BitmapSects \cup DirSects

Plain(n) == [v |-> n, state |-> 0, epoch |-> 0, ptr |-> 0]

Blank == [kind |-> "none", lba |-> "super", epoch |-> 0, data |-> Plain(0)]

---------------------------------------------------------------------------
(* The operations, as the calls they make on the journal.  `otherwise' is  *)
(* what is left to do when a write fails, the transaction rolled back by   *)
(* hbfs_meta_write or hbfs_save_root_dir; `told' says whether the caller   *)
(* learns of it.                                                           *)

Step(what) == [do |-> what, lba |-> "super", otherwise |-> <<>>, told |-> TRUE]

WriteTo(lba, otherwise, told) ==
  [do |-> "write", lba |-> lba, otherwise |-> otherwise, told |-> told]

WriteAll(sects, otherwise, told) ==
  LET s == SetToSeq(sects)
  IN  [i \in 1 .. Len(s) |-> WriteTo(s[i], otherwise, told)]

\* hbfs_alloc_blocks and hbfs_free_blocks: bitmap, free count, superblock.
ChangeBlocks(b, otherwise) ==
  <<Step("begin")>> \o WriteAll(b, otherwise, TRUE)
    \o <<Step("count"), WriteTo("super", otherwise, TRUE), Step("commit")>>

\* hbfs_save_root_dir: the changed sectors of the directory.
SaveDir(d, otherwise, told) ==
  <<Step("begin")>> \o WriteAll(d, otherwise, told) \o <<Step("commit")>>

\* hbfs_create_file on a v3 volume.  It does not look at the answer of
\* hbfs_save_root_dir; an allocation that fails is aborted twice.
Create(old, b, d) ==
  LET rest == <<Step("data"), Step("commit")>>
  IN  <<Step("begin")>> \o old
        \o ChangeBlocks(b, <<Step("abort"), Step("abort")>>)
        \o SaveDir(d, rest, FALSE) \o rest

\* hbfs_delete_file_entry, and hbfs_rename_entry, return at the first failure;
\* hbfs_create_file deletes a file of the same name and returns if that fails.
Delete(b, d) ==
  <<Step("begin")>> \o ChangeBlocks(b, <<>>) \o SaveDir(d, <<>>, TRUE)
    \o <<Step("commit")>>

Rename(d) == <<Step("begin")>> \o SaveDir(d, <<>>, TRUE) \o <<Step("commit")>>

\* hbfs_create_file, the directory being full: it returns inside its
\* transaction.
CreateNoSlot == <<Step("begin"), Step("refuse")>>

---------------------------------------------------------------------------
Idle == at = "run" /\ prog = <<>>

Boot(super) ==
  [super |-> super, ptr |-> super.ptr, epoch |-> super.epoch, dirty |-> FALSE,
   failed |-> FALSE, depth |-> 0, logged |-> {}]

Init ==
  /\ disk = [x \in Sectors \cup {"super"} |-> Plain(0)]
  /\ jrnl = [i \in 0 .. HBFS_JOURNAL_SECTS - 1 |-> Blank]
  /\ mem = Boot(Plain(0))
  /\ prog = <<>> /\ at = "run" /\ ebx = 0
  /\ ops = 0 /\ faults = 0 /\ offs = 0
  /\ op = [writes |-> {}, ok |-> TRUE]
  /\ expect = [x \in Sectors |-> 0]
  /\ strayed = FALSE /\ lost = FALSE /\ kept = [x \in Sectors |-> 0]

Begins(p, w) ==
  /\ Idle /\ op.writes = {} /\ ops < MaxOps
  /\ ops' = ops + 1
  /\ prog' = p
  /\ op' = [writes |-> w, ok |-> TRUE]
  /\ UNCHANGED <<disk, jrnl, mem, at, ebx, faults, offs, expect, strayed, lost, kept>>

Start ==
  \/ \E b \in SUBSET BitmapSects \ {{}}, d \in SUBSET DirSects \ {{}} :
       \/ \E old \in {<<>>, Delete(b, d)} : Begins(Create(old, b, d), b \cup d)
       \/ Begins(Delete(b, d), b \cup d)
  \/ \E d \in SUBSET DirSects \ {{}} :
       \/ Begins(Rename(d), d)
       \/ Begins(CreateNoSlot, d)

\* The operation answers its caller.
Return ==
  /\ Idle /\ op.writes # {}
  /\ expect' = [x \in Sectors |->
                  IF op.ok /\ x \in op.writes THEN ops ELSE expect[x]]
  /\ op' = [writes |-> {}, ok |-> TRUE]
  /\ UNCHANGED <<disk, jrnl, mem, prog, at, ebx, ops, faults, offs, strayed, lost, kept>>

Doing(what) == at = "run" /\ prog # <<>> /\ Head(prog).do = what

still == <<ebx, ops, offs, expect, lost, kept>>

---------------------------------------------------------------------------
(* What a mount would find, and the errors nobody looks at                 *)

\* A record recovery would write back: magic, epoch, type and checksum.
Replayable(j, i, epoch) ==
  /\ i + 1 < HBFS_JOURNAL_SECTS
  /\ j[i].kind = "pre"
  /\ j[i].epoch = epoch
  /\ j[i].data = j[i + 1].data

\* The sectors as the next mount leaves them.
Scanned ==
  {i \in 0 .. HBFS_JOURNAL_SECTS - 1 :
     /\ i % 2 = 0
     /\ \A k \in 0 .. i : k % 2 = 0 => Replayable(jrnl, k, disk["super"].epoch)}

AfterMount ==
  [x \in Sectors |->
     LET recs == {i \in Scanned : jrnl[i].lba = x}
     IN  IF disk["super"].state = 1 /\ recs # {}
         THEN jrnl[Max(recs) + 1].data.v ELSE disk[x].v]

\* An error of a read or a write whose answer the journal does not look at
\* and that it cannot do without.
Unnoticed ==
  /\ faults < MaxFaults
  /\ faults' = faults + 1
  /\ lost' = TRUE
  /\ kept' = IF lost THEN kept ELSE AfterMount

Noticed == UNCHANGED <<faults, lost, kept>>

\* hbfs_write_superblock, called for its effect alone.
hbfs_write_superblock(super) ==
  \/ disk' = [disk EXCEPT !["super"] = super] /\ Noticed
  \/ UNCHANGED disk /\ Unnoticed

---------------------------------------------------------------------------
(* hbfs_journal_begin                                                      *)

Opened ==
  [mem EXCEPT !.super.epoch = mem.epoch + 1, !.super.state = 1,
              !.epoch = mem.epoch + 1, !.ptr = 0, !.dirty = TRUE,
              !.failed = FALSE, !.depth = 1, !.logged = {}]

Begin ==
  /\ Doing("begin")
  /\ prog' = Tail(prog)
  /\ IF mem.depth + 1 = 1
     THEN mem' = Opened /\ hbfs_write_superblock(Opened.super)
     ELSE mem' = [mem EXCEPT !.depth = @ + 1] /\ UNCHANGED disk /\ Noticed
  /\ UNCHANGED <<jrnl, at, op, strayed, ebx, ops, offs, expect>>

\* The free count of super_buf moves between the two hbfs_meta_write calls.
Count ==
  /\ Doing("count")
  /\ prog' = Tail(prog)
  /\ mem' = [mem EXCEPT !.super.v = ops]
  /\ UNCHANGED <<disk, jrnl, at, faults, op, strayed, still>>

---------------------------------------------------------------------------
(* hbfs_meta_write and the loop of hbfs_save_root_dir, one sector:         *)
(* hbfs_journal_log_sector, then the write of the sector itself.           *)

Lba == Head(prog).lba

\* Undone: the transaction is rolled back and the operation goes on with
\* what it does after a failed write.
FailWith(m) ==
  /\ mem' = m
  /\ at' = "seal"
  /\ prog' = Head(prog).otherwise
  /\ op' = [op EXCEPT !.ok = @ /\ ~Head(prog).told]
  /\ strayed' = (strayed \/ ~Head(prog).told)
  /\ UNCHANGED <<disk, jrnl, still>>

\* Whether a sector's old content has to be logged.  Fault: only the
\* superblock is.
Logs_superOnly == mem.dirty /\ Lba = "super"
Logs == mem.dirty

AlreadyLogged(lba) == lba \in mem.logged

NoRoom == mem.ptr + 2 >= HBFS_JOURNAL_SECTS - 1

\* The checks, and the write of the old content behind the header's place.
LogPayload ==
  /\ Doing("write")
  /\ IF ~Logs \/ (~mem.failed /\ AlreadyLogged(Lba))
     THEN at' = "target" /\ UNCHANGED <<jrnl, mem, disk, prog, faults, op, strayed, still>>
     ELSE IF mem.failed \/ NoRoom
     THEN FailWith([mem EXCEPT !.failed = TRUE]) /\ UNCHANGED faults
     ELSE /\ jrnl' = [jrnl EXCEPT ![mem.ptr + 1] =
                        [Blank EXCEPT !.kind = "data", !.data = disk[Lba]]]
          /\ at' = "header"
          /\ UNCHANGED <<mem, disk, prog, faults, op, strayed, still>>

\* `cmp ecx, 16' on a journal of 32 sectors.
ListMax == HBFS_JOURNAL_SECTS \div 2

LogHeader ==
  /\ at = "header"
  /\ jrnl' = [jrnl EXCEPT ![mem.ptr] =
                [kind |-> "pre", lba |-> Lba, epoch |-> mem.epoch,
                 data |-> jrnl[mem.ptr + 1].data]]
  /\ mem' = [mem EXCEPT !.logged = IF Cardinality(@) < ListMax THEN @ \cup {Lba} ELSE @,
                        !.ptr = @ + 2, !.super.ptr = mem.ptr + 2]
  /\ at' = "target"
  /\ UNCHANGED <<disk, prog, faults, op, strayed, still>>

WriteTarget ==
  /\ at = "target"
  /\ disk' = [disk EXCEPT ![Lba] = IF Lba = "super" THEN mem.super ELSE Plain(ops)]
  /\ at' = "run"
  /\ prog' = Tail(prog)
  /\ UNCHANGED <<jrnl, mem, faults, op, strayed, still>>

\* An I/O error in one of the three writes, or in the read before the first.
WriteFault ==
  /\ faults < MaxFaults
  /\ faults' = faults + 1
  /\ \/ /\ \/ at = "header"
           \/ Doing("write") /\ Logs /\ ~mem.failed /\ ~AlreadyLogged(Lba) /\ ~NoRoom
        /\ FailWith([mem EXCEPT !.failed = TRUE])
     \/ at = "target" /\ FailWith(mem)

\* The file's data: not journalled, and an error rolls the metadata back.
Data ==
  /\ Doing("data")
  /\ \/ prog' = Tail(prog) /\ UNCHANGED <<op, faults>>
     \/ /\ faults < MaxFaults
        /\ faults' = faults + 1
        /\ prog' = <<Step("abort")>>
        /\ op' = [op EXCEPT !.ok = FALSE]
  /\ UNCHANGED <<disk, jrnl, mem, at, strayed, still>>

Refuse ==
  /\ Doing("refuse")
  /\ prog' = Tail(prog)
  /\ op' = [op EXCEPT !.ok = FALSE]
  /\ strayed' = TRUE
  /\ UNCHANGED <<disk, jrnl, mem, at, faults, still>>

---------------------------------------------------------------------------
(* hbfs_journal_commit and hbfs_journal_abort                              *)

\* The commit marker; its write may fail too, and nobody looks.
Marks ==
  \/ /\ jrnl' = IF mem.ptr < HBFS_JOURNAL_SECTS
                 THEN [jrnl EXCEPT ![mem.ptr] =
                         [Blank EXCEPT !.kind = "commit", !.epoch = mem.epoch]]
                 ELSE jrnl
     /\ UNCHANGED faults
  \/ /\ mem.ptr < HBFS_JOURNAL_SECTS /\ faults < MaxFaults
     /\ faults' = faults + 1
     /\ UNCHANGED jrnl

CommitMark ==
  /\ Doing("commit")
  /\ prog' = Tail(prog)
  /\ IF ~mem.dirty THEN UNCHANGED <<mem, jrnl, at, faults>>
     ELSE IF mem.depth - 1 > 0
     THEN mem' = [mem EXCEPT !.depth = @ - 1] /\ UNCHANGED <<jrnl, at, faults>>
     ELSE /\ mem' = [mem EXCEPT !.depth = 0]
          /\ IF mem.failed THEN at' = "seal" /\ UNCHANGED <<jrnl, faults>>
             ELSE at' = "flush" /\ Marks
  /\ UNCHANGED <<disk, op, strayed, still>>

\* The journal closed.  Fault: the volume is left marked as in a transaction.
Closed_dirty(m) == [m EXCEPT !.super.ptr = 0, !.ptr = 0, !.dirty = FALSE]
Closed(m) == [m EXCEPT !.super.state = 0, !.super.ptr = 0, !.ptr = 0, !.dirty = FALSE]

CommitFlush ==
  /\ at = "flush"
  /\ mem' = [Closed(mem) EXCEPT !.logged = {}]
  /\ hbfs_write_superblock(mem'.super)
  /\ at' = "run"
  /\ UNCHANGED <<jrnl, prog, op, strayed, ebx, ops, offs, expect>>

Abort ==
  /\ Doing("abort")
  /\ prog' = Tail(prog)
  /\ at' = "seal"
  /\ UNCHANGED <<disk, jrnl, mem, faults, op, strayed, still>>

Seal ==
  /\ at = "seal"
  /\ mem' = [mem EXCEPT !.depth = 0]
  /\ Marks
  /\ at' = "undo" /\ ebx' = 0
  /\ UNCHANGED <<disk, prog, op, strayed, ops, offs, expect, lost, kept>>

---------------------------------------------------------------------------
(* hbfs_journal_recover, called by an abort ("undo") and by hbfs_init      *)
(* ("mount")                                                               *)

\* A record written back, or skipped when its payload cannot be read or its
\* target cannot be written.
Replay ==
  /\ at \in {"undo", "mount"}
  /\ Replayable(jrnl, ebx, mem.epoch)
  /\ \/ disk' = [disk EXCEPT ![jrnl[ebx].lba] = jrnl[ebx + 1].data] /\ Noticed
     \/ UNCHANGED disk /\ Unnoticed
  /\ ebx' = ebx + 2
  /\ UNCHANGED <<jrnl, mem, prog, at, ops, offs, op, expect, strayed>>

\* The scan over, or ended by a header that cannot be read.
Replayed ==
  /\ at \in {"undo", "mount"}
  /\ mem' = [Closed(mem) EXCEPT !.depth = 0, !.failed = FALSE]
  /\ \/ /\ ~Replayable(jrnl, ebx, mem.epoch)
        /\ hbfs_write_superblock(mem'.super)
     \/ /\ Replayable(jrnl, ebx, mem.epoch)
        /\ disk' = [disk EXCEPT !["super"] = mem'.super]
        /\ Unnoticed
  /\ at' = IF at = "undo" THEN "reread" ELSE "run"
  /\ ebx' = 0
  /\ UNCHANGED <<jrnl, prog, ops, offs, op, expect, strayed>>

\* The end of hbfs_journal_abort: the superblock is read back from the disk,
\* and the one in memory stays when it cannot be read.
Reread ==
  LET Reset(super, epoch) ==
        [Closed([mem EXCEPT !.super = super]) EXCEPT
           !.epoch = epoch, !.failed = FALSE, !.logged = {}]
  IN  /\ at = "reread"
      /\ \/ /\ mem' = Reset(disk["super"], disk["super"].epoch)
            /\ hbfs_write_superblock(mem'.super)
         \/ /\ mem' = Reset(mem.super, mem.epoch)
            /\ disk' = [disk EXCEPT !["super"] = mem'.super]
            /\ Unnoticed
      /\ at' = "run"
      /\ UNCHANGED <<jrnl, prog, op, strayed, ebx, ops, offs, expect>>

---------------------------------------------------------------------------
(* A power cut, and hbfs_init at the next start                            *)

PowerOff ==
  /\ at # "off" /\ offs < MaxPowerOffs
  /\ offs' = offs + 1
  /\ at' = "off" /\ prog' = <<>> /\ ebx' = 0
  /\ op' = [writes |-> {}, ok |-> TRUE]
  /\ expect' = AfterMount
  /\ strayed' = FALSE
  /\ mem' = Boot(Plain(0))
  /\ UNCHANGED <<disk, jrnl, ops, faults, lost, kept>>

Mount ==
  /\ at = "off"
  /\ mem' = Boot(disk["super"])
  /\ at' = IF disk["super"].state = 1 THEN "mount" ELSE "run"
  /\ UNCHANGED <<disk, jrnl, prog, ebx, ops, faults, offs, op, expect, strayed, lost, kept>>

Next ==
  \/ Start \/ Return
  \/ Begin \/ Count \/ LogPayload \/ LogHeader \/ WriteTarget \/ WriteFault
  \/ Data \/ Refuse
  \/ CommitMark \/ CommitFlush \/ Abort \/ Seal
  \/ Replay \/ Replayed \/ Reread
  \/ PowerOff \/ Mount

Spec == Init /\ [][Next]_vars

---------------------------------------------------------------------------
(* Properties                                                              *)

Promise == INSTANCE Transactions
  WITH store <- IF lost THEN kept ELSE AfterMount, number <- ops, writes <- op.writes,
       Writes <- SUBSET Sectors \ {{}}

\* At every moment, between any two sector writes of an operation, of a
\* rollback or of a recovery that was itself cut short, the bitmap and
\* directory sectors the next mount would leave are those of whole operations,
\* all the sectors of the running one or none: hbfs_meta_write's "either the
\* old or the new state, never a mixture".  It is said of the volume up to the
\* first error that the journal does not look at and cannot do without.
MetadataAtomic == Promise!Spec

\* What an operation answered is what the volume holds: once it returns, the
\* next mount finds all its sectors if it said it succeeded and none of them
\* if it said it failed, with the journal full, an I/O error, a lost commit
\* marker and an abort inside a nested transaction among the ways to get
\* there.  Left out are the operations after a create that returned with its
\* transaction open (directory full) or did not look at hbfs_save_root_dir's
\* answer, and after an error that nobody looked at.
AnswersKept ==
  Idle /\ ~strayed /\ ~lost =>
    AfterMount = [x \in Sectors |->
                    IF op.ok /\ x \in op.writes THEN ops ELSE expect[x]]

\* The free count belongs to the same transaction as the bitmap
\* (hbfs_alloc_blocks, hbfs_free_blocks): with no operation under way the
\* count in hbfs_super_buf is the one the last change of the bitmap left.
FreeCountFollows ==
  Idle /\ op.writes = {} /\ ~strayed =>
    mem.super.v = Max({disk[b].v : b \in BitmapSects})
=============================================================================
