--------------------------- MODULE SpinLockProofs ---------------------------
(***************************************************************************)
(* The invariant and the safety properties of SpinLock, for every number   *)
(* of processors, locks and slots and every behaviour of the callers.      *)
(* First that each step of a processor keeps the part of the invariant     *)
(* that is about that processor and touches nobody else's: the steps that  *)
(* leave the record of held locks alone, then those that change it and the *)
(* one that gives a processor its own.  Then who holds what after a step,  *)
(* the properties, that SpinLock implements Mutex, and that a correct      *)
(* release is not reported.                                                *)
(***************************************************************************)
EXTENDS SpinLock, FiniteSetTheorems, WellFoundedInduction, TLAPS

\* Where a processor's interrupts may be on, where it is taking a lock and where
\* it is letting go of one.
Resting   == {"run", "sl_check", "sl_cli", "su_check"}
Locking   == {"sl_try", "sl_got", "sl_push"}
Unlocking == {"su_owner", "su_free", "su_popfd"}
HasLock   == {"sl_check", "sl_cli", "su_check", "su_owner", "su_free"} \cup Locking
Granted   == {"sl_cli", "su_owner", "su_free"} \cup Locking

Claimed == {c \in Cpus : slot(c) # Unclaimed}

\* Slots are handed out in order, one per processor that has started, and the
\* record of a slot that nobody has is empty.
SlotInv ==
  /\ slot_next = Cardinality(Claimed)
  /\ \A c \in Claimed : slot(c) < slot_next
  /\ \A c \in Cpus : pc[c] = "off" <=> slot(c) = Unclaimed
  /\ SlotsDistinct
  /\ \A s \in Slots : s >= slot_next => held_count[s] = 0

\* The record holds locks in rank order, and a lock on its way in or out ranks
\* above all of it.
RecordInv(c) ==
  /\ \A i \in 0 .. Count(c) - 1 : HeldAt(c, i) \in Locks
  /\ \A i, j \in 0 .. Count(c) - 1 : i < j => Rank[HeldAt(c, i)] < Rank[HeldAt(c, j)]
  /\ pc[c] \in HasLock => edi[c] \in Locks
  /\ pc[c] \in Granted =>
       /\ Count(c) < MAX_HELD_LOCKS
       /\ \A i \in 0 .. Count(c) - 1 : Rank[HeldAt(c, i)] < Rank[edi[c]]

\* Interrupts are on only outside locks; the flags saved with the first lock are
\* the caller's and those saved with the others say "off".
FlagInv(c) ==
  /\ iflag[c] => pc[c] \in Resting /\ Count(c) = 0
  /\ pc[c] \in Resting /\ Count(c) = 0 => iflag[c] = callerIf[c]
  /\ Count(c) > 0 => held_flags[slot(c)][0] = callerIf[c]
  /\ \A i \in 1 .. Count(c) - 1 : held_flags[slot(c)][i] = FALSE
  /\ pc[c] \in Locking \cup Unlocking =>
       /\ Count(c) = 0 => flags[c] = callerIf[c]
       /\ Count(c) > 0 => flags[c] = FALSE

\* An interrupt is taken only where interrupts were on.
SuspInv(c) ==
  susp[c] # NoContext =>
    /\ susp[c].pc \in Resting /\ susp[c].callerIf = TRUE
    /\ susp[c].pc # "run" => susp[c].edi \in Locks

OffInv(c) == iflag[c] = FALSE /\ callerIf[c] = FALSE /\ susp[c] = NoContext

CpuInv(c) ==
  /\ pc[c] = "off" => OffInv(c)
  /\ pc[c] # "off" => RecordInv(c) /\ FlagInv(c) /\ SuspInv(c)

\* LK_LOCKED is set as long as somebody holds the lock.
LockInv ==
  /\ \A c \in Cpus, l \in Locks : Holds(c, l) => locked[l] = 1
  /\ MutualExclusion

IInv == TypeOK /\ SlotInv /\ (\A c \in Cpus : CpuInv(c)) /\ LockInv

-----------------------------------------------------------------------------
(* What a step of one processor leaves alone *)

SameRow(s) ==
  /\ held_count'[s] = held_count[s]
  /\ held_lock'[s] = held_lock[s] /\ held_flags'[s] = held_flags[s]

Same(d) ==
  /\ slot_by_apic'[d] = slot_by_apic[d]
  /\ pc'[d] = pc[d] /\ edi'[d] = edi[d] /\ flags'[d] = flags[d]
  /\ iflag'[d] = iflag[d] /\ callerIf'[d] = callerIf[d] /\ susp'[d] = susp[d]
  /\ slot(d) # Unclaimed => SameRow(slot(d))

\* A processor whose registers and record are as before is in order as before.
LEMMA FrameCpu ==
  ASSUME SlotInv, NEW d \in Cpus, CpuInv(d), Same(d)
  PROVE  CpuInv(d)'
<1>1. pc[d] = "off" => OffInv(d)'
  BY Zenon DEF CpuInv, OffInv, Same
<1>2. ASSUME pc[d] # "off"
      PROVE  RecordInv(d)' /\ FlagInv(d)' /\ SuspInv(d)'
  <2>1. slot(d)' = slot(d) /\ SameRow(slot(d)) /\ RecordInv(d) /\ FlagInv(d) /\ SuspInv(d)
    BY <1>2, Zenon DEF SlotInv, CpuInv, Same, slot
  <2>2. RecordInv(d)'
    BY <2>1, Zenon DEF RecordInv, Same, SameRow, Count, HeldAt
  <2>3. FlagInv(d)'
    BY <2>1, Zenon DEF FlagInv, Same, SameRow, Count
  <2>4. SuspInv(d)'
    BY <2>1, Zenon DEF SuspInv, Same
  <2> QED  BY <2>2, <2>3, <2>4, Zenon
<1> QED  BY <1>1, <1>2, Zenon DEF CpuInv, Same

\* ... and holds the locks it held.
LEMMA FrameHolds ==
  ASSUME SlotInv, NEW d \in Cpus, Same(d), NEW l
  PROVE  Holds(d, l)' <=> Holds(d, l)
  BY ZenonT(120) DEF SlotInv, Same, SameRow, Holds, Recorded, InFlight, Count, HeldAt, slot

-----------------------------------------------------------------------------
(* The steps that leave the record of held locks as it is *)

\* A step of c keeps the types, the slots and c in order, and touches nobody else.
OneCpu(c) ==
  /\ TypeOK' /\ SlotInv' /\ CpuInv(c)'
  /\ \A d \in Cpus \ {c} : Same(d)

\* With the slots and records unchanged only the registers of c matter.
LEMMA SameSlots ==
  ASSUME SlotInv, UNCHANGED <<slotVars, heldVars>>,
         \A c \in Cpus : pc'[c] = "off" <=> pc[c] = "off"
  PROVE  SlotInv'
  BY Zenon DEF SlotInv, SlotsDistinct, Claimed, slotVars, heldVars, slot

Contexts == [pc : PCs, edi : Locks \cup {NoLock}, flags : BOOLEAN, callerIf : BOOLEAN]

\* The slots and records stay, and c goes to p with the lock e, the saved flags f,
\* interrupts as on says, the caller's choice k and the interrupted context s.
Moves(c, p, e, f, on, k, s) ==
  /\ UNCHANGED <<slotVars, heldVars>>
  /\ pc' = [pc EXCEPT ![c] = p] /\ edi' = [edi EXCEPT ![c] = e]
  /\ flags' = [flags EXCEPT ![c] = f] /\ iflag' = [iflag EXCEPT ![c] = on]
  /\ callerIf' = [callerIf EXCEPT ![c] = k] /\ susp' = [susp EXCEPT ![c] = s]

\* What RecordInv, FlagInv and SuspInv ask of those registers.
MayRecord(c, p, e) ==
  /\ p \in HasLock => e \in Locks
  /\ p \in Granted =>
       /\ Count(c) < MAX_HELD_LOCKS
       /\ \A i \in 0 .. Count(c) - 1 : Rank[HeldAt(c, i)] < Rank[e]

MayFlag(c, p, f, on, k) ==
  /\ on => p \in Resting /\ Count(c) = 0
  /\ p \in Resting /\ Count(c) = 0 => on = k
  /\ Count(c) > 0 => k = callerIf[c]
  /\ p \in Locking \cup Unlocking =>
       /\ Count(c) = 0 => f = k
       /\ Count(c) > 0 => f = FALSE

MaySuspend(s) ==
  s # NoContext => s.pc \in Resting /\ s.callerIf = TRUE /\ (s.pc # "run" => s.edi \in Locks)

\* What the gate and the locks keep of their types.
GateTypes ==
  /\ locked' \in [Locks -> {0, 1}] /\ owner' \in [Locks -> Slots]
  /\ armed' \in BOOLEAN /\ violations' \in Nat

\* Only what c's registers become has to be looked at.
LEMMA MoveStep ==
  ASSUME IInv, NEW c \in Cpus, pc[c] # "off", NEW p \in PCs, p # "off",
         NEW e \in Locks \cup {NoLock}, NEW f \in BOOLEAN, NEW on \in BOOLEAN,
         NEW k \in BOOLEAN, NEW s \in Contexts, Moves(c, p, e, f, on, k, s),
         MayRecord(c, p, e), MayFlag(c, p, f, on, k), MaySuspend(s), GateTypes
  PROVE  OneCpu(c)
<1>1. TypeOK'
  BY ZenonT(60) DEF IInv, TypeOK, Moves, GateTypes, Contexts, slotVars, heldVars
<1>2. /\ pc'[c] = p /\ edi'[c] = e /\ flags'[c] = f
      /\ iflag'[c] = on /\ callerIf'[c] = k /\ susp'[c] = s
  BY ZenonT(60) DEF IInv, TypeOK, Moves
<1>3. \A d \in Cpus \ {c} : Same(d)
  BY ZenonT(60) DEF IInv, TypeOK, Moves, Same, SameRow, slotVars, heldVars
<1>4. SlotInv'
  <2>1. \A d \in Cpus : pc'[d] = "off" <=> pc[d] = "off"
    BY <1>2, <1>3, Zenon DEF Same
  <2> QED  BY <2>1, SameSlots, Zenon DEF IInv, Moves
<1>5. UNCHANGED <<slotVars, heldVars>> /\ RecordInv(c) /\ FlagInv(c)
  BY Zenon DEF Moves, IInv, CpuInv
<1>6. Count(c)' = Count(c) /\ slot(c)' = slot(c) /\ \A i : HeldAt(c, i)' = HeldAt(c, i)
  BY <1>5, Zenon DEF Count, HeldAt, slot, slotVars, heldVars
<1>7. RecordInv(c)'
  BY <1>2, <1>5, <1>6, Zenon DEF RecordInv, MayRecord
<1>8. FlagInv(c)'
  <2>1. held_flags' = held_flags
    BY <1>5, Zenon DEF heldVars
  <2> QED  BY <1>2, <1>5, <1>6, <2>1, ZenonT(60) DEF FlagInv, MayFlag
<1>9. SuspInv(c)'
  BY <1>2, Zenon DEF SuspInv, MaySuspend
<1> QED  BY <1>1, <1>2, <1>3, <1>4, <1>7, <1>8, <1>9, Zenon DEF OneCpu, CpuInv

\* The registers a processor has are of the right types and in order.
LEMMA Registers ==
  ASSUME IInv, NEW c \in Cpus, pc[c] # "off"
  PROVE  /\ edi[c] \in Locks \cup {NoLock} /\ flags[c] \in BOOLEAN /\ iflag[c] \in BOOLEAN
         /\ callerIf[c] \in BOOLEAN /\ susp[c] \in Contexts
         /\ slot(c) \in Slots /\ (Count(c) > 0 <=> Count(c) # 0)
         /\ RecordInv(c) /\ FlagInv(c) /\ MaySuspend(susp[c])
<1>1. slot(c) \in Slots
  BY Zenon DEF IInv, TypeOK, SlotInv, slot
<1>2. Count(c) \in 0 .. MAX_HELD_LOCKS
  BY <1>1, Zenon DEF IInv, TypeOK, Count
<1>3. Count(c) > 0 <=> Count(c) # 0
  BY <1>2, LockAssumption
<1> QED  BY <1>1, <1>3, Zenon DEF IInv, TypeOK, CpuInv, SuspInv, Contexts, MaySuspend

LEMMA CallLockStep ==
  ASSUME IInv, NEW c \in Cpus, NEW l \in Locks, CallLock(c, l)
  PROVE  OneCpu(c)
<1>1. pc[c] = "run"
  BY Zenon DEF CallLock
<1>2. Moves(c, "sl_check", l, flags[c], iflag[c], callerIf[c], susp[c])
  BY <1>1, ZenonT(60) DEF CallLock, Goto, IInv, TypeOK, Moves
<1>3. GateTypes
  BY ZenonT(60) DEF CallLock, Goto, GateTypes, TypeOK, IInv, lockVars, gateVars
<1>4. MayRecord(c, "sl_check", l)
  BY <1>1, Registers, Zenon DEF CallLock, MayRecord, RecordInv, HasLock, Granted, Locking
<1>5. MayFlag(c, "sl_check", flags[c], iflag[c], callerIf[c])
  BY <1>1, Registers, Zenon DEF CallLock, MayFlag, FlagInv, Resting, Locking, Unlocking
<1>6. "sl_check" \in PCs /\ "sl_check" # "off" /\ pc[c] # "off"
  BY <1>1, Zenon DEF PCs
<1> QED  BY <1>2, <1>3, <1>4, <1>5, <1>6, Registers, MoveStep, ZenonT(60)

LEMMA CallUnlockStep ==
  ASSUME IInv, NEW c \in Cpus, NEW l \in Locks, CallUnlock(c, l)
  PROVE  OneCpu(c)
<1>1. pc[c] = "run"
  BY Zenon DEF CallUnlock
<1>2. Moves(c, "su_check", l, flags[c], iflag[c], callerIf[c], susp[c])
  BY <1>1, ZenonT(60) DEF CallUnlock, Goto, IInv, TypeOK, Moves
<1>3. GateTypes
  BY ZenonT(60) DEF CallUnlock, Goto, GateTypes, TypeOK, IInv, lockVars, gateVars
<1>4. MayRecord(c, "su_check", l)
  BY <1>1, Registers, Zenon DEF CallUnlock, MayRecord, RecordInv, HasLock, Granted, Locking
<1>5. MayFlag(c, "su_check", flags[c], iflag[c], callerIf[c])
  BY <1>1, Registers, Zenon DEF CallUnlock, MayFlag, FlagInv, Resting, Locking, Unlocking
<1>6. "su_check" \in PCs /\ "su_check" # "off" /\ pc[c] # "off"
  BY <1>1, Zenon DEF PCs
<1> QED  BY <1>2, <1>3, <1>4, <1>5, <1>6, Registers, MoveStep, ZenonT(60)

LEMMA SlCheckPassStep ==
  ASSUME IInv, NEW c \in Cpus, SlCheckPass(c)
  PROVE  OneCpu(c)
<1>1. pc[c] = "sl_check"
  BY Zenon DEF SlCheckPass
<1>2. Moves(c, "sl_cli", edi[c], flags[c], iflag[c], callerIf[c], susp[c])
  BY <1>1, ZenonT(60) DEF SlCheckPass, Goto, IInv, TypeOK, Moves
<1>3. GateTypes
  BY ZenonT(60) DEF SlCheckPass, Goto, GateTypes, TypeOK, IInv, lockVars, gateVars
<1>4. MayRecord(c, "sl_cli", edi[c])
  BY <1>1, Registers, Zenon DEF SlCheckPass, MayRecord, RecordInv, HasLock, Granted, Locking, GrantOK
<1>5. MayFlag(c, "sl_cli", flags[c], iflag[c], callerIf[c])
  BY <1>1, Registers, Zenon DEF SlCheckPass, MayFlag, FlagInv, Resting, Locking, Unlocking
<1>6. "sl_cli" \in PCs /\ "sl_cli" # "off" /\ pc[c] # "off"
  BY <1>1, Zenon DEF PCs
<1> QED  BY <1>2, <1>3, <1>4, <1>5, <1>6, Registers, MoveStep, ZenonT(60)

LEMMA SlCliStep ==
  ASSUME IInv, NEW c \in Cpus, SlCli(c)
  PROVE  OneCpu(c)
<1>1. pc[c] = "sl_cli"
  BY Zenon DEF SlCli
<1>2. Moves(c, "sl_try", edi[c], iflag[c], FALSE, callerIf[c], susp[c])
  BY <1>1, ZenonT(60) DEF SlCli, Pushed, Goto, IInv, TypeOK, Moves
<1>3. GateTypes
  BY ZenonT(60) DEF SlCli, Pushed, Goto, GateTypes, TypeOK, IInv, lockVars, gateVars
<1>4. MayRecord(c, "sl_try", edi[c])
  BY <1>1, Registers, Zenon DEF SlCli, MayRecord, RecordInv, HasLock, Granted, Locking
<1>5. MayFlag(c, "sl_try", iflag[c], FALSE, callerIf[c])
  BY <1>1, Registers, Zenon DEF SlCli, MayFlag, FlagInv, Resting, Locking, Unlocking
<1>6. "sl_try" \in PCs /\ "sl_try" # "off" /\ pc[c] # "off"
  BY <1>1, Zenon DEF PCs
<1> QED  BY <1>2, <1>3, <1>4, <1>5, <1>6, Registers, MoveStep, ZenonT(60)

LEMMA SlTryStep ==
  ASSUME IInv, NEW c \in Cpus, SlTry(c)
  PROVE  OneCpu(c)
<1>1. pc[c] = "sl_try"
  BY Zenon DEF SlTry
<1>2. Moves(c, "sl_got", edi[c], flags[c], iflag[c], callerIf[c], susp[c])
  BY <1>1, ZenonT(60) DEF SlTry, Goto, IInv, TypeOK, Moves
<1>3. GateTypes
  BY ZenonT(60) DEF SlTry, Goto, GateTypes, TypeOK, IInv, lockVars, gateVars
<1>4. MayRecord(c, "sl_got", edi[c])
  BY <1>1, Registers, Zenon DEF SlTry, MayRecord, RecordInv, HasLock, Granted, Locking
<1>5. MayFlag(c, "sl_got", flags[c], iflag[c], callerIf[c])
  BY <1>1, Registers, Zenon DEF SlTry, MayFlag, FlagInv, Resting, Locking, Unlocking
<1>6. "sl_got" \in PCs /\ "sl_got" # "off" /\ pc[c] # "off"
  BY <1>1, Zenon DEF PCs
<1> QED  BY <1>2, <1>3, <1>4, <1>5, <1>6, Registers, MoveStep, ZenonT(60)

LEMMA SlGotStep ==
  ASSUME IInv, NEW c \in Cpus, SlGot(c)
  PROVE  OneCpu(c)
<1>1. pc[c] = "sl_got"
  BY Zenon DEF SlGot
<1>2. Moves(c, "sl_push", edi[c], flags[c], iflag[c], callerIf[c], susp[c])
  BY <1>1, ZenonT(60) DEF SlGot, Goto, IInv, TypeOK, Moves
<1>3. GateTypes
  BY <1>1, Registers, ZenonT(60) DEF SlGot, GateTypes, TypeOK, IInv, lockVars, gateVars
<1>4. MayRecord(c, "sl_push", edi[c])
  BY <1>1, Registers, Zenon DEF SlGot, MayRecord, RecordInv, HasLock, Granted, Locking
<1>5. MayFlag(c, "sl_push", flags[c], iflag[c], callerIf[c])
  BY <1>1, Registers, Zenon DEF SlGot, MayFlag, FlagInv, Resting, Locking, Unlocking
<1>6. "sl_push" \in PCs /\ "sl_push" # "off" /\ pc[c] # "off"
  BY <1>1, Zenon DEF PCs
<1> QED  BY <1>2, <1>3, <1>4, <1>5, <1>6, Registers, MoveStep, ZenonT(60)

LEMMA SuPopfdStep ==
  ASSUME IInv, NEW c \in Cpus, SuPopfd(c)
  PROVE  OneCpu(c)
<1>1. pc[c] = "su_popfd"
  BY Zenon DEF SuPopfd
<1>2. Moves(c, "run", NoLock, FALSE, flags[c], callerIf[c], susp[c])
  BY <1>1, ZenonT(60) DEF SuPopfd, Popped, Leave, Goto, IInv, TypeOK, Moves
<1>3. GateTypes
  BY ZenonT(60) DEF SuPopfd, Popped, Leave, Goto, GateTypes, TypeOK, IInv, lockVars, gateVars
<1>4. MayRecord(c, "run", NoLock)
  BY <1>1, Registers, Zenon DEF SuPopfd, MayRecord, RecordInv, HasLock, Granted, Locking
<1>5. MayFlag(c, "run", FALSE, flags[c], callerIf[c])
  BY <1>1, Registers, Zenon DEF SuPopfd, MayFlag, FlagInv, Resting, Locking, Unlocking
<1>6. "run" \in PCs /\ "run" # "off" /\ pc[c] # "off"
  BY <1>1, Zenon DEF PCs
<1> QED  BY <1>2, <1>3, <1>4, <1>5, <1>6, Registers, MoveStep, ZenonT(60)

LEMMA SetInterruptsStep ==
  ASSUME IInv, NEW c \in Cpus, SetInterrupts(c)
  PROVE  OneCpu(c)
<1>1. pc[c] = "run" /\ Count(c) = 0
  BY Zenon DEF SetInterrupts
<1>2. Moves(c, "run", edi[c], flags[c], ~iflag[c], ~iflag[c], susp[c])
  BY <1>1, ZenonT(60) DEF SetInterrupts, IInv, TypeOK, Moves
<1>3. GateTypes
  BY ZenonT(60) DEF SetInterrupts, GateTypes, TypeOK, IInv, lockVars, gateVars
<1>4. MayRecord(c, "run", edi[c])
  BY <1>1, Registers, Zenon DEF SetInterrupts, MayRecord, RecordInv, HasLock, Granted, Locking
<1>5. MayFlag(c, "run", flags[c], ~iflag[c], ~iflag[c])
  BY <1>1, Registers, Zenon DEF SetInterrupts, MayFlag, FlagInv, Resting, Locking, Unlocking
<1>6. "run" \in PCs /\ "run" # "off" /\ pc[c] # "off"
  BY <1>1, Zenon DEF PCs
<1> QED  BY <1>2, <1>3, <1>4, <1>5, <1>6, Registers, MoveStep, ZenonT(60)

LEMMA InterruptStep ==
  ASSUME IInv, NEW c \in Cpus, Interrupt(c)
  PROVE  OneCpu(c)
<1>1. pc[c] # "off" /\ iflag[c]
  BY Zenon DEF Interrupt
<1>2. Moves(c, "run", NoLock, FALSE, FALSE, FALSE, Context(c))
  BY <1>1, ZenonT(60) DEF Interrupt, Leave, Goto, IInv, TypeOK, Moves
<1>3. GateTypes
  BY Zenon DEF Interrupt, GateTypes, TypeOK, IInv, lockVars, gateVars
<1>4. pc[c] \in Resting /\ Count(c) = 0 /\ callerIf[c] = TRUE
  BY <1>1, Registers, Zenon DEF FlagInv
<1>5. MayRecord(c, "run", NoLock)
  BY Zenon DEF MayRecord, HasLock, Granted, Locking
<1>6. MayFlag(c, "run", FALSE, FALSE, FALSE)
  BY <1>1, <1>4, Registers, Zenon DEF MayFlag, Locking, Unlocking
<1>7. Context(c) \in Contexts /\ MaySuspend(Context(c))
  <2>1. Context(c) \in Contexts
    BY <1>1, Registers DEF Context, Contexts, IInv, TypeOK
  <2>2. pc[c] # "run" => edi[c] \in Locks
    BY <1>1, <1>4, Registers, Zenon DEF RecordInv, Resting, HasLock
  <2> QED  BY <1>4, <2>1, <2>2, Zenon DEF Context, MaySuspend
<1>8. "run" \in PCs /\ "run" # "off"
  BY Zenon DEF PCs
<1> QED  BY <1>1, <1>2, <1>3, <1>5, <1>6, <1>7, <1>8, MoveStep, ZenonT(60)

LEMMA InterruptReturnStep ==
  ASSUME IInv, NEW c \in Cpus, InterruptReturn(c)
  PROVE  OneCpu(c)
<1> DEFINE s == susp[c]
<1>1. pc[c] = "run" /\ Count(c) = 0 /\ s # NoContext
  BY Zenon DEF InterruptReturn
<1>2. Moves(c, s.pc, s.edi, s.flags, TRUE, s.callerIf, NoContext)
  BY <1>1, ZenonT(60) DEF InterruptReturn, Moves
<1>3. GateTypes
  BY Zenon DEF InterruptReturn, GateTypes, TypeOK, IInv, lockVars, gateVars
<1>4. s \in Contexts /\ MaySuspend(s) /\ (Count(c) > 0 <=> Count(c) # 0)
  BY <1>1, Registers, Zenon
<1>5. /\ s.pc \in PCs /\ s.edi \in Locks \cup {NoLock} /\ s.flags \in BOOLEAN
      /\ s.pc \in Resting /\ s.callerIf = TRUE /\ (s.pc # "run" => s.edi \in Locks)
  BY <1>1, <1>4, Zenon DEF Contexts, MaySuspend
<1>6. s.pc # "off" /\ s.pc \notin Granted \ {"sl_cli"} /\ s.pc \notin Locking \cup Unlocking
  BY <1>5, Zenon DEF Resting, Granted, Locking, Unlocking
<1>7. MayFlag(c, s.pc, s.flags, TRUE, s.callerIf)
  BY <1>1, <1>4, <1>5, <1>6, Zenon DEF MayFlag
<1>8. NoContext \in Contexts /\ MaySuspend(NoContext)
  BY DEF NoContext, Contexts, PCs, MaySuspend
<1>9. MayRecord(c, s.pc, s.edi)
  <2>1. s.pc \in HasLock => s.edi \in Locks
    BY <1>5, Zenon DEF HasLock, Locking
  <2>2. 0 < MAX_HELD_LOCKS /\ 0 .. Count(c) - 1 = {}
    BY <1>1, LockAssumption
  <2> QED  BY <1>1, <2>1, <2>2, Zenon DEF MayRecord
<1> HIDE DEF s
<1> QED  BY <1>1, <1>2, <1>3, <1>5, <1>6, <1>7, <1>8, <1>9, MoveStep, ZenonT(60)

LEMMA SuReleaseStep ==
  ASSUME IInv, NEW c \in Cpus, SuRelease(c)
  PROVE  OneCpu(c)
<1>1. PICK p \in {"su_free", "su_popfd"} :
        /\ pc[c] \in {"su_owner", "su_free"} /\ pc' = [pc EXCEPT ![c] = p]
        /\ locked' = locked \/ locked' = [locked EXCEPT ![edi[c]] = 0]
        /\ owner' = owner \/ owner' = [owner EXCEPT ![edi[c]] = 0]
  BY Zenon DEF SuRelease, Goto
<1>2. Moves(c, p, edi[c], flags[c], iflag[c], callerIf[c], susp[c])
  BY <1>1, ZenonT(60) DEF SuRelease, IInv, TypeOK, Moves
<1>3. GateTypes
  <2>1. 0 \in Slots
    BY CpuAssumption DEF Slots
  <2>2. locked' \in [Locks -> {0, 1}]
    BY <1>1, ZenonT(60) DEF IInv, TypeOK
  <2>3. owner' \in [Locks -> Slots]
    BY <1>1, <2>1, ZenonT(60) DEF IInv, TypeOK
  <2> QED  BY <2>2, <2>3, Zenon DEF SuRelease, GateTypes, IInv, TypeOK, gateVars
<1>4. pc[c] # "off" /\ pc[c] \in Granted /\ pc[c] \in Unlocking /\ pc[c] \notin Resting
  BY <1>1, Zenon DEF Granted, Unlocking, Resting
<1>5. p \in PCs /\ p # "off" /\ p \in Unlocking /\ p \notin Resting
  BY <1>1, Zenon DEF PCs, Unlocking, Resting
<1>6. MayRecord(c, p, edi[c])
  BY <1>1, <1>4, Registers, Zenon DEF MayRecord, RecordInv, HasLock
<1>7. MayFlag(c, p, flags[c], iflag[c], callerIf[c])
  BY <1>4, <1>5, Registers, Zenon DEF MayFlag, FlagInv
<1> QED  BY <1>2, <1>3, <1>4, <1>5, <1>6, <1>7, Registers, MoveStep, ZenonT(60)

LEMMA ViolationStep ==
  ASSUME IInv, NEW c \in Cpus, Violation(c), pc[c] \in {"sl_check", "su_check"}
  PROVE  OneCpu(c)
<1>1. PICK p \in {"halt", "run"}, on \in {FALSE, iflag[c]} :
        /\ p = "halt" => on = FALSE
        /\ p = "run" => on = iflag[c]
        /\ Moves(c, p, NoLock, FALSE, on, callerIf[c], susp[c])
  <2>1. iflag = [iflag EXCEPT ![c] = iflag[c]]
    BY Zenon DEF IInv, TypeOK
  <2>2. callerIf = [callerIf EXCEPT ![c] = callerIf[c]] /\ susp = [susp EXCEPT ![c] = susp[c]]
    BY Zenon DEF IInv, TypeOK
  <2>3. CASE armed
    BY <2>2, <2>3, ZenonT(60) DEF Violation, Leave, Goto, Moves
  <2>4. CASE ~armed
    BY <2>1, <2>2, <2>4, ZenonT(60) DEF Violation, Leave, Goto, Moves
  <2> QED  BY <2>3, <2>4, Zenon
<1>2. GateTypes
  <2>1. violations' \in Nat
    BY DEF Violation, IInv, TypeOK
  <2> QED  BY <2>1, Zenon DEF Violation, GateTypes, TypeOK, IInv, lockVars
<1>3. pc[c] # "off" /\ pc[c] \in Resting
  BY Zenon DEF Resting
<1>4. p \in PCs /\ p # "off" /\ p \notin HasLock /\ p \notin Granted /\ p \notin Locking \cup Unlocking
  BY <1>1, Zenon DEF PCs, HasLock, Granted, Locking, Unlocking
<1>5. on \in BOOLEAN /\ (p \in Resting => p = "run")
  BY <1>1, <1>3, Registers, Zenon DEF Resting
<1>6. MayRecord(c, p, NoLock)
  BY <1>4, Zenon DEF MayRecord
<1>7. MayFlag(c, p, FALSE, on, callerIf[c])
  <2>1. p = "halt" => ~on
    BY <1>1, Zenon
  <2>2. p = "run" => p \in Resting
    BY Zenon DEF Resting
  <2> QED  BY <1>1, <1>3, <1>4, <1>5, <2>1, <2>2, Registers, Zenon DEF MayFlag, FlagInv
<1> QED  BY <1>1, <1>2, <1>3, <1>4, <1>5, <1>6, <1>7, Registers, MoveStep, ZenonT(60)

-----------------------------------------------------------------------------
(* The steps that change the record of held locks *)

\* A processor that has started has a slot below cpu_slot_next.
LEMMA SlotRange ==
  ASSUME IInv, NEW c \in Cpus, pc[c] # "off"
  PROVE  /\ slot(c) \in Slots /\ slot(c) < slot_next /\ slot(c) # Unclaimed
         /\ Count(c) \in 0 .. MAX_HELD_LOCKS
         /\ RecordInv(c) /\ FlagInv(c) /\ SuspInv(c)
  BY CpuAssumption, ZenonT(120) DEF IInv, TypeOK, SlotInv, CpuInv, Claimed, slot, Count

\* A step of c that writes only its own row leaves the other rows alone.
LEMMA OwnRow ==
  ASSUME IInv, NEW c \in Cpus, pc[c] # "off", UNCHANGED slotVars,
         \A s \in Slots \ {slot(c)} : SameRow(s),
         \A d \in Cpus : pc'[d] = "off" <=> pc[d] = "off"
  PROVE  /\ SlotInv'
         /\ \A d \in Cpus \ {c} : slot(d) # Unclaimed => SameRow(slot(d))
<1>1. slot(c) \in Slots /\ slot(c) < slot_next /\ SlotInv /\ TypeOK
  BY SlotRange, Zenon DEF IInv
<1>2. SlotInv'
  <2>1. slot_next' = slot_next /\ Claimed' = Claimed /\ SlotsDistinct'
    BY <1>1, Zenon DEF SlotInv, SlotsDistinct, Claimed, slotVars, slot
  <2>2. \A r \in Slots : r >= slot_next => held_count'[r] = 0
    <3>1. \A r \in Slots : r >= slot_next => r \in Slots \ {slot(c)}
      BY <1>1, CpuAssumption DEF TypeOK, Slots
    <3> QED  BY <1>1, <3>1, Zenon DEF SlotInv, SameRow
  <2>3. \A d \in Cpus : pc'[d] = "off" <=> slot(d)' = Unclaimed
    BY <1>1, Zenon DEF SlotInv, slotVars, slot
  <2>4. \A d \in Claimed : slot(d)' < slot_next
    BY <1>1, Zenon DEF SlotInv, slotVars, slot
  <2> QED  BY <1>1, <2>1, <2>2, <2>3, <2>4, Zenon DEF SlotInv
<1>3. \A d \in Cpus \ {c} : slot(d) # Unclaimed => slot(d) \in Slots \ {slot(c)}
  BY <1>1, ZenonT(120) DEF SlotInv, SlotsDistinct, TypeOK, slot
<1> QED  BY <1>2, <1>3, Zenon

LEMMA SlPushStep ==
  ASSUME IInv, NEW c \in Cpus, SlPush(c)
  PROVE  OneCpu(c)
<1> DEFINE s == slot(c)
           n == Count(c)
<1>0. TypeOK /\ pc[c] = "sl_push"
  BY Zenon DEF IInv, SlPush
<1>1. /\ s \in Slots /\ s # Unclaimed /\ RecordInv(c) /\ FlagInv(c) /\ SuspInv(c)
      /\ n \in Depths /\ n \in 0 .. MAX_HELD_LOCKS - 1 /\ edi[c] \in Locks
  BY LockAssumption, <1>0, SlotRange, SMTT(60) DEF RecordInv, HasLock, Granted, Locking, Depths
<1>2. /\ slot(c)' = s /\ pc'[c] = "run" /\ Count(c)' = n + 1
      /\ iflag' = iflag /\ callerIf' = callerIf /\ susp' = susp
  BY <1>0, <1>1, ZenonT(120) DEF SlPush, Leave, Goto, TypeOK, slotVars, slot, Count
<1>3. \A i \in Depths : held_lock'[s][i] = IF i = n THEN edi[c] ELSE HeldAt(c, i)
  BY <1>0, <1>1, SMTT(60) DEF SlPush, TypeOK, HeldAt, slot, Count
<1>4. \A i \in Depths : held_flags'[s][i] = IF i = n THEN flags[c] ELSE held_flags[s][i]
  BY <1>0, <1>1, SMTT(60) DEF SlPush, TypeOK, slot, Count
<1>5. TypeOK'
  <2>1. held_count' \in [Slots -> 0 .. MAX_HELD_LOCKS]
    BY LockAssumption, <1>0, <1>1, SMTT(60) DEF SlPush, TypeOK, Count, slot
  <2>2. held_lock' \in [Slots -> [Depths -> Locks \cup {NoLock}]]
    BY <1>0, <1>1, ZenonT(120) DEF SlPush, TypeOK
  <2>3. held_flags' \in [Slots -> [Depths -> BOOLEAN]]
    BY <1>0, <1>1, ZenonT(120) DEF SlPush, TypeOK
  <2> QED  BY <2>1, <2>2, <2>3, <1>0, Zenon DEF SlPush, Leave, Goto, TypeOK, PCs, slotVars, lockVars, gateVars
<1>6. RecordInv(c)'
  <2>1. \A i \in 0 .. n - 1 : i \in Depths /\ held_lock'[s][i] = HeldAt(c, i)
    BY LockAssumption, <1>1, <1>3, SMTT(60) DEF Depths
  <2>2. held_lock'[s][n] = edi[c]
    BY <1>1, <1>3, Zenon
  <2>3. \A i \in 0 .. n - 1 : Rank[HeldAt(c, i)] < Rank[edi[c]]
    BY <1>0, <1>1, Zenon DEF RecordInv, Granted, Locking
  <2>4. \A i \in 0 .. n : held_lock'[s][i] \in Locks
    BY <1>1, <2>1, <2>2, SMTT(60) DEF RecordInv
  <2>5. \A i, j \in 0 .. n : i < j => Rank[held_lock'[s][i]] < Rank[held_lock'[s][j]]
    BY <1>1, <2>1, <2>2, <2>3 DEF RecordInv
  <2> QED  BY <1>1, <1>2, <2>4, <2>5, SMTT(60) DEF RecordInv, HeldAt, HasLock, Granted, Locking
<1>7. FlagInv(c)'
  <2>1. iflag[c] = FALSE
    BY <1>0, <1>1, SMTT(60) DEF FlagInv, Resting, TypeOK
  <2>2. held_flags'[s][0] = callerIf[c]
    BY LockAssumption, <1>0, <1>1, <1>4, SMTT(60) DEF FlagInv, Locking, Depths
  <2>3. \A i \in 1 .. n : held_flags'[s][i] = FALSE
    BY LockAssumption, <1>0, <1>1, <1>4, SMTT(60) DEF FlagInv, Locking, Depths
  <2>4. Count(c)' # 0 /\ pc'[c] \notin Locking \cup Unlocking
    BY <1>1, <1>2, SMTT(60) DEF Locking, Unlocking
  <2>5. \A i \in 1 .. Count(c)' - 1 : held_flags'[slot(c)'][i] = FALSE
    BY <1>1, <1>2, <2>3, SMTT(60)
  <2> QED  BY <1>2, <2>1, <2>2, <2>4, <2>5, ZenonT(60) DEF FlagInv
<1>8. SuspInv(c)'
  BY <1>1, <1>2, Zenon DEF SuspInv
<1>9. SlotInv' /\ \A d \in Cpus \ {c} : slot(d) # Unclaimed => SameRow(slot(d))
  <2>1. \A r \in Slots \ {s} : SameRow(r)
    BY <1>0 DEF SlPush, TypeOK, SameRow
  <2> QED  BY <1>0, <2>1, OwnRow, Zenon DEF SlPush, Leave, Goto, TypeOK
<1>10. \A d \in Cpus \ {c} : Same(d)
  BY <1>0, <1>9, SMTT(60) DEF SlPush, Leave, Goto, TypeOK, slotVars, Same
<1> QED  BY <1>2, <1>5, <1>6, <1>7, <1>8, <1>9, <1>10, Zenon DEF OneCpu, CpuInv

LEMMA SuPopStep ==
  ASSUME IInv, NEW c \in Cpus, SuPop(c)
  PROVE  OneCpu(c)
<1> DEFINE s == slot(c)
           top == Count(c) - 1
<1>0. TypeOK /\ pc[c] = "su_check" /\ Count(c) > 0 /\ HeldAt(c, top) = edi[c]
  BY Zenon DEF IInv, SuPop, Balanced
<1>1. /\ s \in Slots /\ s # Unclaimed /\ RecordInv(c) /\ FlagInv(c) /\ SuspInv(c)
      /\ top \in Depths /\ top \in 0 .. MAX_HELD_LOCKS - 1 /\ edi[c] \in Locks
  BY LockAssumption, <1>0, SlotRange, SMTT(60) DEF RecordInv, HasLock, Depths
<1>2. /\ slot(c)' = s /\ pc'[c] = "su_owner" /\ Count(c)' = top
      /\ iflag' = iflag /\ callerIf' = callerIf /\ susp' = susp /\ edi' = edi
      /\ flags'[c] = held_flags[s][top]
  BY <1>0, <1>1, SMTT(60) DEF SuPop, Goto, TypeOK, slotVars, slot, Count
<1>3. \A i \in 0 .. top - 1 : held_lock'[s][i] = HeldAt(c, i)
  BY <1>0, <1>1, SMTT(60) DEF SuPop, TypeOK, HeldAt, slot, Count, Depths
<1>4. \A i \in 0 .. top - 1 : held_flags'[s][i] = held_flags[s][i]
  <2>1. held_flags' = [held_flags EXCEPT ![s][top] = FALSE]
    BY Zenon DEF SuPop
  <2>2. \A i \in Depths \ {top} : held_flags'[s][i] = held_flags[s][i]
    BY <1>0, <1>1, <2>1 DEF TypeOK
  <2>3. 0 .. top - 1 \subseteq Depths \ {top}
    BY LockAssumption, <1>1, SMTT(60) DEF Depths
  <2> QED  BY <2>2, <2>3, Zenon
<1>5. TypeOK'
  <2>1. held_count' \in [Slots -> 0 .. MAX_HELD_LOCKS]
    <3>1. held_count' = [held_count EXCEPT ![s] = top] /\ top \in 0 .. MAX_HELD_LOCKS
      BY LockAssumption, <1>1 DEF SuPop
    <3> QED  BY <1>0, <3>1, ZenonT(60) DEF TypeOK
  <2>2. held_lock' \in [Slots -> [Depths -> Locks \cup {NoLock}]]
    BY <1>0, <1>1 DEF SuPop, TypeOK
  <2>3. held_flags' \in [Slots -> [Depths -> BOOLEAN]]
    BY <1>0, <1>1, ZenonT(120) DEF SuPop, TypeOK
  <2>4. flags' \in [Cpus -> BOOLEAN]
    BY <1>0, <1>1, SMTT(60) DEF SuPop, TypeOK
  <2> QED  BY <2>1, <2>2, <2>3, <2>4, <1>0, Zenon DEF SuPop, Goto, TypeOK, PCs, slotVars, lockVars, gateVars
<1>6. RecordInv(c)'
  <2>1. \A i \in 0 .. top - 1 : held_lock'[s][i] \in Locks
    BY <1>1, <1>3, SMTT(60) DEF RecordInv
  <2>2. \A i, j \in 0 .. top - 1 : i < j => Rank[held_lock'[s][i]] < Rank[held_lock'[s][j]]
    BY <1>1, <1>3 DEF RecordInv
  <2>3. \A i \in 0 .. top - 1 : Rank[held_lock'[s][i]] < Rank[edi[c]]
    BY <1>0, <1>1, <1>3, SMTT(60) DEF RecordInv
  <2>4. top < MAX_HELD_LOCKS
    BY <1>1, LockAssumption
  <2>5. \A i : HeldAt(c, i)' = held_lock'[s][i]
    BY <1>2, Zenon DEF HeldAt
  <2> HIDE DEF top, s
  <2>6. \A i \in 0 .. Count(c)' - 1 : HeldAt(c, i)' \in Locks
    BY <1>2, <2>1, <2>5, Zenon
  <2>7. \A i, j \in 0 .. Count(c)' - 1 : i < j => Rank[HeldAt(c, i)'] < Rank[HeldAt(c, j)']
    <3> TAKE i, j \in 0 .. Count(c)' - 1
    <3>1. i \in 0 .. top - 1 /\ j \in 0 .. top - 1
      BY <1>2, Zenon
    <3> QED  BY <2>2, <2>5, <3>1, Zenon
  <2>8. edi'[c] \in Locks
    BY <1>1, <1>2, Zenon
  <2>9. /\ Count(c)' < MAX_HELD_LOCKS
        /\ \A i \in 0 .. Count(c)' - 1 : Rank[HeldAt(c, i)'] < Rank[edi'[c]]
    BY <1>2, <2>3, <2>4, <2>5, Zenon
  <2> QED  BY <2>6, <2>7, <2>8, <2>9, Zenon DEF RecordInv
<1>7. FlagInv(c)'
  <2>1. iflag[c] = FALSE
    BY <1>0, <1>1, SMTT(60) DEF FlagInv, TypeOK
  <2>2. top > 0 => held_flags'[s][0] = callerIf[c]
    BY <1>0, <1>1, <1>4, SMTT(60) DEF FlagInv
  <2>3. \A i \in 1 .. top - 1 : held_flags'[s][i] = FALSE
    BY <1>0, <1>1, <1>4, SMTT(60) DEF FlagInv
  <2>4. (top = 0 => flags'[c] = callerIf[c]) /\ (top > 0 => flags'[c] = FALSE)
    BY <1>0, <1>1, <1>2, SMTT(60) DEF FlagInv
  <2> QED  BY <1>1, <1>2, <2>1, <2>2, <2>3, <2>4, ZenonT(120) DEF FlagInv, Resting
<1>8. SuspInv(c)'
  BY <1>1, <1>2, Zenon DEF SuspInv
<1>9. SlotInv' /\ \A d \in Cpus \ {c} : slot(d) # Unclaimed => SameRow(slot(d))
  <2>1. \A r \in Slots \ {s} : SameRow(r)
    BY <1>0 DEF SuPop, TypeOK, SameRow
  <2> QED  BY <1>0, <2>1, OwnRow, ZenonT(60) DEF SuPop, Goto, TypeOK
<1>10. \A d \in Cpus \ {c} : Same(d)
  BY <1>0, <1>9 DEF SuPop, Goto, TypeOK, slotVars, Same
<1> QED  BY <1>2, <1>5, <1>6, <1>7, <1>8, <1>9, <1>10, ZenonT(60) DEF OneCpu, CpuInv

\* An unclaimed processor leaves a slot for itself: the counter is below
\* SMP_MAX_CPUS and the clamp of SlotNumber is not reached.
LEMMA ClaimSlotStep ==
  ASSUME IInv, NEW c \in Cpus, ClaimSlot(c)
  PROVE  OneCpu(c)
<1>0. TypeOK /\ SlotInv /\ CpuInv(c) /\ pc[c] = "off" /\ slot(c) = Unclaimed
  BY Zenon DEF IInv, ClaimSlot, slot
<1>1. /\ IsFiniteSet(Claimed) /\ c \notin Claimed /\ Claimed \subseteq Cpus
      /\ Cardinality(Claimed \cup {c}) = Cardinality(Claimed) + 1
  BY CpuAssumption, <1>0, FS_Subset, FS_AddElement, ZenonT(60) DEF Claimed
<1>2. Cardinality(Claimed \cup {c}) <= Cardinality(Cpus)
  BY CpuAssumption, <1>1, FS_Subset, ZenonT(120)
<1>3. slot_next < SMP_MAX_CPUS /\ slot_next \in Slots /\ SlotNumber(slot_next) = slot_next
  <2>1. Cardinality(Cpus) \in Nat
    BY CpuAssumption, FS_CardinalityType, Zenon
  <2> QED  BY CpuAssumption, <1>0, <1>1, <1>2, <2>1 DEF SlotInv, TypeOK, Slots, SlotNumber
<1>4. /\ slot_by_apic' = [slot_by_apic EXCEPT ![c] = slot_next]
      /\ slot_next' = slot_next + 1 /\ pc' = [pc EXCEPT ![c] = "run"]
      /\ UNCHANGED <<heldVars, iflag, edi, flags, susp, callerIf>>
  BY <1>3, Zenon DEF ClaimSlot, NextSlot
<1>5. TypeOK'
  BY <1>0, <1>3, <1>4 DEF ClaimSlot, TypeOK, PCs, heldVars, lockVars, gateVars
<1>6. Claimed' = Claimed \cup {c} /\ slot_next # Unclaimed
  <2>1. slot_next # Unclaimed
    BY CpuAssumption, <1>3, <1>0, SMTT(60) DEF Unclaimed, TypeOK
  <2>2. \A d \in Cpus : slot(d)' = IF d = c THEN slot_next ELSE slot(d)
    BY <1>0, <1>4, ZenonT(120) DEF TypeOK, slot
  <2> QED  BY <2>1, <2>2, ZenonT(120) DEF Claimed
<1>7. \A d \in Cpus : slot(d)' = IF d = c THEN slot_next ELSE slot(d)
  BY <1>0, <1>4, Zenon DEF TypeOK, slot
<1>8. SlotInv'
  <2>1. slot_next' = Cardinality(Claimed')
    BY <1>0, <1>1, <1>4, <1>6, Zenon DEF SlotInv
  <2>2. \A d \in Claimed' : slot(d)' < slot_next'
    <3>1. \A d \in Claimed : slot(d) \in Slots /\ slot(d) < slot_next /\ d \in Cpus
      BY <1>0, ZenonT(120) DEF SlotInv, TypeOK, Claimed, slot
    <3>2. \A d \in Claimed : slot(d)' < slot_next'
      <4>1. \A d \in Claimed : slot(d)' = slot(d) /\ slot(d) \in Int
        BY <1>1, <1>7, <3>1, SMTT(60) DEF Slots
      <4>2. slot_next \in Int /\ slot_next' = slot_next + 1
        BY <1>0, <1>4, SMTT(60) DEF TypeOK
      <4> QED  BY <3>1, <4>1, <4>2, SMTT(60)
    <3>3. slot(c)' < slot_next'
      BY <1>0, <1>4, <1>7, SMTT(60) DEF TypeOK
    <3> QED  BY <1>6, <3>2, <3>3, Zenon
  <2>3. \A d \in Cpus : pc'[d] = "off" <=> slot(d)' = Unclaimed
    BY <1>0, <1>4, <1>6, <1>7, ZenonT(120) DEF SlotInv, TypeOK
  <2>4. SlotsDistinct'
    <3>1. \A d \in Cpus : slot(d) # slot_next
      BY <1>0, <1>6, SMTT(60) DEF SlotInv, Claimed, TypeOK
    <3> QED  BY <1>0, <1>7, <3>1, SMTT(60) DEF SlotInv, SlotsDistinct
  <2>5. \A s \in Slots : s >= slot_next' => held_count'[s] = 0
    BY <1>0, <1>4 DEF SlotInv, TypeOK, heldVars, Slots
  <2> QED  BY <2>1, <2>2, <2>3, <2>4, <2>5, Zenon DEF SlotInv
<1>9. CpuInv(c)'
  <2>1. pc'[c] = "run" /\ Count(c)' = 0
    BY <1>0, <1>3, <1>4, <1>7, SMTT(60) DEF SlotInv, TypeOK, Count, heldVars
  <2>2. iflag'[c] = FALSE /\ callerIf'[c] = FALSE /\ susp'[c] = NoContext
    BY <1>0, <1>4, ZenonT(60) DEF CpuInv, OffInv
  <2>3. RecordInv(c)'
    BY <2>1 DEF RecordInv, HasLock, Granted, Locking
  <2>4. FlagInv(c)'
    <3>1. Count(c)' > 0 <=> FALSE
      BY <2>1, SMTT(60)
    <3>2. \A i \in 1 .. Count(c)' - 1 : held_flags'[slot(c)'][i] = FALSE
      BY <2>1
    <3>3. pc'[c] \notin Locking \cup Unlocking
      BY <2>1, Zenon DEF Locking, Unlocking
    <3> QED  BY <2>1, <2>2, <3>1, <3>2, <3>3, ZenonT(60) DEF FlagInv
  <2>5. SuspInv(c)'
    BY <2>2, Zenon DEF SuspInv
  <2> QED  BY <2>1, <2>3, <2>4, <2>5, Zenon DEF CpuInv
<1>10. \A d \in Cpus \ {c} : Same(d)
  BY <1>0, <1>4, ZenonT(120) DEF TypeOK, heldVars, Same, SameRow
<1> QED  BY <1>5, <1>8, <1>9, <1>10, Zenon DEF OneCpu


-----------------------------------------------------------------------------
(* Who holds what after a step of c *)

\* Nothing changes hands, c takes the lock it wants, or c frees the one it is
\* letting go of.
Kept == /\ UNCHANGED locked
        /\ \A d \in Cpus, m \in Locks : Holds(d, m)' <=> Holds(d, m)
Taken(c) ==
  /\ edi[c] \in Locks /\ locked[edi[c]] = 0 /\ locked' = [locked EXCEPT ![edi[c]] = 1]
  /\ \A d \in Cpus, m \in Locks :
       Holds(d, m)' <=> Holds(d, m) \/ (d = c /\ m = edi[c])
Freed(c) ==
  /\ edi[c] \in Locks /\ Holds(c, edi[c]) /\ locked' = [locked EXCEPT ![edi[c]] = 0]
  /\ \A d \in Cpus, m \in Locks :
       Holds(d, m)' <=> Holds(d, m) /\ ~(d = c /\ m = edi[c])

\* A step that neither records nor drops a lock changes what c holds only through
\* where c is.
LEMMA HeldByPlace ==
  ASSUME NEW c \in Cpus, UNCHANGED <<slotVars, heldVars>>, NEW m,
         pc[c] # "off", pc'[c] # "off"
  PROVE  Recorded(c, m)' <=> Recorded(c, m)
  BY Zenon DEF Recorded, Count, HeldAt, slot, slotVars, heldVars

\* Outside the four places where a lock is in flight, c holds what it recorded.
LEMMA KeptByPlace ==
  ASSUME SlotInv, NEW c \in Cpus, UNCHANGED <<slotVars, heldVars, locked>>,
         pc[c] # "off", pc'[c] # "off", \A d \in Cpus \ {c} : Same(d),
         \A m \in Locks : InFlight(c, m)' <=> InFlight(c, m)
  PROVE  Kept
<1>1. \A m \in Locks : Holds(c, m)' <=> Holds(c, m)
  BY HeldByPlace, Zenon DEF Holds
<1> QED  BY <1>1, FrameHolds, Zenon DEF Kept

LEMMA SlTryHolds ==
  ASSUME IInv, NEW c \in Cpus, SlTry(c), \A d \in Cpus \ {c} : Same(d)
  PROVE  Taken(c)
<1>1. /\ pc[c] = "sl_try" /\ pc'[c] = "sl_got" /\ edi[c] \in Locks /\ edi'[c] = edi[c]
      /\ SlotInv /\ locked[edi[c]] = 0
  BY SlotRange, Zenon DEF IInv, SlTry, IsFree, Goto, TypeOK, RecordInv, HasLock, Locking
<1>2. \A m \in Locks : Holds(c, m)' <=> Holds(c, m) \/ m = edi[c]
  <2>1. \A m \in Locks : Recorded(c, m)' <=> Recorded(c, m)
    BY <1>1, HeldByPlace, Zenon DEF SlTry
  <2> QED  BY <1>1, <2>1, Zenon DEF Holds, InFlight
<1> QED  BY <1>1, <1>2, FrameHolds, Zenon DEF Taken, SlTry

LEMMA SuReleaseHolds ==
  ASSUME IInv, NEW c \in Cpus, SuRelease(c), \A d \in Cpus \ {c} : Same(d)
  PROVE  Kept \/ Freed(c)
<1>1. SlotInv /\ TypeOK /\ UNCHANGED <<slotVars, heldVars>> /\ edi' = edi
  BY Zenon DEF IInv, SuRelease
<1>2. CASE pc[c] = "su_owner"
  <2>1. pc'[c] = "su_free" /\ UNCHANGED locked
    BY <1>1, <1>2, Zenon DEF SuRelease, Goto, TypeOK
  <2> QED  BY <1>1, <1>2, <2>1, KeptByPlace, Zenon DEF InFlight
<1>3. CASE pc[c] = "su_free"
  <2>1. /\ pc'[c] = "su_popfd" /\ locked' = [locked EXCEPT ![edi[c]] = 0]
        /\ edi[c] \in Locks /\ RecordInv(c) /\ Count(c) \in 0 .. MAX_HELD_LOCKS
    BY <1>1, <1>3, SlotRange, Zenon DEF SuRelease, Goto, TypeOK, RecordInv, HasLock
  <2>2. ~Recorded(c, edi[c])
    BY <1>3, <2>1, LockAssumption DEF Recorded, RecordInv, Granted
  <2>3. \A m \in Locks : Recorded(c, m)' <=> Recorded(c, m)
    BY <1>1, <1>3, <2>1, HeldByPlace, Zenon
  <2>4. \A m \in Locks : Holds(c, m)' <=> Holds(c, m) /\ m # edi[c]
    BY <1>3, <2>1, <2>2, <2>3, Zenon DEF Holds, InFlight
  <2>5. Holds(c, edi[c])
    BY <1>3, Zenon DEF Holds, InFlight
  <2> QED  BY <1>1, <2>1, <2>4, <2>5, FrameHolds, Zenon DEF Freed
<1> QED  BY <1>2, <1>3, Zenon DEF SuRelease

\* Recording the lock in flight, or taking it off the record, changes no holder.
LEMMA SlPushHolds ==
  ASSUME IInv, NEW c \in Cpus, SlPush(c), \A d \in Cpus \ {c} : Same(d)
  PROVE  Kept
<1> DEFINE s == slot(c)
           n == Count(c)
<1>1. /\ pc[c] = "sl_push" /\ TypeOK /\ SlotInv /\ s \in Slots /\ n \in Nat
      /\ n \in Depths /\ n + 1 <= MAX_HELD_LOCKS
  BY SlotRange, LockAssumption DEF IInv, SlPush, RecordInv, Granted, Locking, Depths
<1>2. pc'[c] = "run" /\ slot(c)' = s /\ Count(c)' = n + 1 /\ UNCHANGED locked
  BY <1>1, Zenon DEF SlPush, Leave, Goto, TypeOK, slotVars, lockVars, slot, Count
<1>3. \A i \in 0 .. n : held_lock'[s][i] = IF i = n THEN edi[c] ELSE HeldAt(c, i)
  BY <1>1, LockAssumption DEF SlPush, TypeOK, HeldAt, slot, Count, Depths
<1>4. \A m \in Locks : Recorded(c, m)' <=> Recorded(c, m) \/ m = edi[c]
  <2> TAKE m \in Locks
  <2>1. Recorded(c, m)' <=> \E i \in 0 .. n : held_lock'[s][i] = m
    BY <1>1, <1>2 DEF Recorded, HeldAt
  <2>2. Recorded(c, m) <=> \E i \in 0 .. n - 1 : HeldAt(c, i) = m
    BY <1>1, Zenon DEF Recorded
  <2>3. (\E i \in 0 .. n : held_lock'[s][i] = m) <=> (\E i \in 0 .. n - 1 : HeldAt(c, i) = m) \/ m = edi[c]
    BY <1>1, <1>3
  <2> QED  BY <2>1, <2>2, <2>3, Zenon
<1>5. \A m \in Locks : Holds(c, m)' <=> Holds(c, m)
  BY <1>1, <1>2, <1>4, Zenon DEF Holds, InFlight
<1> QED  BY <1>1, <1>2, <1>5, FrameHolds, Zenon DEF Kept

LEMMA SuPopHolds ==
  ASSUME IInv, NEW c \in Cpus, SuPop(c), \A d \in Cpus \ {c} : Same(d)
  PROVE  Kept
<1> DEFINE s == slot(c)
           top == Count(c) - 1
<1>1. /\ pc[c] = "su_check" /\ TypeOK /\ SlotInv /\ s \in Slots
      /\ top \in Nat /\ Count(c) \in 0 .. MAX_HELD_LOCKS /\ HeldAt(c, top) = edi[c]
  BY SlotRange, LockAssumption DEF IInv, SuPop, Balanced
<1>2. pc'[c] = "su_owner" /\ slot(c)' = s /\ Count(c)' = top /\ edi' = edi /\ UNCHANGED locked
  BY <1>1, Zenon DEF SuPop, Goto, TypeOK, slotVars, lockVars, slot, Count
<1>3. \A i \in 0 .. top - 1 : held_lock'[s][i] = HeldAt(c, i)
  BY <1>1, LockAssumption DEF SuPop, TypeOK, HeldAt, slot, Count, Depths
<1>4. \A m \in Locks : Recorded(c, m) <=> Recorded(c, m)' \/ m = edi[c]
  <2> TAKE m \in Locks
  <2>1. Recorded(c, m)' <=> \E i \in 0 .. top - 1 : held_lock'[s][i] = m
    BY <1>1, <1>2, Zenon DEF Recorded, HeldAt
  <2>2. Recorded(c, m) <=> \E i \in 0 .. top : HeldAt(c, i) = m
    BY <1>1, Zenon DEF Recorded
  <2>3. (\E i \in 0 .. top : HeldAt(c, i) = m) <=> (\E i \in 0 .. top - 1 : held_lock'[s][i] = m) \/ m = edi[c]
    BY <1>1, <1>3
  <2> QED  BY <2>1, <2>2, <2>3, Zenon
<1>5. \A m \in Locks : Holds(c, m)' <=> Holds(c, m)
  BY <1>1, <1>2, <1>4, Zenon DEF Holds, InFlight
<1> QED  BY <1>1, <1>2, <1>5, FrameHolds, Zenon DEF Kept

\* A step that leaves the record alone and neither enters nor leaves one of the
\* places where a lock is in flight changes no holder.
Calm == Resting \cup {"sl_try", "su_popfd", "halt"}

LEMMA CalmHolds ==
  ASSUME IInv, NEW c \in Cpus, UNCHANGED <<slotVars, heldVars, locked>>,
         pc[c] \in Calm, pc'[c] \in Calm, \A d \in Cpus \ {c} : Same(d)
  PROVE  Kept
<1>1. SlotInv /\ pc[c] # "off" /\ pc'[c] # "off"
  BY Zenon DEF IInv, Calm, Resting
<1>2. \A m \in Locks : InFlight(c, m)' <=> InFlight(c, m)
  BY Zenon DEF InFlight, Calm, Resting
<1> QED  BY <1>1, <1>2, KeptByPlace, Zenon

\* A processor that claims its slot holds nothing yet.
LEMMA ClaimSlotHolds ==
  ASSUME IInv, NEW c \in Cpus, ClaimSlot(c), OneCpu(c)
  PROVE  Kept
<1>1. SlotInv /\ TypeOK /\ TypeOK' /\ SlotInv' /\ pc[c] = "off" /\ pc'[c] = "run" /\ UNCHANGED <<locked, heldVars>>
  BY Zenon DEF IInv, OneCpu, ClaimSlot, TypeOK, lockVars
<1>2. Count(c)' = 0
  <2>1. slot_by_apic[c] = Unclaimed /\ slot_next' = slot_next + 1 /\ c \in Claimed'
    BY <1>1, Zenon DEF ClaimSlot, NextSlot, SlotInv, Claimed
  <2>2. slot(c)' \in Slots /\ slot(c)' = SlotNumber(slot_next) /\ slot(c)' < slot_next + 1
    BY <1>1, <2>1, ZenonT(60) DEF ClaimSlot, TypeOK, SlotInv, Claimed, slot
  <2>3. slot(c)' >= slot_next
    <3>1. Claimed' = Claimed \cup {c} /\ c \notin Claimed /\ IsFiniteSet(Claimed)
      <4>1. \A d \in Cpus \ {c} : slot(d)' = slot(d)
        BY <1>1, Zenon DEF ClaimSlot, TypeOK, slot
      <4>2. c \notin Claimed /\ Claimed \subseteq Cpus /\ c \in Claimed'
        BY <2>1, Zenon DEF Claimed, slot
      <4>3. Claimed' = Claimed \cup {c}
        BY <4>1, <4>2, Zenon DEF Claimed
      <4> QED  BY <4>2, <4>3, CpuAssumption, FS_Subset, Zenon
    <3>2. Cardinality(Claimed') <= Cardinality(Cpus) /\ Cardinality(Cpus) \in Nat
      BY CpuAssumption, FS_Subset, FS_CardinalityType, Zenon DEF Claimed
    <3> QED  BY <1>1, <2>1, <2>2, <3>2, CpuAssumption DEF SlotNumber, SlotInv, TypeOK
  <2> QED  BY <1>1, <2>2, <2>3, Zenon DEF SlotInv, Count, heldVars
<1>3. \A m \in Locks : ~Holds(c, m) /\ ~Holds(c, m)'
  BY <1>1, <1>2 DEF Holds, Recorded, InFlight
<1> QED  BY <1>1, <1>3, FrameHolds, Zenon DEF Kept, OneCpu

-----------------------------------------------------------------------------
(* The invariant *)

LEMMA Preserved ==
  ASSUME IInv, NEW c \in Cpus, OneCpu(c), Kept \/ Taken(c) \/ Freed(c)
  PROVE  IInv'
<1>1. \A d \in Cpus : CpuInv(d)'
  BY FrameCpu, Zenon DEF OneCpu, IInv
<1>2. \A d \in Cpus, l \in Locks : Holds(d, l)' => locked'[l] = 1
  BY DEF IInv, LockInv, MutualExclusion, TypeOK, Kept, Taken, Freed
<1>3. MutualExclusion'
  <2> SUFFICES ASSUME NEW d \in Cpus, NEW e \in Cpus, NEW l \in Locks,
                      Holds(d, l)', Holds(e, l)'
               PROVE  d = e
    BY Zenon DEF MutualExclusion
  <2> QED  BY DEF IInv, LockInv, MutualExclusion, TypeOK, Kept, Taken, Freed
<1> QED  BY <1>1, <1>2, <1>3, Zenon DEF IInv, OneCpu, LockInv

\* Every step of the callers, the lock code and the interrupts.
LEMMA StepCases ==
  ASSUME IInv, Next
  PROVE  IInv' /\ (Kept \/ \E c \in Cpus : Taken(c) \/ Freed(c))
<1>1. ASSUME NEW c \in Cpus, OneCpu(c), Kept \/ Taken(c) \/ Freed(c)
      PROVE  IInv' /\ (Kept \/ \E d \in Cpus : Taken(d) \/ Freed(d))
  BY <1>1, Preserved, Zenon
<1>2. ASSUME NEW c \in Cpus, ClaimSlot(c)
      PROVE  IInv' /\ (Kept \/ \E d \in Cpus : Taken(d) \/ Freed(d))
  BY <1>1, <1>2, ClaimSlotStep, ClaimSlotHolds, Zenon
<1>3. ASSUME NEW c \in Cpus, SetInterrupts(c) \/ Interrupt(c) \/ InterruptReturn(c)
      PROVE  IInv' /\ (Kept \/ \E d \in Cpus : Taken(d) \/ Freed(d))
  <2>1. OneCpu(c)
    BY <1>3, SetInterruptsStep, InterruptStep, InterruptReturnStep, Zenon
  <2>2. pc[c] \in Calm /\ pc'[c] \in Calm
    BY <1>3, SlotRange, ZenonT(60) DEF SetInterrupts, Interrupt, InterruptReturn, Leave, Goto, IInv, TypeOK, FlagInv, SuspInv, Calm, Resting
  <2>3. UNCHANGED <<slotVars, heldVars, locked>>
    BY <1>3, Zenon DEF SetInterrupts, Interrupt, InterruptReturn, lockVars
  <2> QED  BY <1>1, <2>1, <2>2, <2>3, CalmHolds, Zenon DEF OneCpu
<1>4. ASSUME NEW c \in Cpus, NEW l \in Locks, CallLock(c, l) \/ CallUnlock(c, l)
      PROVE  IInv' /\ (Kept \/ \E d \in Cpus : Taken(d) \/ Freed(d))
  <2>1. OneCpu(c)
    BY <1>4, CallLockStep, CallUnlockStep, Zenon
  <2>2. pc[c] \in Calm /\ pc'[c] \in Calm
    BY <1>4, Zenon DEF CallLock, CallUnlock, Goto, IInv, TypeOK, Calm, Resting
  <2>3. UNCHANGED <<slotVars, heldVars, locked>>
    BY <1>4, ZenonT(120) DEF CallLock, CallUnlock, lockVars
  <2> QED  BY <1>1, <2>1, <2>2, <2>3, CalmHolds, Zenon DEF OneCpu
<1>5. ASSUME NEW c \in Cpus, SlCheckPass(c) \/ SlCli(c) \/ SuPopfd(c)
      PROVE  IInv' /\ (Kept \/ \E d \in Cpus : Taken(d) \/ Freed(d))
  <2>1. OneCpu(c)
    BY <1>5, SlCheckPassStep, SlCliStep, SuPopfdStep, Zenon
  <2>2. pc[c] \in Calm /\ pc'[c] \in Calm
    BY <1>5, ZenonT(120) DEF SlCheckPass, SlCli, SuPopfd, Leave, Goto, IInv, TypeOK, Calm, Resting
  <2>3. UNCHANGED <<slotVars, heldVars, locked>>
    BY <1>5, Zenon DEF SlCheckPass, SlCli, SuPopfd, lockVars
  <2> QED  BY <1>1, <2>1, <2>2, <2>3, CalmHolds, Zenon DEF OneCpu
<1>6. ASSUME NEW c \in Cpus, SlRefuse(c) \/ SuImbalance(c)
      PROVE  IInv' /\ (Kept \/ \E d \in Cpus : Taken(d) \/ Freed(d))
  <2>1. Violation(c) /\ pc[c] \in {"sl_check", "su_check"}
    BY <1>6, Zenon DEF SlRefuse, SuImbalance
  <2>2. OneCpu(c)
    BY <2>1, ViolationStep, Zenon
  <2>3. pc[c] \in Calm /\ pc'[c] \in Calm
    BY <2>1, ZenonT(120) DEF Violation, Leave, Goto, IInv, TypeOK, Calm, Resting
  <2>4. UNCHANGED <<slotVars, heldVars, locked>>
    BY <2>1, Zenon DEF Violation, lockVars
  <2> QED  BY <1>1, <2>2, <2>3, <2>4, CalmHolds, Zenon DEF OneCpu
<1>7. ASSUME NEW c \in Cpus, SlGot(c)
      PROVE  IInv' /\ (Kept \/ \E d \in Cpus : Taken(d) \/ Freed(d))
  <2>1. OneCpu(c) /\ SlotInv
    BY <1>7, SlGotStep, Zenon DEF IInv
  <2>2. pc[c] = "sl_got" /\ pc'[c] = "sl_push" /\ edi' = edi /\ UNCHANGED <<slotVars, heldVars, locked>>
    BY <1>7, Zenon DEF SlGot, Goto, IInv, TypeOK
  <2>3. Kept
    BY <2>1, <2>2, KeptByPlace, Zenon DEF InFlight, OneCpu
  <2> QED  BY <1>1, <2>1, <2>3, Zenon
<1>8. ASSUME NEW c \in Cpus, SlTry(c) \/ SlPush(c) \/ SuPop(c) \/ SuRelease(c)
      PROVE  IInv' /\ (Kept \/ \E d \in Cpus : Taken(d) \/ Freed(d))
  <2>1. OneCpu(c)
    BY <1>8, SlTryStep, SlPushStep, SuPopStep, SuReleaseStep, Zenon
  <2>2. Kept \/ Taken(c) \/ Freed(c)
    BY <1>8, <2>1, SlTryHolds, SlPushHolds, SuPopHolds, SuReleaseHolds, Zenon DEF OneCpu
  <2> QED  BY <1>1, <2>1, <2>2, Zenon
<1>9. ASSUME SelftestBegin \/ SelftestEnd
      PROVE  IInv' /\ (Kept \/ \E d \in Cpus : Taken(d) \/ Freed(d))
  <2>1. /\ UNCHANGED <<slotVars, lockVars, heldVars, ctxVars>>
        /\ armed' \in BOOLEAN /\ violations' \in Nat
    <3>1. violations \in Nat
      BY Zenon DEF IInv, TypeOK
    <3>2. CASE SelftestBegin  BY <3>1, <3>2, ZenonT(60) DEF SelftestBegin
    <3>3. CASE SelftestEnd
      <4>1. /\ UNCHANGED <<slotVars, lockVars, heldVars, ctxVars>>
            /\ armed' = TRUE
            /\ violations' = 0 \/ violations' = violations
        BY <3>3, Zenon DEF SelftestEnd
      <4>2. violations' \in Nat
        <5>1. CASE violations' = 0  BY <5>1, Zenon
        <5>2. CASE violations' = violations  BY <3>1, <5>2, Zenon
        <5> QED  BY <4>1, <5>1, <5>2, Zenon
      <4> QED  BY <4>1, <4>2, Zenon
    <3> QED  BY <1>9, <3>2, <3>3, Zenon
  <2>2. \A d \in Cpus : Same(d)
    BY <2>1, Zenon DEF Same, SameRow, slotVars, heldVars, ctxVars
  <2>3. TypeOK' /\ SlotInv'
    BY <2>1, SameSlots, Zenon DEF IInv, TypeOK, slotVars, lockVars, heldVars, ctxVars
  <2>4. OneCpu(Bsp)
    BY <2>2, <2>3, CpuAssumption, FrameCpu, Zenon DEF OneCpu, IInv
  <2>5. Kept
    BY <2>1, <2>2, FrameHolds, Zenon DEF Kept, IInv, lockVars
  <2> QED  BY <1>1, <2>4, <2>5, CpuAssumption, Zenon
<1> QED  BY <1>2, <1>3, <1>4, <1>5, <1>6, <1>7, <1>8, <1>9, ZenonT(60) DEF Next, Step

LEMMA InitInv ==
  ASSUME Init
  PROVE  IInv
<1> USE CpuAssumption, LockAssumption
<1>1. TypeOK
  BY DEF Init, FirstFree, TypeOK, Slots, Unclaimed, Depths, PCs, NoContext
<1>2. Claimed = {Bsp} /\ SlotInv
  <2>1. 0 # Unclaimed
    BY DEF Unclaimed
  <2>2. Claimed = {Bsp}
    BY <2>1, ZenonT(120) DEF Init, Claimed, slot
  <2>3. Cardinality(Claimed) = 1
    BY <2>2, FS_Singleton, ZenonT(60)
  <2> QED  BY <2>1, <2>2, <2>3 DEF Init, FirstFree, SlotInv, SlotsDistinct, slot
<1>3. \A c \in Cpus : pc[c] # "off" => Count(c) = 0 /\ pc[c] = "run"
  <2>1. 0 \in Slots /\ slot(Bsp) = 0
    BY DEF Init, Slots, slot
  <2> QED  BY <2>1, Zenon DEF Init, Count
<1>4. \A c \in Cpus : CpuInv(c)
  <2> TAKE c \in Cpus
  <2>1. iflag[c] = FALSE /\ callerIf[c] = FALSE /\ susp[c] = NoContext
    BY Zenon DEF Init
  <2>2. pc[c] = "off" => OffInv(c)
    BY <2>1, Zenon DEF OffInv
  <2>3. pc[c] # "off" => RecordInv(c)
    BY <1>3 DEF RecordInv, HasLock, Granted, Locking
  <2>4. ASSUME pc[c] # "off"  PROVE FlagInv(c)
    <3>1. Count(c) = 0 /\ pc[c] = "run" /\ (Count(c) > 0 <=> FALSE)
      BY <1>3, <2>4
    <3>2. \A i \in 1 .. Count(c) - 1 : held_flags[slot(c)][i] = FALSE
      BY <3>1
    <3>3. pc[c] \notin Locking \cup Unlocking
      BY <3>1, Zenon DEF Locking, Unlocking
    <3> QED  BY <2>1, <3>1, <3>2, <3>3, ZenonT(60) DEF FlagInv
  <2>5. SuspInv(c)
    BY <2>1, Zenon DEF SuspInv
  <2> QED  BY <2>2, <2>3, <2>4, <2>5, Zenon DEF CpuInv
<1>5. \A c \in Cpus, l \in Locks : ~Holds(c, l)
  BY <1>3 DEF Init, Holds, Recorded, InFlight
<1> QED  BY <1>1, <1>2, <1>4, <1>5, Zenon DEF IInv, LockInv, MutualExclusion

LEMMA StutterInv ==
  ASSUME IInv, UNCHANGED vars
  PROVE  IInv' /\ Kept
<1>1. UNCHANGED <<slotVars, lockVars, heldVars, ctxVars, gateVars>>
  BY Zenon DEF vars
<1>2. \A d \in Cpus : Same(d)
  BY <1>1, Zenon DEF Same, SameRow, slotVars, heldVars, ctxVars
<1>3. TypeOK' /\ SlotInv'
  BY <1>1, SameSlots, Zenon DEF IInv, TypeOK, slotVars, lockVars, heldVars, ctxVars, gateVars
<1>4. OneCpu(Bsp)
  BY <1>2, <1>3, CpuAssumption, FrameCpu, Zenon DEF OneCpu, IInv
<1>5. Kept
  BY <1>1, <1>2, FrameHolds, Zenon DEF Kept, IInv, lockVars
<1> QED  BY <1>4, <1>5, CpuAssumption, Preserved, Zenon

\* The inductive invariant holds in every reachable state, whatever the callers
\* of spin_lock and spin_unlock do.
THEOREM Invariance == Spec => []IInv
<1>1. Init => IInv
  BY InitInv, Zenon
<1>2. IInv /\ [Next]_vars => IInv'
  BY StepCases, StutterInv, Zenon
<1> QED  BY <1>1, <1>2, PTL DEF Spec

-----------------------------------------------------------------------------
(* The theorems *)

\* The variables of lock.inc keep their types: in particular the depth of the
\* held record never passes MAX_HELD_LOCKS.
THEOREM TypeCorrect == Spec => []TypeOK
<1>1. IInv => TypeOK
  BY Zenon DEF IInv
<1> QED  BY <1>1, Invariance, PTL

\* However many processors race for cpu_slot_next, no two have the same slot.
THEOREM NoSharedSlot == Spec => []SlotsDistinct
<1>1. IInv => SlotsDistinct
  BY Zenon DEF IInv, SlotInv
<1> QED  BY <1>1, Invariance, PTL

\* A lock of spin_lock is held by at most one processor.
THEOREM OneHolder == Spec => []MutualExclusion
<1>1. IInv => MutualExclusion
  BY Zenon DEF IInv, LockInv
<1> QED  BY <1>1, Invariance, PTL

\* The rank gate keeps the held record of every processor in increasing order.
THEOREM RanksIncrease == Spec => []HeldRanksIncrease
<1>1. IInv => HeldRanksIncrease
  BY Zenon DEF IInv, CpuInv, RecordInv, HeldRanksIncrease
<1> QED  BY <1>1, Invariance, PTL

\* No processor holds or spins on a lock with interrupts on.
THEOREM QuietWhileHolding == Spec => []InterruptsOffWhileHolding
<1>1. IInv => InterruptsOffWhileHolding
  BY Zenon DEF IInv, CpuInv, FlagInv, Resting, InterruptsOffWhileHolding
<1> QED  BY <1>1, Invariance, PTL

\* The last release gives the caller its own interrupt flag back.
THEOREM FlagsComeBack == Spec => []InterruptsRestored
<1>1. IInv => InterruptsRestored
  BY Zenon DEF IInv, CpuInv, FlagInv, Resting, InterruptsRestored
<1> QED  BY <1>1, Invariance, PTL

\* Among the processors of a set one spins on a lock of greatest rank.
LEMMA GreatestRank ==
  ASSUME NEW S, S # {}, NEW r, NEW N \in Nat,
         \A c \in S : r[c] \in Nat /\ r[c] <= N
  PROVE  \E c \in S : \A d \in S : r[d] <= r[c]
<1> DEFINE T == {N - r[c] : c \in S}
<1>1. T \subseteq Nat /\ T # {}
  <2>1. \A c \in S : N - r[c] \in Nat
    OBVIOUS
  <2> QED  BY <2>1, Zenon
<1>2. PICK x \in T : \A y \in T : ~(<<y, x>> \in OpToRel(<, Nat))
  <2> HIDE DEF T
  <2> QED  BY <1>1, NatLessThanWellFounded, WFMin, ZenonT(60)
<1>3. \A y \in T : ~(y < x)
  BY <1>1, <1>2, ZenonT(60) DEF OpToRel
<1>4. PICK c \in S : x = N - r[c]
  BY <1>2, ZenonT(60)
<1>5. \A d \in S : ~(N - r[d] < x)
  BY <1>3, Zenon
<1> QED  BY <1>4, <1>5

\* Because ranks increase along every wait, no set of processors waits in a ring.
THEOREM NoDeadlock == Spec => []NoWaitCycle
<1>1. IInv => NoWaitCycle
  <2> SUFFICES ASSUME IInv, NEW S \in (SUBSET Cpus) \ {{}}
               PROVE  \E c \in S : \A d \in S : ~WaitsFor(c, d)
    BY Zenon DEF NoWaitCycle
  <2>1. CASE \E c \in S : pc[c] # "sl_try"
    BY <2>1, Zenon DEF WaitsFor
  <2>2. CASE \A c \in S : pc[c] = "sl_try"
    <3>0. S # {} /\ S \subseteq Cpus
      BY Zenon
    <3>1. \A c \in S : edi[c] \in Locks /\ RecordInv(c)
      BY <2>2, SlotRange, Zenon DEF RecordInv, HasLock, Locking
    <3> DEFINE r == [c \in S |-> Rank[edi[c]]]
    <3>2. MaxRank \in Nat /\ \A c \in S : r[c] \in Nat /\ r[c] <= MaxRank
      <4>1. MaxRank \in Nat
        BY DEF MaxRank
      <4> QED  BY <3>1, <4>1, LockAssumption
    <3>3. PICK c \in S : \A d \in S : r[d] <= r[c]
      <4> HIDE DEF r
      <4> QED  BY <3>2, <3>0, GreatestRank, Zenon
    <3>4. ASSUME NEW d \in S, WaitsFor(c, d)  PROVE FALSE
      <4>1. Recorded(d, edi[c])
        BY <2>2, <3>4, Zenon DEF WaitsFor, Holds, InFlight
      <4>2. Rank[edi[c]] < Rank[edi[d]]
        BY <2>2, <3>1, <4>1, Zenon DEF Recorded, RecordInv, Granted, Locking
      <4>3. Rank[edi[d]] <= Rank[edi[c]] /\ Rank[edi[d]] \in Nat /\ Rank[edi[c]] \in Nat
        BY <3>2, <3>3, Zenon
      <4> QED  BY <4>2, <4>3
    <3> QED  BY <3>4, Zenon
  <2> QED  BY <2>1, <2>2, Zenon
<1> QED  BY <1>1, Invariance, PTL

-----------------------------------------------------------------------------
(* A correct release is never reported *)

\* LK_OWNER names the processor whose record the lock is in.
OwnerInv ==
  /\ \A c \in Cpus, l \in Locks : Recorded(c, l) => owner[l] = slot(c)
  /\ \A c \in Cpus : pc[c] = "sl_push" => owner[edi[c]] = slot(c)

LEMMA FrameRecorded ==
  ASSUME SlotInv, NEW d \in Cpus, Same(d), NEW l
  PROVE  Recorded(d, l)' <=> Recorded(d, l)
  BY ZenonT(60) DEF SlotInv, Same, SameRow, Recorded, Count, HeldAt, slot

\* A step of c that stores no owner, records nothing and does not come to the
\* push.
LEMMA OwnerKept ==
  ASSUME IInv, OwnerInv, NEW c \in Cpus, OneCpu(c), UNCHANGED owner, pc'[c] # "sl_push",
         \A l \in Locks : Recorded(c, l)' => Recorded(c, l) /\ slot(c)' = slot(c)
  PROVE  OwnerInv'
<1>1. SlotInv /\ \A d \in Cpus \ {c} : Same(d)
  BY ZenonT(60) DEF IInv, OneCpu
<1>2. ASSUME NEW d \in Cpus \ {c}, NEW l \in Locks, Recorded(d, l)'
      PROVE  owner'[l] = slot(d)'
  <2>1. Recorded(d, l) /\ slot(d)' = slot(d)
    BY <1>1, <1>2, FrameRecorded, Zenon DEF Same, slot
  <2> QED  BY <2>1, Zenon DEF OwnerInv
<1>3. ASSUME NEW d \in Cpus \ {c}, pc'[d] = "sl_push"
      PROVE  owner'[edi'[d]] = slot(d)'
  <2>1. pc[d] = "sl_push" /\ edi'[d] = edi[d] /\ slot(d)' = slot(d)
    BY <1>1, <1>3, Zenon DEF Same, slot
  <2> QED  BY <1>1, <2>1, Zenon DEF OwnerInv
<1> QED  BY <1>2, <1>3, Zenon DEF OwnerInv

LEMMA CalmOwner ==
  ASSUME IInv, OwnerInv, NEW c \in Cpus, OneCpu(c), UNCHANGED <<slotVars, heldVars, owner>>,
         pc[c] # "off", pc'[c] \notin {"off", "sl_push"}
  PROVE  OwnerInv'
<1>1. slot(c)' = slot(c) /\ \A l \in Locks : Recorded(c, l)' <=> Recorded(c, l)
  BY HeldByPlace, ZenonT(60) DEF slot, slotVars
<1> QED  BY <1>1, OwnerKept, ZenonT(60)

LEMMA SlGotOwner ==
  ASSUME IInv, OwnerInv, NEW c \in Cpus, OneCpu(c), SlGot(c)
  PROVE  OwnerInv'
<1>1. /\ pc[c] = "sl_got" /\ pc'[c] = "sl_push" /\ edi' = edi /\ edi[c] \in Locks
      /\ TypeOK /\ SlotInv /\ MutualExclusion /\ \A d \in Cpus \ {c} : Same(d)
  BY SlotRange, ZenonT(60) DEF IInv, LockInv, OneCpu, SlGot, Goto, TypeOK, RecordInv, HasLock, Locking
<1>2. owner' = [owner EXCEPT ![edi[c]] = slot(c)] /\ UNCHANGED <<slotVars, heldVars>>
  BY ZenonT(60) DEF SlGot
<1>3. slot(c)' = slot(c) /\ \A l \in Locks : Recorded(c, l)' <=> Recorded(c, l)
  BY <1>1, <1>2, HeldByPlace, ZenonT(60) DEF slot, slotVars
<1>4. \A d \in Cpus \ {c} : ~Recorded(d, edi[c]) /\ ~(pc[d] = "sl_push" /\ edi[d] = edi[c])
  BY <1>1, ZenonT(60) DEF MutualExclusion, Holds, InFlight
<1>5. \A l \in Locks : Recorded(c, l)' => owner'[l] = slot(c)'
  BY <1>1, <1>2, <1>3, ZenonT(60) DEF OwnerInv, TypeOK
<1>6. ASSUME NEW d \in Cpus \ {c}, NEW l \in Locks, Recorded(d, l)'
      PROVE  owner'[l] = slot(d)'
  <2>1. Recorded(d, l) /\ slot(d)' = slot(d)
    BY <1>1, <1>6, FrameRecorded, Zenon DEF Same, slot
  <2> QED  BY <1>1, <1>2, <1>4, <2>1, Zenon DEF OwnerInv, TypeOK
<1>7. \A d \in Cpus \ {c} : pc'[d] = "sl_push" => owner'[edi'[d]] = slot(d)'
  <2> TAKE d \in Cpus \ {c}
  <2>1. pc'[d] = "sl_push" => edi[d] \in Locks
    BY <1>1, SlotRange, ZenonT(60) DEF Same, RecordInv, HasLock, Locking
  <2> QED  BY <1>1, <1>2, <1>4, <2>1, ZenonT(60) DEF OwnerInv, TypeOK, Same, slot
<1>8. owner'[edi'[c]] = slot(c)'
  BY <1>1, <1>2, <1>3, Zenon DEF TypeOK
<1> QED  BY <1>5, <1>6, <1>7, <1>8, ZenonT(60) DEF OwnerInv

LEMMA SuReleaseOwner ==
  ASSUME IInv, OwnerInv, NEW c \in Cpus, OneCpu(c), SuRelease(c)
  PROVE  OwnerInv'
<1>1. /\ pc[c] \in {"su_owner", "su_free"} /\ pc'[c] \in {"su_free", "su_popfd"} /\ edi' = edi
      /\ TypeOK /\ SlotInv /\ MutualExclusion /\ UNCHANGED <<slotVars, heldVars>>
      /\ \A d \in Cpus \ {c} : Same(d)
  BY ZenonT(60) DEF IInv, LockInv, OneCpu, SuRelease, Goto, TypeOK
<1>2. slot(c)' = slot(c) /\ \A l \in Locks : Recorded(c, l)' <=> Recorded(c, l)
  BY <1>1, HeldByPlace, ZenonT(60) DEF slot, slotVars
<1>3. CASE pc[c] = "su_free"
  BY <1>1, <1>2, <1>3, OwnerKept, ZenonT(60) DEF SuRelease
<1>4. CASE pc[c] = "su_owner"
  <2>1. /\ owner' = [owner EXCEPT ![edi[c]] = 0] /\ edi[c] \in Locks /\ RecordInv(c)
        /\ Count(c) \in 0 .. MAX_HELD_LOCKS
    BY <1>4, SlotRange, ZenonT(60) DEF SuRelease, RecordInv, HasLock
  <2>2. ~Recorded(c, edi[c])
    BY <1>4, <2>1, LockAssumption, SMTT(60) DEF Recorded, RecordInv, Granted
  <2>3. \A d \in Cpus \ {c} : ~Recorded(d, edi[c]) /\ ~(pc[d] = "sl_push" /\ edi[d] = edi[c])
    BY <1>1, <1>4, <2>1, ZenonT(60) DEF MutualExclusion, Holds, InFlight
  <2>4. \A l \in Locks : Recorded(c, l)' => owner'[l] = slot(c)'
    BY <1>1, <1>2, <2>1, <2>2, ZenonT(60) DEF OwnerInv, TypeOK
  <2>5. ASSUME NEW d \in Cpus \ {c}, NEW l \in Locks, Recorded(d, l)'
        PROVE  owner'[l] = slot(d)'
    <3>1. Recorded(d, l) /\ slot(d)' = slot(d)
      BY <1>1, <2>5, FrameRecorded, Zenon DEF Same, slot
    <3> QED  BY <1>1, <2>1, <2>3, <3>1, Zenon DEF OwnerInv, TypeOK
  <2>6. \A d \in Cpus \ {c} : pc'[d] = "sl_push" => owner'[edi'[d]] = slot(d)'
    <3> TAKE d \in Cpus \ {c}
    <3>1. pc'[d] = "sl_push" => edi[d] \in Locks
      BY <1>1, SlotRange, ZenonT(60) DEF Same, RecordInv, HasLock, Locking
    <3> QED  BY <1>1, <2>1, <2>3, <3>1, ZenonT(60) DEF OwnerInv, TypeOK, Same, slot
  <2> QED  BY <1>1, <2>4, <2>5, <2>6, ZenonT(60) DEF OwnerInv
<1> QED  BY <1>1, <1>3, <1>4, ZenonT(60)

\* The lock that goes on the record is the one whose owner was just stored.
LEMMA SlPushOwner ==
  ASSUME IInv, OwnerInv, NEW c \in Cpus, OneCpu(c), SlPush(c)
  PROVE  OwnerInv'
<1>1. /\ pc[c] = "sl_push" /\ pc'[c] = "run" /\ UNCHANGED owner /\ slot(c)' = slot(c)
      /\ SlotInv /\ \A d \in Cpus \ {c} : Same(d)
  BY ZenonT(120) DEF SlPush, Leave, Goto, IInv, TypeOK, OneCpu, lockVars, slotVars, slot
<1>2. Kept
  BY <1>1, SlPushHolds, ZenonT(60)
<1>3. \A l \in Locks : Recorded(c, l)' => Recorded(c, l) \/ l = edi[c]
  BY <1>1, <1>2, ZenonT(60) DEF Kept, Holds, InFlight
<1>4. \A l \in Locks : Recorded(c, l)' => owner'[l] = slot(c)'
  BY <1>1, <1>3, ZenonT(60) DEF OwnerInv
<1>5. ASSUME NEW d \in Cpus \ {c}, NEW l \in Locks, Recorded(d, l)'
      PROVE  owner'[l] = slot(d)'
  <2>1. Recorded(d, l) /\ slot(d)' = slot(d)
    BY <1>1, <1>5, FrameRecorded, Zenon DEF Same, slot
  <2> QED  BY <1>1, <2>1, Zenon DEF OwnerInv
<1>6. ASSUME NEW d \in Cpus \ {c}, pc'[d] = "sl_push"
      PROVE  owner'[edi'[d]] = slot(d)'
  <2>1. pc[d] = "sl_push" /\ edi'[d] = edi[d] /\ slot(d)' = slot(d)
    BY <1>1, <1>6, Zenon DEF Same, slot
  <2> QED  BY <1>1, <2>1, Zenon DEF OwnerInv
<1> QED  BY <1>1, <1>4, <1>5, <1>6, ZenonT(60) DEF OwnerInv

LEMMA SuPopOwner ==
  ASSUME IInv, OwnerInv, NEW c \in Cpus, OneCpu(c), SuPop(c)
  PROVE  OwnerInv'
<1>1. /\ pc[c] = "su_check" /\ pc'[c] = "su_owner" /\ UNCHANGED owner /\ slot(c)' = slot(c)
      /\ \A d \in Cpus \ {c} : Same(d)
  BY ZenonT(120) DEF SuPop, Goto, IInv, TypeOK, OneCpu, lockVars, slotVars, slot
<1>2. Kept
  BY <1>1, SuPopHolds, ZenonT(60)
<1>3. \A l \in Locks : Recorded(c, l)' => Recorded(c, l)
  BY <1>1, <1>2, Zenon DEF Kept, Holds, InFlight
<1> QED  BY <1>1, <1>3, OwnerKept, Zenon

LEMMA ClaimSlotOwner ==
  ASSUME IInv, OwnerInv, NEW c \in Cpus, OneCpu(c), ClaimSlot(c)
  PROVE  OwnerInv'
<1>1. pc[c] = "off" /\ pc'[c] = "run" /\ UNCHANGED owner
  BY Zenon DEF ClaimSlot, IInv, TypeOK, lockVars
<1>2. Kept
  BY ClaimSlotHolds, ZenonT(60)
<1>3. \A l \in Locks : ~Recorded(c, l)'
  BY <1>1, <1>2, ZenonT(60) DEF Kept, Holds, Recorded, InFlight
<1> QED  BY <1>1, <1>3, OwnerKept, ZenonT(60)

LEMMA OwnerStep ==
  ASSUME IInv, OwnerInv, Next
  PROVE  OwnerInv'
<1>1. ASSUME NEW c \in Cpus, ClaimSlot(c)  PROVE OwnerInv'
  BY <1>1, ClaimSlotStep, ClaimSlotOwner, Zenon
<1>2. ASSUME NEW c \in Cpus, SetInterrupts(c) \/ Interrupt(c) \/ InterruptReturn(c)
      PROVE  OwnerInv'
  <2>1. OneCpu(c)
    BY <1>2, SetInterruptsStep, InterruptStep, InterruptReturnStep, ZenonT(60)
  <2>2. pc[c] # "off" /\ pc'[c] \notin {"off", "sl_push"}
    BY <1>2, SlotRange, ZenonT(60) DEF SetInterrupts, Interrupt, InterruptReturn, Leave, Goto, IInv, TypeOK, SuspInv, Resting
  <2>3. UNCHANGED <<slotVars, heldVars, owner>>
    BY <1>2, Zenon DEF SetInterrupts, Interrupt, InterruptReturn, lockVars
  <2> QED  BY <2>1, <2>2, <2>3, CalmOwner, Zenon
<1>3. ASSUME NEW c \in Cpus, NEW l \in Locks, CallLock(c, l) \/ CallUnlock(c, l)
      PROVE  OwnerInv'
  <2>1. OneCpu(c)
    BY <1>3, CallLockStep, CallUnlockStep, Zenon
  <2>2. pc[c] # "off" /\ pc'[c] \notin {"off", "sl_push"}
    BY <1>3, ZenonT(120) DEF CallLock, CallUnlock, Goto, IInv, TypeOK
  <2>3. UNCHANGED <<slotVars, heldVars, owner>>
    BY <1>3, ZenonT(60) DEF CallLock, CallUnlock, lockVars
  <2> QED  BY <2>1, <2>2, <2>3, CalmOwner, ZenonT(60)
<1>4. ASSUME NEW c \in Cpus, SlCheckPass(c) \/ SlCli(c) \/ SlTry(c) \/ SuPopfd(c)
      PROVE  OwnerInv'
  <2>1. OneCpu(c)
    BY <1>4, SlCheckPassStep, SlCliStep, SlTryStep, SuPopfdStep, ZenonT(60)
  <2>2. pc[c] # "off" /\ pc'[c] \notin {"off", "sl_push"}
    BY <1>4, ZenonT(60) DEF SlCheckPass, SlCli, SlTry, SuPopfd, Leave, Goto, IInv, TypeOK
  <2>3. UNCHANGED <<slotVars, heldVars, owner>>
    BY <1>4, ZenonT(60) DEF SlCheckPass, SlCli, SlTry, SuPopfd, lockVars
  <2> QED  BY <2>1, <2>2, <2>3, CalmOwner, Zenon
<1>5. ASSUME NEW c \in Cpus, SlRefuse(c) \/ SuImbalance(c)
      PROVE  OwnerInv'
  <2>1. Violation(c) /\ pc[c] \in {"sl_check", "su_check"}
    BY <1>5, Zenon DEF SlRefuse, SuImbalance
  <2>2. OneCpu(c)
    BY <2>1, ViolationStep, ZenonT(60)
  <2>3. pc'[c] \notin {"off", "sl_push"} /\ UNCHANGED <<slotVars, heldVars, owner>>
    BY <2>1, ZenonT(120) DEF Violation, Leave, Goto, IInv, TypeOK, lockVars
  <2> QED  BY <2>1, <2>2, <2>3, CalmOwner, Zenon
<1>6. ASSUME NEW c \in Cpus, SlGot(c) \/ SlPush(c) \/ SuPop(c) \/ SuRelease(c)
      PROVE  OwnerInv'
  BY <1>6, SlGotStep, SlPushStep, SuPopStep, SuReleaseStep, SlGotOwner, SlPushOwner, SuPopOwner, SuReleaseOwner, ZenonT(60)
<1>7. ASSUME SelftestBegin \/ SelftestEnd  PROVE OwnerInv'
  <2>1. UNCHANGED <<slotVars, lockVars, heldVars, ctxVars>>
    BY <1>7, Zenon DEF SelftestBegin, SelftestEnd
  <2> QED  BY <2>1, ZenonT(60) DEF OwnerInv, Recorded, Count, HeldAt, slot, slotVars, lockVars, heldVars, ctxVars
<1> QED  BY <1>1, <1>2, <1>3, <1>4, <1>5, <1>6, <1>7, Zenon DEF Next, Step

\* The two stores of a release are in the right order: the release of the lock on
\* top of one's own record is never reported as an imbalance.
THEOREM ReleaseAccepted == Spec => []OwnReleaseAccepted
<1>1. Init => OwnerInv
  <2> SUFFICES ASSUME Init  PROVE OwnerInv
    BY Zenon
  <2>1. IInv /\ \A l \in Locks : locked[l] = 0
    BY InitInv, Zenon DEF Init
  <2>2. \A c \in Cpus, l \in Locks : ~Recorded(c, l)
    BY <2>1 DEF IInv, LockInv, Holds
  <2>3. \A c \in Cpus : pc[c] # "sl_push"
    BY Zenon DEF Init
  <2> QED  BY <2>2, <2>3, ZenonT(60) DEF OwnerInv
<1>2. IInv /\ OwnerInv /\ [Next]_vars => OwnerInv'
  <2>1. ASSUME OwnerInv, UNCHANGED vars  PROVE OwnerInv'
    BY <2>1, ZenonT(60) DEF vars, OwnerInv, Recorded, Count, HeldAt, slot, slotVars, lockVars, heldVars, ctxVars
  <2> QED  BY <2>1, OwnerStep, ZenonT(60)
<1>3. IInv /\ OwnerInv => OwnReleaseAccepted
  <2> SUFFICES ASSUME IInv, OwnerInv, NEW c \in Cpus, pc[c] = "su_check", Count(c) > 0,
                      HeldAt(c, Count(c) - 1) = edi[c]
               PROVE  Balanced(c)
    BY ZenonT(60) DEF OwnReleaseAccepted
  <2>1. edi[c] \in Locks /\ Count(c) \in 0 .. MAX_HELD_LOCKS
    BY SlotRange, Zenon DEF RecordInv, HasLock
  <2>2. Recorded(c, edi[c])
    BY <2>1, LockAssumption, SMTT(60) DEF Recorded
  <2>3. locked[edi[c]] = 1 /\ owner[edi[c]] = slot(c)
    BY <2>1, <2>2, Zenon DEF IInv, LockInv, Holds, OwnerInv
  <2> QED  BY <2>3, Zenon DEF Balanced
<1> QED  BY <1>1, <1>2, <1>3, Invariance, PTL DEF Spec

-----------------------------------------------------------------------------
(* The refinement of Mutex *)

\* In a state with at most one holder, Holder names it.
LEMMA HolderIs ==
  ASSUME MutualExclusion, NEW l \in Locks
  PROVE  /\ \A c \in Cpus : Holds(c, l) => Holder(l) = c
         /\ (\A c \in Cpus : ~Holds(c, l)) => Holder(l) = NoCpu
  BY Zenon DEF MutualExclusion, Holder

LEMMA HolderIsNext ==
  ASSUME MutualExclusion', NEW l \in Locks
  PROVE  /\ \A c \in Cpus : Holds(c, l)' => Holder(l)' = c
         /\ (\A c \in Cpus : ~Holds(c, l)') => Holder(l)' = NoCpu
  BY Zenon DEF MutualExclusion, Holder

\* spin_lock and spin_unlock implement Mutex: a lock changes hands only from
\* nobody to the processor whose cmpxchg found it free, and back.
THEOREM ImplementsMutex == Spec => MutexRefined
<1>1. Init => Abstract!Init
  <2> SUFFICES ASSUME Init  PROVE Abstract!Init
    BY Zenon
  <2>1. IInv /\ MutualExclusion
    BY InitInv, Zenon DEF IInv, LockInv
  <2>2. \A l \in Locks : locked[l] = 0
    BY Zenon DEF Init
  <2>3. \A c \in Cpus, l \in Locks : ~Holds(c, l)
    BY <2>1, <2>2 DEF IInv, LockInv
  <2>4. \A l \in Locks : Holder(l) = NoCpu
    BY <2>1, <2>3, HolderIs, Zenon
  <2> QED  BY <2>4, Zenon DEF Abstract!Init, holder
<1>2. IInv /\ IInv' /\ [Next]_vars => [Abstract!Next]_holder
  <2> SUFFICES ASSUME IInv, IInv', [Next]_vars
               PROVE  Abstract!Next \/ holder' = holder
    BY Zenon
  <2>1. MutualExclusion /\ MutualExclusion'
    BY Zenon DEF IInv, LockInv
  <2>2. Kept \/ \E c \in Cpus : Taken(c) \/ Freed(c)
    BY StepCases, StutterInv, Zenon
  <2>3. CASE Kept
    <3>1. \A l \in Locks : Holder(l)' = Holder(l)
      BY <2>1, <2>3, HolderIs, HolderIsNext, Zenon DEF Kept
    <3> QED  BY <3>1, Zenon DEF holder
  <2>4. ASSUME NEW c \in Cpus, Taken(c)
        PROVE  Abstract!Next
    <3>1. edi[c] \in Locks /\ \A d \in Cpus : ~Holds(d, edi[c])
      BY <2>4 DEF Taken, IInv, LockInv
    <3>2. Holder(edi[c]) = NoCpu
      BY <2>1, <3>1, HolderIs, ZenonT(60)
    <3>3. \A l \in Locks : Holder(l)' = IF l = edi[c] THEN c ELSE Holder(l)
      BY <2>1, <2>4, <3>1, HolderIs, HolderIsNext, ZenonT(60) DEF Taken
    <3>4. Abstract!Acquire(c, edi[c])
      BY <3>1, <3>2, <3>3, Zenon DEF Abstract!Acquire, holder
    <3> QED  BY <3>1, <3>4, Zenon DEF Abstract!Next
  <2>5. ASSUME NEW c \in Cpus, Freed(c)
        PROVE  Abstract!Next
    <3>1. PICK m \in Locks : /\ m = edi[c] /\ Holds(c, m)
                             /\ \A d \in Cpus : ~Holds(d, m)'
      BY <2>1, <2>5, Zenon DEF Freed, MutualExclusion
    <3>2. Holder(m) = c
      BY <2>1, <3>1, HolderIs, ZenonT(60)
    <3>3. \A l \in Locks : Holder(l)' = IF l = m THEN NoCpu ELSE Holder(l)
      BY <2>1, <2>5, <3>1, HolderIs, HolderIsNext, ZenonT(60) DEF Freed
    <3>4. Abstract!Release(c, m)
      BY <3>1, <3>2, <3>3, Zenon DEF Abstract!Release, holder
    <3> QED  BY <3>1, <3>4, Zenon DEF Abstract!Next
  <2> QED  BY <2>2, <2>3, <2>4, <2>5, Zenon
<1> QED  BY <1>1, <1>2, Invariance, PTL DEF Spec, MutexRefined, Abstract!Spec

=============================================================================
