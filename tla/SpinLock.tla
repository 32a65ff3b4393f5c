------------------------------ MODULE SpinLock ------------------------------
(***************************************************************************)
(* kernel/lock.inc: ranked spinlocks on several processors, and the        *)
(* processor slots (kernel/apic.inc, kernel/smp.inc) that index the        *)
(* per-processor record of held locks.                                     *)
(*                                                                         *)
(* Every step below is one or a few instructions between which another     *)
(* processor, or an interrupt on this one, can be seen.  A processor runs  *)
(* one context at a time: an interrupt pushes the interrupted context on   *)
(* `susp' and the handler may itself take and release locks.  Rank copies  *)
(* (cpu_held_rank) are read through Rank, the lock's constant rank.        *)
(***************************************************************************)
EXTENDS Integers, FiniteSets

CONSTANTS Cpus, NoCpu,      \* processors, told apart by APIC ID, and none
          Bsp,              \* the bootstrap processor
          Locks, NoLock,    \* lock records, and the null pointer
          Rank,             \* LK_RANK of each lock
          SMP_MAX_CPUS, MAX_HELD_LOCKS,
          MaxViolations     \* bound on lock_violations

\* smp_start_aps wakes at most SMP_MAX_CPUS - 1 processors (smp.inc:363-367).
ASSUME CpuAssumption ==
  /\ IsFiniteSet(Cpus) /\ Bsp \in Cpus /\ NoCpu \notin Cpus
  /\ SMP_MAX_CPUS \in 1 .. 255 /\ Cardinality(Cpus) <= SMP_MAX_CPUS

\* LK_RANK is a dword compared as unsigned; the ranks in use are below 1000.
MaxRank == 65535

ASSUME LockAssumption ==
  /\ NoLock \notin Locks /\ Rank \in [Locks -> 0 .. MaxRank]
  /\ MAX_HELD_LOCKS \in Nat \ {0} /\ MaxViolations \in Nat

VARIABLES
  slot_by_apic,   \* cpu_slot_by_apic: the slot of each processor, or Unclaimed
  slot_next,      \* cpu_slot_next
  locked, owner,  \* LK_LOCKED and LK_OWNER of each lock
  held_count, held_lock, held_flags,   \* cpu_held_*, one row per slot
  iflag,          \* EFLAGS.IF of each processor
  pc, edi, flags, \* per processor: where it is, the lock argument, saved IF
  susp,           \* the context an interrupt handler has interrupted
  callerIf,       \* history: IF as the running context last chose it
  armed,          \* lock_gate_armed
  violations      \* lock_violations

slotVars == <<slot_by_apic, slot_next>>
lockVars == <<locked, owner>>
heldVars == <<held_count, held_lock, held_flags>>
ctxVars  == <<iflag, pc, edi, flags, susp, callerIf>>
gateVars == <<armed, violations>>
vars == <<slotVars, lockVars, heldVars, ctxVars, gateVars>>

Slots     == 0 .. SMP_MAX_CPUS - 1
Unclaimed == 255                          \* cpu_slot_by_apic holds 0xFF
Depths    == 0 .. MAX_HELD_LOCKS - 1

PCs == {"off", "run", "sl_check", "sl_cli", "sl_try", "sl_got", "sl_push",
        "su_check", "su_owner", "su_free", "su_popfd", "halt"}

\* What an interrupt saves and IRET restores.
NoContext == [pc |-> "off", edi |-> NoLock, flags |-> FALSE, callerIf |-> FALSE]
Context(c) == [pc |-> pc[c], edi |-> edi[c], flags |-> flags[c],
               callerIf |-> callerIf[c]]

\* cpu_slot_next once apic_init has claimed slot 0 for the bootstrap processor,
\* "claimed before any other can ask".
FirstFree == 1

Init ==
  /\ slot_by_apic = [c \in Cpus |-> IF c = Bsp THEN 0 ELSE Unclaimed]
  /\ slot_next = FirstFree
  /\ locked = [l \in Locks |-> 0] /\ owner = [l \in Locks |-> 0]
  /\ held_count = [s \in Slots |-> 0]
  /\ held_lock = [s \in Slots |-> [i \in Depths |-> NoLock]]
  /\ held_flags = [s \in Slots |-> [i \in Depths |-> FALSE]]
  /\ iflag = [c \in Cpus |-> FALSE]
  /\ pc = [c \in Cpus |-> IF c = Bsp THEN "run" ELSE "off"]
  /\ edi = [c \in Cpus |-> NoLock]
  /\ flags = [c \in Cpus |-> FALSE]
  /\ susp = [c \in Cpus |-> NoContext]
  /\ callerIf = [c \in Cpus |-> FALSE]
  /\ armed = TRUE /\ violations = 0

-----------------------------------------------------------------------------
(* Slots *)

SlotNumber(n) == IF n < SMP_MAX_CPUS THEN n ELSE SMP_MAX_CPUS - 1

\* lock xadd cpu_slot_next
NextSlot(n) == n + 1

\* An application processor claims the next slot in the trampoline, with
\* interrupts off: the xadd, then a store only this processor reads back.
ClaimSlot(c) ==
  /\ pc[c] = "off" /\ slot_by_apic[c] = Unclaimed
  /\ slot_by_apic' = [slot_by_apic EXCEPT ![c] = SlotNumber(slot_next)]
  /\ slot_next' = NextSlot(slot_next)
  /\ pc' = [pc EXCEPT ![c] = "run"]
  /\ UNCHANGED <<lockVars, heldVars, iflag, edi, flags, susp, callerIf, gateVars>>

slot(c) == slot_by_apic[c]
Count(c) == held_count[slot(c)]
HeldAt(c, i) == held_lock[slot(c)][i]

Goto(c, p) == pc' = [pc EXCEPT ![c] = p]

\* popad; ret: the working registers are the caller's again.
Leave(c, p) ==
  /\ Goto(c, p)
  /\ edi' = [edi EXCEPT ![c] = NoLock] /\ flags' = [flags EXCEPT ![c] = FALSE]

-----------------------------------------------------------------------------
(* spin_lock *)

CallLock(c, l) ==
  /\ pc[c] = "run" /\ violations < MaxViolations
  /\ Goto(c, "sl_check") /\ edi' = [edi EXCEPT ![c] = l]
  /\ UNCHANGED <<slotVars, lockVars, heldVars, iflag, flags, susp, callerIf, gateVars>>

\* Fault: equal ranks granted.
GrantOK_equal(c) ==
  /\ Count(c) < MAX_HELD_LOCKS
  /\ \A i \in 0 .. Count(c) - 1 : Rank[edi[c]] >= Rank[HeldAt(c, i)]

\* "a lock taken deeper than the record allows is a bug too", and "strictly
\* greater than everything already held".
GrantOK(c) ==
  /\ Count(c) < MAX_HELD_LOCKS
  /\ \A i \in 0 .. Count(c) - 1 : Rank[edi[c]] > Rank[HeldAt(c, i)]

\* Reported: the processor stops with interrupts off; or, with the gate
\* disarmed by the self-test, the call answers -1.
Violation(c) ==
  /\ violations' = violations + 1
  /\ IF armed
       THEN Leave(c, "halt") /\ iflag' = [iflag EXCEPT ![c] = FALSE]
       ELSE Leave(c, "run") /\ UNCHANGED iflag
  /\ UNCHANGED <<slotVars, lockVars, heldVars, susp, callerIf, armed>>

SlCheckPass(c) ==
  /\ pc[c] = "sl_check" /\ GrantOK(c)
  /\ Goto(c, "sl_cli")
  /\ UNCHANGED <<slotVars, lockVars, heldVars, iflag, edi, flags, susp, callerIf, gateVars>>

SlRefuse(c) == pc[c] = "sl_check" /\ ~GrantOK(c) /\ Violation(c)

\* The flags pushfd saves.  Fault: saved after the cli.
Pushed_late(c) == FALSE
Pushed(c) == iflag[c]

\* pushfd; cli
SlCli(c) ==
  /\ pc[c] = "sl_cli" /\ Goto(c, "sl_try")
  /\ flags' = [flags EXCEPT ![c] = Pushed(c)]
  /\ iflag' = [iflag EXCEPT ![c] = FALSE]
  /\ UNCHANGED <<slotVars, lockVars, heldVars, edi, susp, callerIf, gateVars>>

\* The comparison of lock cmpxchg.  Fault: a plain exchange.
IsFree_xchg(l) == TRUE
IsFree(l) == locked[l] = 0

\* lock cmpxchg: a held lock is retried, a free one is taken.
SlTry(c) ==
  /\ pc[c] = "sl_try" /\ IsFree(edi[c])
  /\ locked' = [locked EXCEPT ![edi[c]] = 1]
  /\ Goto(c, "sl_got")
  /\ UNCHANGED <<slotVars, owner, heldVars, iflag, edi, flags, susp, callerIf, gateVars>>

SlGot(c) ==
  /\ pc[c] = "sl_got" /\ Goto(c, "sl_push")
  /\ owner' = [owner EXCEPT ![edi[c]] = slot(c)]
  /\ UNCHANGED <<slotVars, locked, heldVars, iflag, edi, flags, susp, callerIf, gateVars>>

SlPush(c) ==
  /\ pc[c] = "sl_push" /\ Leave(c, "run")
  /\ held_lock' = [held_lock EXCEPT ![slot(c)][Count(c)] = edi[c]]
  /\ held_flags' = [held_flags EXCEPT ![slot(c)][Count(c)] = flags[c]]
  /\ held_count' = [held_count EXCEPT ![slot(c)] = @ + 1]
  /\ UNCHANGED <<slotVars, lockVars, iflag, susp, callerIf, gateVars>>

-----------------------------------------------------------------------------
(* spin_unlock *)

CallUnlock(c, l) ==
  /\ pc[c] = "run" /\ violations < MaxViolations
  /\ Goto(c, "su_check") /\ edi' = [edi EXCEPT ![c] = l]
  /\ UNCHANGED <<slotVars, lockVars, heldVars, iflag, flags, susp, callerIf, gateVars>>

\* "Drop the top entry, which must be this lock: releases nest."  Fault: whose
\* lock it is is not looked at.
Balanced_unowned(c) == locked[edi[c]] = 1 /\ Count(c) > 0
Balanced(c) ==
  /\ locked[edi[c]] = 1 /\ owner[edi[c]] = slot(c)
  /\ Count(c) > 0 /\ HeldAt(c, Count(c) - 1) = edi[c]

SuPop(c) ==
  /\ pc[c] = "su_check" /\ Balanced(c)
  /\ LET s == slot(c)  top == Count(c) - 1 IN
       /\ held_count' = [held_count EXCEPT ![s] = top]
       /\ held_lock' = [held_lock EXCEPT ![s][top] = NoLock]
       /\ flags' = [flags EXCEPT ![c] = held_flags[s][top]]
       /\ held_flags' = [held_flags EXCEPT ![s][top] = FALSE]
  /\ Goto(c, "su_owner")
  /\ UNCHANGED <<slotVars, lockVars, iflag, edi, susp, callerIf, gateVars>>

SuImbalance(c) == pc[c] = "su_check" /\ ~Balanced(c) /\ Violation(c)

\* Faults: the flag is cleared before the owner; the flag is never cleared.
SuRelease_flagFirst(c) ==
  /\ \/ /\ pc[c] = "su_owner" /\ Goto(c, "su_free")
        /\ locked' = [locked EXCEPT ![edi[c]] = 0] /\ UNCHANGED owner
     \/ /\ pc[c] = "su_free" /\ Goto(c, "su_popfd")
        /\ owner' = [owner EXCEPT ![edi[c]] = 0] /\ UNCHANGED locked
  /\ UNCHANGED <<slotVars, heldVars, iflag, edi, flags, susp, callerIf, gateVars>>
SuRelease_kept(c) ==
  /\ pc[c] = "su_owner" /\ Goto(c, "su_popfd")
  /\ owner' = [owner EXCEPT ![edi[c]] = 0]
  /\ UNCHANGED <<slotVars, locked, heldVars, iflag, edi, flags, susp, callerIf, gateVars>>

\* "Drop the owner first, then the held flag."
SuRelease(c) ==
  /\ \/ /\ pc[c] = "su_owner" /\ Goto(c, "su_free")
        /\ owner' = [owner EXCEPT ![edi[c]] = 0] /\ UNCHANGED locked
     \/ /\ pc[c] = "su_free" /\ Goto(c, "su_popfd")
        /\ locked' = [locked EXCEPT ![edi[c]] = 0] /\ UNCHANGED owner
  /\ UNCHANGED <<slotVars, heldVars, iflag, edi, flags, susp, callerIf, gateVars>>

\* What popfd restores.
Popped(c) == flags[c]

\* popfd: "interrupts back to what the caller had"
SuPopfd(c) ==
  /\ pc[c] = "su_popfd" /\ Leave(c, "run")
  /\ iflag' = [iflag EXCEPT ![c] = Popped(c)]
  /\ UNCHANGED <<slotVars, lockVars, heldVars, susp, callerIf, gateVars>>

-----------------------------------------------------------------------------
(* The contexts that call them *)

\* Kernel code turns interrupts on and off outside any lock.
SetInterrupts(c) ==
  /\ pc[c] = "run" /\ Count(c) = 0 /\ susp[c] = NoContext
  /\ iflag' = [iflag EXCEPT ![c] = ~@]
  /\ callerIf' = [callerIf EXCEPT ![c] = ~iflag[c]]
  /\ UNCHANGED <<slotVars, lockVars, heldVars, pc, edi, flags, susp, gateVars>>

\* An interrupt gate: the handler starts with interrupts off.
Interrupt(c) ==
  /\ iflag[c] /\ pc[c] # "off" /\ susp[c] = NoContext
  /\ susp' = [susp EXCEPT ![c] = Context(c)]
  /\ Leave(c, "run")
  /\ iflag' = [iflag EXCEPT ![c] = FALSE]
  /\ callerIf' = [callerIf EXCEPT ![c] = FALSE]
  /\ UNCHANGED <<slotVars, lockVars, heldVars, gateVars>>

\* IRET of a handler that has released what it took.
InterruptReturn(c) ==
  /\ susp[c] # NoContext /\ pc[c] = "run" /\ Count(c) = 0
  /\ pc' = [pc EXCEPT ![c] = susp[c].pc]
  /\ edi' = [edi EXCEPT ![c] = susp[c].edi]
  /\ flags' = [flags EXCEPT ![c] = susp[c].flags]
  /\ callerIf' = [callerIf EXCEPT ![c] = susp[c].callerIf]
  /\ iflag' = [iflag EXCEPT ![c] = TRUE]
  /\ susp' = [susp EXCEPT ![c] = NoContext]
  /\ UNCHANGED <<slotVars, lockVars, heldVars, gateVars>>

\* lock_selftest, at boot and from the shell, disarms the gate while it makes
\* calls that must be refused, then arms it again and forgets the refusals; when an
\* answer was not the one expected it arms the gate at once, with the locks it holds.
SelftestBegin ==
  /\ pc[Bsp] = "run" /\ Count(Bsp) = 0 /\ susp[Bsp] = NoContext /\ armed
  /\ armed' = FALSE
  /\ UNCHANGED <<slotVars, lockVars, heldVars, ctxVars, violations>>

SelftestEnd ==
  /\ pc[Bsp] = "run" /\ susp[Bsp] = NoContext /\ ~armed
  /\ armed' = TRUE
  /\ (Count(Bsp) = 0 /\ violations' = 0) \/ violations' = violations
  /\ UNCHANGED <<slotVars, lockVars, heldVars, ctxVars>>

-----------------------------------------------------------------------------
\* One step of the code of spin_lock or spin_unlock on processor c.
Step(c) ==
  \/ SlCheckPass(c) \/ SlRefuse(c) \/ SlCli(c) \/ SlTry(c) \/ SlGot(c) \/ SlPush(c)
  \/ SuPop(c) \/ SuImbalance(c) \/ SuRelease(c) \/ SuPopfd(c)

\* Callers that may call anything: wrong orders, wrong releases, the self-test.
Next ==
  \/ \E c \in Cpus : ClaimSlot(c) \/ Step(c) \/ SetInterrupts(c)
                       \/ Interrupt(c) \/ InterruptReturn(c)
  \/ \E c \in Cpus, l \in Locks : CallLock(c, l) \/ CallUnlock(c, l)
  \/ SelftestBegin \/ SelftestEnd

Spec == Init /\ [][Next]_vars

\* Callers that keep the rules: ranks upwards, within the depth, releases in
\* reverse order, nothing left held.  WantsLock and Releases are their calls.
WantsLock(c, l) ==
  /\ pc[c] = "run" /\ Count(c) < MAX_HELD_LOCKS
  /\ \A i \in 0 .. Count(c) - 1 : Rank[l] > Rank[HeldAt(c, i)]
  /\ CallLock(c, l)
Releases(c) == pc[c] = "run" /\ Count(c) > 0 /\ CallUnlock(c, HeldAt(c, Count(c) - 1))

Continues(c) ==
  \/ ClaimSlot(c) \/ Step(c) \/ Releases(c) \/ SetInterrupts(c)
  \/ Interrupt(c) \/ InterruptReturn(c)

DisciplinedNext ==
  \E c \in Cpus : Continues(c) \/ \E l \in Locks : WantsLock(c, l)

DisciplinedSpec == Init /\ [][DisciplinedNext]_vars

-----------------------------------------------------------------------------
(* Properties *)

TypeOK ==
  /\ slot_by_apic \in [Cpus -> Slots \cup {Unclaimed}] /\ slot_next \in Nat
  /\ locked \in [Locks -> {0, 1}] /\ owner \in [Locks -> Slots]
  /\ held_count \in [Slots -> 0 .. MAX_HELD_LOCKS]
  /\ held_lock \in [Slots -> [Depths -> Locks \cup {NoLock}]]
  /\ held_flags \in [Slots -> [Depths -> BOOLEAN]]
  /\ iflag \in [Cpus -> BOOLEAN] /\ pc \in [Cpus -> PCs]
  /\ edi \in [Cpus -> Locks \cup {NoLock}]
  /\ flags \in [Cpus -> BOOLEAN] /\ callerIf \in [Cpus -> BOOLEAN]
  /\ susp \in [Cpus -> [pc : PCs, edi : Locks \cup {NoLock},
                        flags : BOOLEAN, callerIf : BOOLEAN]]
  /\ armed \in BOOLEAN /\ violations \in Nat

\* "A claim cannot collide" (lock_self_ipi): two processors never share a slot,
\* so they never share a stack of held locks.
SlotsDistinct ==
  \A c, d \in Cpus :
    c # d /\ slot(c) # Unclaimed => slot(c) # slot(d)

Recorded(c, l) == pc[c] # "off" /\ \E i \in 0 .. Count(c) - 1 : HeldAt(c, i) = l
InFlight(c, l) == edi[c] = l /\ pc[c] \in {"sl_got", "sl_push", "su_owner", "su_free"}
Holds(c, l) == Recorded(c, l) \/ InFlight(c, l)

\* A lock is held by at most one processor, from the cmpxchg that takes it to
\* the store that frees it, whatever the callers do.
MutualExclusion ==
  \A c, d \in Cpus, l \in Locks : Holds(c, l) /\ Holds(d, l) => c = d

\* The held record of a processor is in strictly increasing rank order: the
\* gate of spin_lock never grants an inversion.
HeldRanksIncrease ==
  \A c \in Cpus : pc[c] # "off" =>
    \A i, j \in 0 .. Count(c) - 1 :
      i < j => Rank[HeldAt(c, i)] < Rank[HeldAt(c, j)]

\* "Two processors taking the same pair in opposite orders is the classic
\* deadlock": no chain of processors spinning on each other's locks closes,
\* a processor waiting for itself included.
WaitsFor(c, d) == pc[c] = "sl_try" /\ Holds(d, edi[c])
NoWaitCycle ==
  \A S \in (SUBSET Cpus) \ {{}} : \E c \in S : \A d \in S : ~WaitsFor(c, d)

\* "From here until the release this processor takes no interrupts": while a
\* processor holds or spins on a lock its interrupt flag is clear, nested
\* releases included.
InterruptsOffWhileHolding ==
  \A c \in Cpus : pc[c] # "off" /\ iflag[c] =>
    Count(c) = 0 /\ pc[c] \notin {"sl_try", "sl_got", "sl_push", "su_owner", "su_free"}

\* "interrupts back to what the caller had": when the last lock is released
\* the interrupt flag is the one the running context chose, through any
\* nesting and any interrupt taken in between.
InterruptsRestored ==
  \A c \in Cpus : pc[c] = "run" /\ Count(c) = 0 => iflag[c] = callerIf[c]

\* spin_unlock refuses "releasing something not held - or held by another
\* processor": every change of a lock's holder is an Acquire of a free lock or a
\* Release by the holder itself, as Mutex says.
Holder(l) == IF \E c \in Cpus : Holds(c, l) THEN CHOOSE c \in Cpus : Holds(c, l) ELSE NoCpu
holder == [l \in Locks |-> Holder(l)]
Abstract == INSTANCE Mutex WITH holder <- holder
MutexRefined == Abstract!Spec

\* The order of the two stores of spin_unlock: "clearing the flag first would
\* let it take the lock and then have its ownership erased here, which its own
\* release would report as an imbalance".  The release of the lock on top of
\* one's own record is never reported.
OwnReleaseAccepted ==
  \A c \in Cpus :
    pc[c] = "su_check" /\ Count(c) > 0 /\ HeldAt(c, Count(c) - 1) = edi[c] => Balanced(c)

=============================================================================
