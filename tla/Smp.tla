-------------------------------- MODULE Smp --------------------------------
(***************************************************************************)
(* The processors from power-on to work: the start of SmpBoot, then the    *)
(* job ring of SmpWork.  A processor is named by its local APIC ID.  It    *)
(* enters smp_ap_idle when its first stress round is over; the shell's     *)
(* smpstress comes after smp_start_aps has returned, whoever has arrived.  *)
(* A processor that the walk starts again begins anew.                     *)
(***************************************************************************)
EXTENDS SmpWork

CONSTANTS ApicIds, X2APIC, Tables, ACPI_IDS, Behind, SMP_MAX_CPUS, SMP_AP_TIMEOUT_MS

VARIABLES irq_mode_apic, madt, acpi_cpu_count, acpi_cpu_apic_ids, smp_bsp_apic_id,
          smp_ap_expected, smp_ap_online, smp_work_done, bootebx, ecx, bootpc, ap, started

Boot == INSTANCE SmpBoot WITH ebx <- bootebx, pc <- bootpc

ASSUME SmpAssumption ==
  /\ Aps \cup {Bsp, 0} \subseteq ApicIds /\ ApicIds \subseteq 0 .. 255
  /\ X2APIC \notin ApicIds /\ Tables \subseteq Seq(ApicIds \cup {X2APIC})
  /\ ACPI_IDS \in Nat /\ Behind \subseteq ApicIds
  /\ SMP_MAX_CPUS \in Nat \ {0} /\ SMP_AP_TIMEOUT_MS \in Nat \ {0}

bootVars == <<irq_mode_apic, madt, acpi_cpu_count, acpi_cpu_apic_ids, smp_bsp_apic_id,
              smp_ap_expected, smp_ap_online, smp_work_done, bootebx, ecx, bootpc, ap, started>>
allVars == <<vars, bootVars>>

SmpInit == Init /\ Boot!Init /\ smp_bsp_apic_id = Bsp

\* INIT takes a processor out of whatever it was doing; a lock that it held stays
\* held.  (Its first start-up finds it in "boot" already.)
Reset(c) == c \in Aps /\ started'[c] # started[c]
Resets ==
  /\ pc' = [c \in Cpus |-> IF Reset(c) THEN "boot" ELSE pc[c]]
  /\ eax' = [c \in Cpus |-> IF Reset(c) THEN 0 ELSE eax[c]]
  /\ ebx' = [c \in Cpus |-> IF Reset(c) THEN 0 ELSE ebx[c]]
  /\ ipi' = [p \in Aps |-> ipi[p] /\ ~Reset(p)]
  /\ iflag' = [p \in Aps |-> iflag[p] /\ ~Reset(p)]
  /\ UNCHANGED <<ringVars, countVars, bspVars, done>>

Starts == Boot!BspStep /\ Resets
Comes == Boot!ApStep /\ UNCHANGED vars
Enters(p) == ap[p] = "idle" /\ Arrive(p) /\ UNCHANGED bootVars
Stresses == bootpc = "done" /\ BspStep /\ UNCHANGED bootVars
Works(p) == ApStep(p) /\ UNCHANGED bootVars
Pokes(p) == TakeIpi(p) /\ UNCHANGED bootVars

SmpNext == Starts \/ Comes \/ Stresses \/ \E p \in Aps : Enters(p) \/ Works(p) \/ Pokes(p)

\* The bootstrap processor, and each one in the idle loop, keeps executing and takes
\* a deliverable interrupt; another may never arrive.  The lock is not starved:
\* smp_spread_stress pauses between refused pushes, and an application processor that
\* finds the ring empty halts.
SmpSpec ==
  /\ SmpInit /\ [][SmpNext]_allVars
  /\ WF_allVars(Starts)
  /\ WF_allVars(Stresses) /\ SF_allVars(PushLock /\ UNCHANGED bootVars)
  /\ \A p \in Aps : /\ WF_allVars(Works(p)) /\ SF_allVars(PopLock(p) /\ UNCHANGED bootVars)
                    /\ WF_allVars(Pokes(p))

-----------------------------------------------------------------------------
(* Properties of the parts, of the whole machine *)

\* smp_start_aps keeps within the slots and never restarts its own processor whatever
\* the firmware lists, and starts every other processor once when each one's ID is
\* its place in the list.
EveryOtherStarted == Boot!EveryOtherStarted


\* A processor that was started a second time inside smp_work_pop holds the lock for
\* ever: no list InPlace admits leads there.
Orphaned ==
  \E p \in Aps : holder["smp_work_lock"] = p /\ pc[p] \notin {"pop_read", "pop_take", "pop_unlock"}

\* smp_spread_stress finishes once one processor is in the idle loop, even when the
\* ring is smaller than the number of jobs and the others are still on their way or
\* never arrive.
StressEnds ==
  bootpc = "done" /\ ~Orphaned /\ (\E p \in Aps : pc[p] # "boot") ~> pc[Bsp] = "out"

=============================================================================
