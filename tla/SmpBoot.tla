------------------------------ MODULE SmpBoot ------------------------------
(***************************************************************************)
(* kernel/smp.inc, smp_start_aps and smp_ap_main, over the table that      *)
(* acpi_scan_madt of kernel/acpi.inc keeps: the bootstrap processor walks  *)
(* the local APIC IDs, starts the other processors, and waits a bounded    *)
(* time for them to finish their first round of work.                      *)
(***************************************************************************)
EXTENDS Integers, FiniteSets, Sequences

CONSTANTS ApicIds,             \* the local APIC IDs a machine may use
          X2APIC,              \* an entry of type MADT_TYPE_X2APIC
          Tables,              \* the processor entries firmware may list, in its order
          ACPI_IDS,            \* the size of acpi_cpu_apic_ids
          Behind,              \* what the bytes behind it may read as
          SMP_MAX_CPUS,
          SMP_AP_TIMEOUT_MS

VARIABLES
  irq_mode_apic,                       \* is there a local APIC?
  madt,                                \* the firmware's entries
  acpi_cpu_count, acpi_cpu_apic_ids,   \* what acpi_scan_madt made of them
  smp_bsp_apic_id,
  smp_ap_expected, smp_ap_online, smp_work_done,
  ebx, ecx,                            \* loop index, milliseconds left
  pc,                                  \* the bootstrap processor's place
  ap,                                  \* where each other processor is
  started                              \* history: start-ups sent to each ID

table == <<irq_mode_apic, madt, acpi_cpu_count, acpi_cpu_apic_ids, smp_bsp_apic_id>>
counts == <<smp_ap_expected, smp_ap_online, smp_work_done>>
vars == <<table, counts, ebx, ecx, pc, ap, started>>

\* Every entry is counted; the ID of a processor entry is stored at the count so far
\* while the table has room.  An x2APIC entry leaves its byte 0.
acpi_scan_madt(t) ==
  /\ acpi_cpu_count = Len(t)
  /\ acpi_cpu_apic_ids =
       [i \in 0 .. ACPI_IDS - 1 |-> IF i < Len(t) /\ t[i + 1] # X2APIC THEN t[i + 1] ELSE 0]

\* The MADT lists the processors in any order and with any numbering.
Init ==
  /\ irq_mode_apic \in BOOLEAN
  /\ madt \in Tables /\ acpi_scan_madt(madt)
  /\ smp_bsp_apic_id \in ApicIds
  /\ smp_ap_expected = 0 /\ smp_ap_online = 0 /\ smp_work_done = 0
  /\ ebx = 0 /\ ecx = 0 /\ pc = "entry"
  /\ ap = [a \in ApicIds |-> "off"] /\ started = [a \in ApicIds |-> 0]

\* A lone processor, or one without a local APIC, has nobody to wake.
Entry ==
  /\ pc = "entry"
  /\ pc' = IF ~irq_mode_apic \/ acpi_cpu_count <= 1 THEN "report" ELSE "loop"
  /\ UNCHANGED <<table, counts, ebx, ecx, ap, started>>

\* "cmp dword [smp_ap_expected], SMP_MAX_CPUS - 1; jae".
Room == smp_ap_expected < SMP_MAX_CPUS - 1

\* "movzx eax, byte [acpi_cpu_apic_ids + ebx]".  The count may pass the table: what
\* lies behind it is then read as an ID.
IdsAt(i) == IF i < ACPI_IDS THEN {acpi_cpu_apic_ids[i]} ELSE Behind

\* "cmp al, [smp_bsp_apic_id]; je".  Fault: the test is left out.
IsSelf_never(id) == FALSE
IsSelf(id) == id = smp_bsp_apic_id

Skip ==
  /\ pc = "loop" /\ ebx < acpi_cpu_count /\ Room
  /\ \E id \in IdsAt(ebx) : IsSelf(id)
  /\ ebx' = ebx + 1
  /\ UNCHANGED <<table, counts, ecx, pc, ap, started>>

\* INIT, SIPI, SIPI.  EBX carries the destination to smp_icr_send and is then
\* what "inc ebx" steps on.  INIT resets the processor wherever it is.
Wake ==
  /\ pc = "loop" /\ ebx < acpi_cpu_count /\ Room
  /\ \E id \in IdsAt(ebx) :
       /\ ~IsSelf(id)
       /\ started' = [started EXCEPT ![id] = @ + 1]
       /\ ap' = [ap EXCEPT ![id] = "trampoline"]
       /\ ebx' = id + 1
  /\ smp_ap_expected' = smp_ap_expected + 1
  /\ UNCHANGED <<table, smp_ap_online, smp_work_done, ecx, pc>>

\* The table or the slots are used up; the own stress round runs meanwhile.
EndLoop ==
  /\ pc = "loop" /\ (ebx >= acpi_cpu_count \/ ~Room)
  /\ pc' = "wait" /\ ecx' = SMP_AP_TIMEOUT_MS
  /\ UNCHANGED <<table, counts, ebx, ap, started>>

Remaining(n) == n - 1

Poll ==
  /\ pc = "wait"
  /\ IF smp_work_done >= smp_ap_expected
       THEN pc' = "report" /\ UNCHANGED ecx
       ELSE /\ ecx' = Remaining(ecx)
            /\ pc' = IF ecx' = 0 THEN "report" ELSE "wait"
  /\ UNCHANGED <<table, counts, ebx, ap, started>>

\* The caller stores smp_ap_online + 1 in smp_cpus_online: ebx holds the result.
Report ==
  /\ pc = "report" /\ pc' = "done"
  /\ ebx' = smp_ap_online + 1
  /\ UNCHANGED <<table, counts, ecx, ap, started>>

\* smp_ap_main: "lock inc dword [smp_ap_online]".
Online(a) ==
  /\ ap[a] = "trampoline" /\ ap' = [ap EXCEPT ![a] = "stress"]
  /\ smp_ap_online' = smp_ap_online + 1
  /\ UNCHANGED <<table, smp_ap_expected, smp_work_done, ebx, ecx, pc, started>>

\* The first stress round is over: "lock inc dword [smp_work_done]".
WorkDone(a) ==
  /\ ap[a] = "stress" /\ ap' = [ap EXCEPT ![a] = "idle"]
  /\ smp_work_done' = smp_work_done + 1
  /\ UNCHANGED <<table, smp_ap_expected, smp_ap_online, ebx, ecx, pc, started>>

BspStep == Entry \/ Skip \/ Wake \/ EndLoop \/ Poll \/ Report
ApStep == \E a \in ApicIds : Online(a) \/ WorkDone(a)

-----------------------------------------------------------------------------
(* Properties *)

Others == {madt[i] : i \in 1 .. Len(madt)} \ {X2APIC, smp_bsp_apic_id}
Started == {a \in ApicIds : started[a] # 0}

\* acpi_scan_madt kept every ID that the firmware listed.
Listed == Len(madt) <= ACPI_IDS /\ \A i \in 1 .. Len(madt) : madt[i] # X2APIC

\* Each other processor's ID is its place in the list, which is where Wake goes on.
InPlace == Listed /\ \A i \in 1 .. Len(madt) : madt[i] \in {i - 1, smp_bsp_apic_id}

\* Whatever the firmware lists, the bootstrap processor never restarts itself, and
\* "never wake more processors than there are slots for": slot 0 is taken, and no
\* more arrivals are counted than start-ups were sent.  A processor that the
\* firmware does not list is not started.  "Send INIT-SIPI-SIPI to every other
\* processor described" holds of a list the walk keeps its place in: each was started
\* exactly once unless the slots ran out, and smp_cpus_online claims none that was not.
EveryOtherStarted ==
  /\ started[smp_bsp_apic_id] = 0
  /\ Cardinality(Started) <= smp_ap_expected /\ smp_ap_expected < SMP_MAX_CPUS
  /\ smp_ap_online <= smp_ap_expected
  /\ Listed => Started \subseteq Others
  /\ pc = "done" => ebx \in 1 .. SMP_MAX_CPUS
  /\ InPlace /\ irq_mode_apic /\ pc \in {"wait", "report", "done"} =>
       /\ \A a \in Others : started[a] <= 1
       /\ \/ acpi_cpu_count <= 1 \/ Others \subseteq Started
          \/ smp_ap_expected = SMP_MAX_CPUS - 1
       /\ pc = "done" => ebx <= 1 + Cardinality(Started)


=============================================================================
