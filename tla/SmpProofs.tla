----------------------------- MODULE SmpProofs ------------------------------
(***************************************************************************)
(* The start of the processors first: whatever the firmware lists, the     *)
(* walk stays within the slots.  Then, for any number of application       *)
(* processors, any size of the ring and any number of jobs: no processor   *)
(* sleeps through work, and the ring is a bounded first-in first-out       *)
(* queue; the inductive invariant, that each step keeps it, and what       *)
(* follows from it.  The last part shows that smp_spread_stress accounts   *)
(* for every job it queues.                                                *)
(***************************************************************************)
EXTENDS Smp, SequenceTheorems, FiniteSetTheorems, TLAPS

-----------------------------------------------------------------------------
(* smp_start_aps *)

Trampoline == {a \in ApicIds : ap[a] = "trampoline"}

\* The table acpi_scan_madt made: the walk reads an ID wherever it looks, and the
\* listed one where the firmware's list was kept whole.
TableInv ==
  /\ madt \in Tables /\ acpi_cpu_count = Len(madt) /\ smp_bsp_apic_id \in ApicIds
  /\ \A i \in Nat : Boot!IdsAt(i) \subseteq ApicIds
  /\ Boot!Listed => \A i \in 0 .. acpi_cpu_count - 1 : Boot!IdsAt(i) = {madt[i + 1]}

\* A start-up is counted before it is sent, and answered at most once.
AwakeInv ==
  /\ ap \in [ApicIds -> {"off", "trampoline", "stress", "idle"}] /\ started \in [ApicIds -> Nat]
  /\ smp_ap_expected \in Nat /\ smp_ap_expected < SMP_MAX_CPUS /\ smp_ap_online \in Nat
  /\ started[smp_bsp_apic_id] = 0
  /\ Cardinality(Boot!Started) <= smp_ap_expected
  /\ smp_ap_online + Cardinality(Trampoline) <= smp_ap_expected
  /\ Boot!Listed => Boot!Started \subseteq Boot!Others

\* The walk's index, and what it reports.
WalkInv ==
  /\ bootpc \in {"entry", "loop", "wait", "report", "done"} /\ bootebx \in Nat
  /\ bootpc = "entry" => bootebx = 0 /\ \A a \in ApicIds : started[a] = 0
  /\ bootpc = "done" => bootebx >= 1 /\ bootebx <= smp_ap_expected + 1

\* In place, those below the index have been started, once each.
PlaceInv ==
  Boot!InPlace =>
    /\ \A a \in ApicIds : started[a] \in {0, 1}
    /\ smp_ap_expected = Cardinality(Boot!Started)
    /\ bootpc = "loop" =>
         /\ bootebx <= acpi_cpu_count
         /\ \A a \in ApicIds : started[a] = 1 <=> a \in Boot!Others /\ a < bootebx
    /\ bootpc \in {"wait", "report", "done"} /\ irq_mode_apic =>
         \/ acpi_cpu_count <= 1 \/ Boot!Others \subseteq Boot!Started
         \/ smp_ap_expected = SMP_MAX_CPUS - 1

BootInv == TableInv /\ AwakeInv /\ WalkInv /\ PlaceInv

\* SmpBoot counts as this module does.
LEMMA SameCardinality == \A S : Boot!Cardinality(S) = Cardinality(S)
BY Zenon DEF Boot!Cardinality, Cardinality

LEMMA IdsFinite == IsFiniteSet(ApicIds) /\ ApicIds \subseteq Nat
<1>1. ApicIds \subseteq 0 .. 255
  BY SmpAssumption, Zenon
<1>2. 0 .. 255 \subseteq Nat
  OBVIOUS
<1>3. IsFiniteSet(0 .. 255)
  <2>1. 0 \in Int /\ 255 \in Int
    OBVIOUS
  <2> QED  BY <2>1, FS_Interval, Zenon
<1>4. IsFiniteSet(ApicIds)
  <2>1. ApicIds \in SUBSET (0 .. 255)
    BY <1>1, Zenon
  <2> QED  BY <1>3, <2>1, FS_Subset, Zenon
<1> QED  BY <1>1, <1>2, <1>4, ZenonT(60)

\* Adding a member to a set of IDs adds at most one to its size.
LEMMA OneMore ==
  ASSUME NEW S, S \in SUBSET ApicIds, NEW a \in ApicIds
  PROVE  /\ IsFiniteSet(S) /\ Cardinality(S) \in Nat /\ Cardinality(S \cup {a}) \in Nat
         /\ Cardinality(S \cup {a}) <= Cardinality(S) + 1
         /\ a \notin S => Cardinality(S \cup {a}) = Cardinality(S) + 1
<1>1. IsFiniteSet(S) /\ Cardinality(S) \in Nat
  BY IdsFinite, FS_Subset, FS_CardinalityType, Zenon
<1>2. CASE a \in S
  <2>1. S \cup {a} = S
    BY <1>2, Zenon
  <2>2. Cardinality(S) <= Cardinality(S) + 1
    BY <1>1
  <2> QED  BY <1>1, <1>2, <2>1, <2>2, Zenon
<1>3. CASE a \notin S
  <2>1. Cardinality(S \cup {a}) = Cardinality(S) + 1
    BY <1>1, <1>3, FS_AddElement, Zenon
  <2>2. \A n \in Nat : n + 1 \in Nat /\ n + 1 <= n + 1
    OBVIOUS
  <2> QED  BY <1>1, <2>1, <2>2, Zenon
<1> QED  BY <1>2, <1>3, Zenon

\* Removing one takes one from it.
LEMMA OneLess ==
  ASSUME NEW S, S \in SUBSET ApicIds, NEW a \in S
  PROVE  Cardinality(S) \in Nat /\ Cardinality(S \ {a}) \in Nat /\ Cardinality(S) = Cardinality(S \ {a}) + 1
<1>1. IsFiniteSet(S) /\ Cardinality(S) \in Nat
  BY IdsFinite, FS_Subset, FS_CardinalityType, Zenon
<1>2. IsFiniteSet(S \ {a}) /\ Cardinality(S \ {a}) = Cardinality(S) - 1
  BY <1>1, FS_RemoveElement, Zenon
<1>3. Cardinality(S \ {a}) \in Nat
  BY <1>2, FS_CardinalityType, Zenon
<1>4. \A m, n \in Nat : m = n - 1 => n = m + 1
  OBVIOUS
<1> QED  BY <1>1, <1>2, <1>3, <1>4, Zenon

LEMMA InitBoots ==
  ASSUME SmpInit
  PROVE  BootInv
<1> USE DEF SmpInit, Boot!Init
<1>1. madt \in Seq(ApicIds \cup {X2APIC}) /\ acpi_cpu_count = Len(madt)
  BY SmpAssumption, Zenon DEF Boot!acpi_scan_madt
<1>2. /\ Len(madt) \in Nat /\ \A i \in 1 .. Len(madt) : madt[i] \in ApicIds \cup {X2APIC}
      /\ ACPI_IDS \in Nat /\ 0 \in ApicIds /\ Behind \subseteq ApicIds
  <2>1. Len(madt) \in Nat /\ \A i \in 1 .. Len(madt) : madt[i] \in ApicIds \cup {X2APIC}
    BY <1>1
  <2> QED  BY <2>1, SmpAssumption, Zenon
<1>3. acpi_cpu_apic_ids = [i \in 0 .. ACPI_IDS - 1 |-> IF i < Len(madt) /\ madt[i + 1] # X2APIC THEN madt[i + 1] ELSE 0]
  BY Zenon DEF Boot!acpi_scan_madt
<1>4. ASSUME NEW i \in 0 .. ACPI_IDS - 1
      PROVE  acpi_cpu_apic_ids[i] \in ApicIds
  <2>1. i < Len(madt) => i + 1 \in 1 .. Len(madt)
    BY <1>2
  <2> QED  BY <1>2, <1>3, <2>1, Zenon
<1>5. \A i \in Nat : Boot!IdsAt(i) \subseteq ApicIds
  <2>1. \A i \in Nat : i < ACPI_IDS => i \in 0 .. ACPI_IDS - 1
    BY <1>2
  <2> QED  BY <1>2, <1>4, <2>1, Zenon DEF Boot!IdsAt
<1>6. ASSUME Boot!Listed, NEW i \in 0 .. acpi_cpu_count - 1
      PROVE  Boot!IdsAt(i) = {madt[i + 1]}
  <2>1. Boot!Len(madt) = Len(madt)
    BY Zenon DEF Boot!Len, Len
  <2>2. Len(madt) <= ACPI_IDS /\ \A j \in 1 .. Len(madt) : madt[j] # X2APIC
    BY <1>6, <2>1, Zenon DEF Boot!Listed
  <2>3. i < ACPI_IDS /\ i \in 0 .. ACPI_IDS - 1 /\ i < Len(madt) /\ i + 1 \in 1 .. Len(madt)
    BY <1>1, <1>2, <2>2
  <2> QED  BY <1>3, <2>2, <2>3, Zenon DEF Boot!IdsAt
<1>7. TableInv
  BY <1>1, <1>5, <1>6, Zenon DEF TableInv
<1>8. Boot!Started = {} /\ Trampoline = {}
  BY Zenon DEF Boot!Started, Trampoline
<1>9. Cardinality(Boot!Started) = 0 /\ Cardinality(Trampoline) = 0
  BY <1>8, FS_EmptySet, Zenon
<1>10. AwakeInv
  <2>1. 0 \in Nat /\ 0 < SMP_MAX_CPUS /\ 0 <= 0 /\ 0 + 0 <= 0
    BY SmpAssumption
  <2> QED  BY <1>8, <1>9, <2>1, Zenon DEF AwakeInv
<1>11. WalkInv
  BY Zenon DEF WalkInv
<1>12. PlaceInv
  BY <1>9, Zenon DEF PlaceInv
<1> QED  BY <1>7, <1>10, <1>11, <1>12, Zenon DEF BootInv

\* What the properties of the table are stated with.
LEMMA TableSame ==
  ASSUME UNCHANGED <<irq_mode_apic, madt, acpi_cpu_count, acpi_cpu_apic_ids, smp_bsp_apic_id>>
  PROVE  /\ Boot!Listed' = Boot!Listed /\ Boot!InPlace' = Boot!InPlace /\ Boot!Others' = Boot!Others
         /\ \A i \in Nat : Boot!IdsAt(i)' = Boot!IdsAt(i)
         /\ TableInv => TableInv'
<1>1. Boot!Listed' = Boot!Listed
  BY Zenon DEF Boot!Listed
<1>2. Boot!InPlace' = Boot!InPlace
  BY <1>1, Zenon DEF Boot!InPlace
<1>3. Boot!Others' = Boot!Others
  BY Zenon DEF Boot!Others
<1>4. \A i : Boot!IdsAt(i)' = Boot!IdsAt(i)
  BY Zenon DEF Boot!IdsAt
<1>5. TableInv => TableInv'
  BY <1>1, <1>4, Zenon DEF TableInv
<1> QED  BY <1>1, <1>2, <1>3, <1>4, <1>5, Zenon

LEMMA OthersAreIds ==
  ASSUME TableInv
  PROVE  Boot!Others \subseteq ApicIds
<1>1. madt \in Seq(ApicIds \cup {X2APIC})
  BY SmpAssumption, Zenon DEF TableInv
<1>2. \A i \in 1 .. Len(madt) : madt[i] \in ApicIds \cup {X2APIC}
  BY <1>1
<1>3. Boot!Len(madt) = Len(madt)
  BY Zenon DEF Boot!Len, Len
<1> QED  BY <1>2, <1>3, Zenon DEF Boot!Others

\* In place, the walk meets each other processor where its ID says.
LEMMA PlaceOfOther ==
  ASSUME TableInv, Boot!InPlace
  PROVE  /\ Boot!Listed /\ acpi_cpu_count \in Nat
         /\ \A i \in 0 .. acpi_cpu_count - 1 : madt[i + 1] = i \/ madt[i + 1] = smp_bsp_apic_id
         /\ \A a \in ApicIds : a \in Boot!Others <=> a < acpi_cpu_count /\ madt[a + 1] = a /\ a # smp_bsp_apic_id
<1>1. Boot!Len(madt) = Len(madt)
  BY Zenon DEF Boot!Len, Len
<1>2. madt \in Seq(ApicIds \cup {X2APIC}) /\ acpi_cpu_count = Len(madt)
  BY SmpAssumption, Zenon DEF TableInv
<1>3. acpi_cpu_count \in Nat
  BY <1>2
<1>4. Boot!Listed /\ \A i \in 1 .. acpi_cpu_count : madt[i] = i - 1 \/ madt[i] = smp_bsp_apic_id
  BY <1>1, <1>2, Zenon DEF Boot!InPlace
<1>5. ASSUME NEW i \in 0 .. acpi_cpu_count - 1
      PROVE  madt[i + 1] = i \/ madt[i + 1] = smp_bsp_apic_id
  <2>1. i + 1 \in 1 .. acpi_cpu_count /\ i + 1 - 1 = i
    BY <1>3
  <2> QED  BY <1>4, <2>1
<1>6. \A i \in 1 .. acpi_cpu_count : madt[i] # X2APIC
  BY <1>1, <1>2, <1>4, Zenon DEF Boot!Listed
<1>7. ASSUME NEW a \in ApicIds, a \in Boot!Others
      PROVE  a < acpi_cpu_count /\ madt[a + 1] = a /\ a # smp_bsp_apic_id
  <2>1. PICK i \in 1 .. acpi_cpu_count : a = madt[i]
    BY <1>1, <1>2, <1>7, Zenon DEF Boot!Others
  <2>2. a # smp_bsp_apic_id
    BY <1>7, Zenon DEF Boot!Others
  <2>3. a = i - 1
    BY <1>4, <2>1, <2>2, Zenon
  <2>4. a < acpi_cpu_count /\ a + 1 = i
    BY <1>3, <2>3
  <2> QED  BY <2>1, <2>2, <2>4, Zenon
<1>8. ASSUME NEW a \in ApicIds, a < acpi_cpu_count, madt[a + 1] = a, a # smp_bsp_apic_id
      PROVE  a \in Boot!Others
  <2>1. a + 1 \in 1 .. acpi_cpu_count
    BY <1>3, <1>8, IdsFinite
  <2>2. a # X2APIC
    BY SmpAssumption, Zenon
  <2> QED  BY <1>1, <1>2, <1>8, <2>1, <2>2, Zenon DEF Boot!Others
<1> QED  BY <1>3, <1>4, <1>5, <1>7, <1>8, Zenon

\* A start-up is sent to the processor whose ID the walk has read.
LEMMA WakeBoots ==
  ASSUME BootInv, Boot!Wake
  PROVE  BootInv'
<1>1. TableInv /\ AwakeInv /\ WalkInv /\ PlaceInv
  BY Zenon DEF BootInv
<1>2. PICK id \in Boot!IdsAt(bootebx) :
        /\ id # smp_bsp_apic_id
        /\ started' = [started EXCEPT ![id] = @ + 1] /\ ap' = [ap EXCEPT ![id] = "trampoline"]
        /\ bootebx' = id + 1
  BY Zenon DEF Boot!Wake, Boot!IsSelf
<1>3. /\ bootpc = "loop" /\ bootebx < acpi_cpu_count /\ smp_ap_expected < SMP_MAX_CPUS - 1
      /\ smp_ap_expected' = smp_ap_expected + 1 /\ smp_ap_online' = smp_ap_online /\ bootpc' = bootpc
      /\ UNCHANGED <<irq_mode_apic, madt, acpi_cpu_count, acpi_cpu_apic_ids, smp_bsp_apic_id>>
  BY Zenon DEF Boot!Wake, Boot!Room, Boot!table
<1>4. bootebx \in Nat /\ id \in ApicIds /\ id \in Nat
  BY <1>1, IdsFinite, Zenon DEF WalkInv, TableInv
<1>5. /\ Boot!Listed' = Boot!Listed /\ Boot!InPlace' = Boot!InPlace /\ Boot!Others' = Boot!Others
      /\ TableInv'
  BY <1>1, <1>3, TableSame, Zenon
<1>6. started \in [ApicIds -> Nat] /\ started[id] \in Nat /\ started[id] + 1 # 0 /\ started[id] + 1 \in Nat
  <2>1. started \in [ApicIds -> Nat]
    BY <1>1, Zenon DEF AwakeInv
  <2>2. started[id] \in Nat
    BY <1>4, <2>1, Zenon
  <2> QED  BY <2>1, <2>2
<1>7. started' \in [ApicIds -> Nat] /\ started'[id] = started[id] + 1 /\ \A a \in ApicIds : a # id => started'[a] = started[a]
  BY <1>2, <1>4, <1>6, Zenon
<1>8. Boot!Started' = Boot!Started \cup {id} /\ Boot!Started \in SUBSET ApicIds
  BY <1>4, <1>6, <1>7, Zenon DEF Boot!Started
<1>9. Trampoline' = Trampoline \cup {id} /\ Trampoline \in SUBSET ApicIds
  BY <1>1, <1>2, <1>4, Zenon DEF AwakeInv, Trampoline
<1>10. /\ Cardinality(Boot!Started) \in Nat /\ Cardinality(Boot!Started') \in Nat
       /\ Cardinality(Boot!Started') <= Cardinality(Boot!Started) + 1
       /\ id \notin Boot!Started => Cardinality(Boot!Started') = Cardinality(Boot!Started) + 1
  BY <1>4, <1>8, OneMore, Zenon
<1>11. /\ Cardinality(Trampoline) \in Nat /\ Cardinality(Trampoline') \in Nat
       /\ Cardinality(Trampoline') <= Cardinality(Trampoline) + 1
  BY <1>4, <1>9, OneMore, Zenon
<1>12. AwakeInv'
  <2>1. /\ smp_ap_expected \in Nat /\ smp_ap_online \in Nat
        /\ Cardinality(Boot!Started) <= smp_ap_expected
        /\ smp_ap_online + Cardinality(Trampoline) <= smp_ap_expected
    BY <1>1, Zenon DEF AwakeInv
  <2>2. smp_ap_expected' \in Nat /\ smp_ap_expected' < SMP_MAX_CPUS
    BY <1>3, <2>1, SmpAssumption
  <2>3. Cardinality(Boot!Started') <= smp_ap_expected'
    BY <1>3, <1>10, <2>1
  <2>4. smp_ap_online' + Cardinality(Trampoline') <= smp_ap_expected'
    BY <1>3, <1>11, <2>1
  <2>5. started'[smp_bsp_apic_id'] = 0
    <3>1. smp_bsp_apic_id \in ApicIds /\ started[smp_bsp_apic_id] = 0
      BY <1>1, Zenon DEF AwakeInv, TableInv
    <3> QED  BY <1>2, <1>3, <1>7, <3>1, Zenon
  <2>6. Boot!Listed => id \in Boot!Others
    <3> SUFFICES ASSUME Boot!Listed PROVE id \in Boot!Others
      BY Zenon
    <3>1. acpi_cpu_count = Len(madt) /\ madt \in Seq(ApicIds \cup {X2APIC})
      BY <1>1, SmpAssumption, Zenon DEF TableInv
    <3>2. bootebx \in 0 .. acpi_cpu_count - 1 /\ bootebx + 1 \in 1 .. Len(madt)
      BY <1>3, <1>4, <3>1
    <3>3. id = madt[bootebx + 1]
      BY <1>1, <1>2, <3>2, Zenon DEF TableInv
    <3>4. id # X2APIC
      BY <1>4, SmpAssumption, Zenon
    <3>5. Boot!Len(madt) = Len(madt)
      BY Zenon DEF Boot!Len, Len
    <3> QED  BY <1>2, <3>2, <3>3, <3>4, <3>5, Zenon DEF Boot!Others
  <2>7. Boot!Listed' => Boot!Started' \subseteq Boot!Others'
    BY <1>1, <1>5, <1>8, <2>6, Zenon DEF AwakeInv
  <2>8. ap' \in [ApicIds -> {"off", "trampoline", "stress", "idle"}]
    BY <1>1, <1>2, Zenon DEF AwakeInv
  <2>9. smp_ap_online' \in Nat
    BY <1>3, <2>1, Zenon
  <2> QED  BY <1>7, <2>2, <2>3, <2>4, <2>5, <2>7, <2>8, <2>9, Zenon DEF AwakeInv
<1>13. WalkInv'
  <2>1. bootebx' \in Nat
    BY <1>2, <1>4
  <2> QED  BY <1>3, <2>1, Zenon DEF WalkInv
<1>14. PlaceInv'
  <2> SUFFICES ASSUME Boot!InPlace
               PROVE  /\ \A a \in ApicIds : started'[a] \in {0, 1}
                      /\ smp_ap_expected' = Cardinality(Boot!Started')
                      /\ bootebx' <= acpi_cpu_count'
                      /\ \A a \in ApicIds : started'[a] = 1 <=> a \in Boot!Others' /\ a < bootebx'
    BY <1>3, <1>5, Zenon DEF PlaceInv
  <2>1. /\ Boot!Listed /\ acpi_cpu_count \in Nat
        /\ \A i \in 0 .. acpi_cpu_count - 1 : madt[i + 1] = i \/ madt[i + 1] = smp_bsp_apic_id
        /\ \A a \in ApicIds : a \in Boot!Others <=> a < acpi_cpu_count /\ madt[a + 1] = a /\ a # smp_bsp_apic_id
    BY <1>1, PlaceOfOther, Zenon
  <2>2. bootebx \in 0 .. acpi_cpu_count - 1
    BY <1>3, <1>4, <2>1
  <2>3. id = bootebx /\ madt[id + 1] = id
    BY <1>1, <1>2, <2>1, <2>2, ZenonT(30) DEF TableInv
  <2>4. id \in Boot!Others
    BY <1>2, <1>3, <1>4, <2>1, <2>3, Zenon
  <2>5. /\ \A a \in ApicIds : started[a] \in {0, 1}
        /\ smp_ap_expected = Cardinality(Boot!Started)
        /\ \A a \in ApicIds : started[a] = 1 <=> a \in Boot!Others /\ a < bootebx
    BY <1>1, <1>3, Zenon DEF PlaceInv
  <2>6. ~(id < bootebx) /\ started[id] = 0 /\ 0 + 1 = 1
    <3>1. ~(id < bootebx)
      BY <1>4, <2>3
    <3> QED  BY <1>4, <2>5, <3>1
  <2>7. started'[id] = 1 /\ id \notin Boot!Started
    BY <1>7, <2>6, Zenon DEF Boot!Started
  <2>8. \A a \in ApicIds : started'[a] \in {0, 1}
    BY <1>7, <2>5, <2>7, Zenon
  <2>9. smp_ap_expected' = Cardinality(Boot!Started')
    BY <1>3, <1>10, <2>5, <2>7, Zenon
  <2>10. bootebx' <= acpi_cpu_count'
    BY <1>2, <1>3, <1>4, <2>1, <2>3
  <2>11. \A a \in ApicIds : a < id + 1 <=> a < id \/ a = id
    BY <1>4, IdsFinite
  <2>12. \A a \in ApicIds : started'[a] = 1 <=> a \in Boot!Others' /\ a < bootebx'
    BY <1>2, <1>5, <1>7, <2>3, <2>4, <2>5, <2>7, <2>11, Zenon
  <2> QED  BY <2>8, <2>9, <2>10, <2>12, Zenon
<1> QED  BY <1>5, <1>12, <1>13, <1>14, Zenon DEF BootInv

\* The steps of the walk and the wait that start nobody.
LEMMA WalkBoots ==
  ASSUME BootInv, Boot!Entry \/ Boot!Skip \/ Boot!EndLoop \/ Boot!Poll \/ Boot!Report
  PROVE  BootInv'
<1>1. TableInv /\ AwakeInv /\ WalkInv /\ PlaceInv
  BY Zenon DEF BootInv
<1>2. /\ UNCHANGED <<irq_mode_apic, madt, acpi_cpu_count, acpi_cpu_apic_ids, smp_bsp_apic_id>>
      /\ UNCHANGED <<smp_ap_expected, smp_ap_online, ap, started>>
  BY Zenon DEF Boot!Entry, Boot!Skip, Boot!EndLoop, Boot!Poll, Boot!Report, Boot!table, Boot!counts
<1>3. /\ Boot!Listed' = Boot!Listed /\ Boot!InPlace' = Boot!InPlace /\ Boot!Others' = Boot!Others
      /\ TableInv'
  BY <1>1, <1>2, TableSame, Zenon
<1>4. Boot!Started' = Boot!Started /\ Trampoline' = Trampoline
  BY <1>2, Zenon DEF Boot!Started, Trampoline
<1>5. AwakeInv'
  BY <1>1, <1>2, <1>3, <1>4, ZenonT(30) DEF AwakeInv
<1>6. acpi_cpu_count \in Nat
  <2>1. acpi_cpu_count = Len(madt) /\ madt \in Seq(ApicIds \cup {X2APIC})
    BY <1>1, SmpAssumption, Zenon DEF TableInv
  <2> QED  BY <2>1
<1>7. bootebx \in Nat /\ smp_ap_expected \in Nat /\ smp_ap_online \in Nat
  BY <1>1, Zenon DEF WalkInv, AwakeInv
<1>8. CASE Boot!Entry
  <2>1. /\ bootpc = "entry" /\ bootebx' = bootebx
        /\ bootpc' = IF ~irq_mode_apic \/ acpi_cpu_count <= 1 THEN "report" ELSE "loop"
    BY <1>8, Zenon DEF Boot!Entry
  <2>2. bootebx = 0 /\ \A a \in ApicIds : started[a] = 0
    BY <1>1, <2>1, Zenon DEF WalkInv
  <2>3. WalkInv'
    BY <1>7, <2>1, Zenon DEF WalkInv
  <2>4. 0 <= acpi_cpu_count /\ \A a \in ApicIds : ~(a < 0) /\ started[a] # 1
    <3>1. \A a \in Nat : ~(a < 0)
      OBVIOUS
    <3>2. 0 <= acpi_cpu_count /\ 0 # 1
      BY <1>6
    <3> QED  BY <2>2, <3>1, <3>2, IdsFinite, Zenon
  <2>5. PlaceInv'
    BY <1>1, <1>2, <1>3, <1>4, <2>1, <2>2, <2>4, ZenonT(30) DEF PlaceInv
  <2> QED  BY <1>3, <1>5, <2>3, <2>5, Zenon DEF BootInv
<1>9. CASE Boot!Skip
  <2>1. /\ bootpc = "loop" /\ bootpc' = "loop" /\ bootebx < acpi_cpu_count /\ bootebx' = bootebx + 1
        /\ smp_bsp_apic_id \in Boot!IdsAt(bootebx)
    BY <1>9, Zenon DEF Boot!Skip, Boot!IsSelf
  <2>2. WalkInv'
    <3>1. bootebx' \in Nat
      BY <1>7, <2>1
    <3> QED  BY <2>1, <3>1, Zenon DEF WalkInv
  <2>3. PlaceInv'
    <3> SUFFICES ASSUME Boot!InPlace
                 PROVE  /\ bootebx' <= acpi_cpu_count'
                        /\ \A a \in ApicIds : started'[a] = 1 <=> a \in Boot!Others' /\ a < bootebx'
      BY <1>1, <1>2, <1>3, <1>4, <2>1, ZenonT(30) DEF PlaceInv
    <3>1. /\ Boot!Listed
          /\ \A a \in ApicIds : a \in Boot!Others <=> a < acpi_cpu_count /\ madt[a + 1] = a /\ a # smp_bsp_apic_id
      BY <1>1, PlaceOfOther, Zenon
    <3>2. bootebx' <= acpi_cpu_count' /\ bootebx \in 0 .. acpi_cpu_count - 1
      BY <1>2, <1>6, <1>7, <2>1
    <3>3. smp_bsp_apic_id = madt[bootebx + 1]
      BY <1>1, <2>1, <3>1, <3>2, Zenon DEF TableInv
    <3>4. bootebx \notin Boot!Others \/ bootebx \notin ApicIds
      BY <3>1, <3>3, Zenon
    <3>5. \A a \in ApicIds : a < bootebx + 1 <=> a < bootebx \/ a = bootebx
      BY <1>7, IdsFinite
    <3>6. \A a \in ApicIds : started[a] = 1 <=> a \in Boot!Others /\ a < bootebx
      BY <1>1, <2>1, Zenon DEF PlaceInv
    <3> QED  BY <1>2, <1>3, <2>1, <3>2, <3>4, <3>5, <3>6, ZenonT(30)
  <2> QED  BY <1>3, <1>5, <2>2, <2>3, Zenon DEF BootInv
<1>10. CASE Boot!EndLoop
  <2>1. /\ bootpc = "loop" /\ bootpc' = "wait" /\ bootebx' = bootebx
        /\ bootebx >= acpi_cpu_count \/ ~(smp_ap_expected < SMP_MAX_CPUS - 1)
    BY <1>10, Zenon DEF Boot!EndLoop, Boot!Room
  <2>2. WalkInv'
    BY <1>7, <2>1, Zenon DEF WalkInv
  <2>3. PlaceInv'
    <3> SUFFICES ASSUME Boot!InPlace
                 PROVE  Boot!Others \subseteq Boot!Started \/ smp_ap_expected = SMP_MAX_CPUS - 1
      BY <1>1, <1>2, <1>3, <1>4, <2>1, ZenonT(30) DEF PlaceInv
    <3>1. \A a \in ApicIds : started[a] = 1 <=> a \in Boot!Others /\ a < bootebx
      BY <1>1, <2>1, Zenon DEF PlaceInv
    <3>2. CASE bootebx >= acpi_cpu_count
      <4>1. \A a \in ApicIds : a \in Boot!Others => a < acpi_cpu_count
        BY <1>1, PlaceOfOther, Zenon
      <4>2. \A a \in ApicIds : a < acpi_cpu_count => a < bootebx
        BY <1>6, <1>7, <3>2, IdsFinite
      <4>3. Boot!Others \subseteq ApicIds
        BY <1>1, OthersAreIds, Zenon
      <4>4. 1 # 0
        OBVIOUS
      <4> QED  BY <3>1, <4>1, <4>2, <4>3, <4>4, Zenon DEF Boot!Started
    <3>3. CASE ~(smp_ap_expected < SMP_MAX_CPUS - 1)
      <4>1. smp_ap_expected < SMP_MAX_CPUS
        BY <1>1, Zenon DEF AwakeInv
      <4> QED  BY <1>7, <3>3, <4>1, SmpAssumption
    <3> QED  BY <2>1, <3>2, <3>3, Zenon
  <2> QED  BY <1>3, <1>5, <2>2, <2>3, Zenon DEF BootInv
<1>11. CASE Boot!Poll
  <2>1. bootpc = "wait" /\ bootpc' \in {"wait", "report"} /\ bootebx' = bootebx
    BY <1>11, Zenon DEF Boot!Poll
  <2>2. WalkInv'
    BY <1>7, <2>1, Zenon DEF WalkInv
  <2>3. PlaceInv'
    BY <1>1, <1>2, <1>3, <1>4, <2>1, ZenonT(30) DEF PlaceInv
  <2> QED  BY <1>3, <1>5, <2>2, <2>3, Zenon DEF BootInv
<1>12. CASE Boot!Report
  <2>1. bootpc = "report" /\ bootpc' = "done" /\ bootebx' = smp_ap_online + 1
    BY <1>12, Zenon DEF Boot!Report
  <2>2. bootebx' \in Nat /\ bootebx' >= 1 /\ bootebx' <= smp_ap_expected' + 1
    <3>1. smp_ap_online + Cardinality(Trampoline) <= smp_ap_expected
      BY <1>1, Zenon DEF AwakeInv
    <3>2. Cardinality(Trampoline) \in Nat
      BY IdsFinite, FS_Subset, FS_CardinalityType, Zenon DEF Trampoline
    <3> QED  BY <1>2, <1>7, <2>1, <3>1, <3>2
  <2>3. WalkInv'
    BY <2>1, <2>2, Zenon DEF WalkInv
  <2>4. PlaceInv'
    BY <1>1, <1>2, <1>3, <1>4, <2>1, ZenonT(30) DEF PlaceInv
  <2> QED  BY <1>3, <1>5, <2>3, <2>4, Zenon DEF BootInv
<1> QED  BY <1>8, <1>9, <1>10, <1>11, <1>12, Zenon

\* A processor that was started answers, once for each start-up.
LEMMA ApBoots ==
  ASSUME BootInv, NEW a \in ApicIds, Boot!Online(a) \/ Boot!WorkDone(a)
  PROVE  BootInv'
<1>1. TableInv /\ AwakeInv /\ WalkInv /\ PlaceInv
  BY Zenon DEF BootInv
<1>2. /\ UNCHANGED <<irq_mode_apic, madt, acpi_cpu_count, acpi_cpu_apic_ids, smp_bsp_apic_id>>
      /\ UNCHANGED <<smp_ap_expected, started, bootebx, bootpc>>
  BY Zenon DEF Boot!Online, Boot!WorkDone, Boot!table
<1>3. /\ Boot!Listed' = Boot!Listed /\ Boot!InPlace' = Boot!InPlace /\ Boot!Others' = Boot!Others
      /\ TableInv'
  BY <1>1, <1>2, TableSame, Zenon
<1>4. Boot!Started' = Boot!Started
  BY <1>2, Zenon DEF Boot!Started
<1>5. WalkInv' /\ PlaceInv'
  BY <1>1, <1>2, <1>3, <1>4, ZenonT(30) DEF WalkInv, PlaceInv
<1>6. smp_ap_online \in Nat /\ smp_ap_expected \in Nat /\ smp_ap_online + Cardinality(Trampoline) <= smp_ap_expected
  BY <1>1, Zenon DEF AwakeInv
<1>7. /\ ap' \in [ApicIds -> {"off", "trampoline", "stress", "idle"}]
      /\ smp_ap_online' \in Nat /\ smp_ap_online' + Cardinality(Trampoline') <= smp_ap_expected
  <2>1. CASE Boot!Online(a)
    <3>1. ap[a] = "trampoline" /\ ap' = [ap EXCEPT ![a] = "stress"] /\ smp_ap_online' = smp_ap_online + 1
      BY <2>1, Zenon DEF Boot!Online
    <3>2. ap' \in [ApicIds -> {"off", "trampoline", "stress", "idle"}]
      BY <1>1, <3>1, Zenon DEF AwakeInv
    <3>3. Trampoline' = Trampoline \ {a} /\ a \in Trampoline /\ Trampoline \in SUBSET ApicIds
      BY <1>1, <3>1, Zenon DEF AwakeInv, Trampoline
    <3>4. /\ Cardinality(Trampoline) \in Nat /\ Cardinality(Trampoline') \in Nat
          /\ Cardinality(Trampoline) = Cardinality(Trampoline') + 1
      BY <3>3, OneLess, Zenon
    <3>5. smp_ap_online' \in Nat /\ smp_ap_online' + Cardinality(Trampoline') <= smp_ap_expected
      BY <1>6, <3>1, <3>4
    <3> QED  BY <3>2, <3>5, Zenon
  <2>2. CASE Boot!WorkDone(a)
    <3>1. ap[a] = "stress" /\ ap' = [ap EXCEPT ![a] = "idle"] /\ smp_ap_online' = smp_ap_online
      BY <2>2, Zenon DEF Boot!WorkDone
    <3>2. ap' \in [ApicIds -> {"off", "trampoline", "stress", "idle"}]
      BY <1>1, <3>1, Zenon DEF AwakeInv
    <3>3. Trampoline' = Trampoline
      BY <1>1, <3>1, Zenon DEF AwakeInv, Trampoline
    <3> QED  BY <1>6, <3>1, <3>2, <3>3, Zenon
  <2> QED  BY <2>1, <2>2, Zenon
<1>8. AwakeInv'
  BY <1>1, <1>2, <1>3, <1>4, <1>7, ZenonT(30) DEF AwakeInv
<1> QED  BY <1>3, <1>5, <1>8, Zenon DEF BootInv

LEMMA StutterBoots ==
  ASSUME BootInv, UNCHANGED bootVars
  PROVE  BootInv'
<1>1. TableInv /\ AwakeInv /\ WalkInv /\ PlaceInv
  BY Zenon DEF BootInv
<1>2. /\ UNCHANGED <<irq_mode_apic, madt, acpi_cpu_count, acpi_cpu_apic_ids, smp_bsp_apic_id>>
      /\ UNCHANGED <<smp_ap_expected, smp_ap_online, started, ap, bootebx, bootpc>>
  BY Zenon DEF bootVars
<1>3. /\ Boot!Listed' = Boot!Listed /\ Boot!InPlace' = Boot!InPlace /\ Boot!Others' = Boot!Others
      /\ TableInv'
  BY <1>1, <1>2, TableSame, Zenon
<1>4. Boot!Started' = Boot!Started /\ Trampoline' = Trampoline
  BY <1>2, Zenon DEF Boot!Started, Trampoline
<1>5. WalkInv' /\ PlaceInv'
  BY <1>1, <1>2, <1>3, <1>4, ZenonT(30) DEF WalkInv, PlaceInv
<1>6. AwakeInv'
  BY <1>1, <1>2, <1>3, <1>4, ZenonT(30) DEF AwakeInv
<1> QED  BY <1>3, <1>5, <1>6, Zenon DEF BootInv

(***************************************************************************)
(* Whatever processors the firmware lists, in whatever order and with      *)
(* whatever IDs, smp_start_aps never restarts its own processor, sends no  *)
(* more start-ups than there are slots for, and counts no more arrivals    *)
(* than it sent start-ups.  When each other processor's ID is its place in *)
(* the list, every one of them is started exactly once as long as there    *)
(* are slots.                                                              *)
(***************************************************************************)
THEOREM BootCorrect == SmpSpec => []EveryOtherStarted
<1>1. SmpInit => BootInv
  BY InitBoots, Zenon
<1>2. BootInv /\ [SmpNext]_allVars => BootInv'
  <2> SUFFICES ASSUME BootInv, [SmpNext]_allVars PROVE BootInv'
    BY Zenon
  <2>1. CASE Boot!BspStep
    BY <2>1, WakeBoots, WalkBoots, Zenon DEF Boot!BspStep
  <2>2. CASE Boot!ApStep
    BY <2>2, ApBoots, Zenon DEF Boot!ApStep
  <2>3. CASE UNCHANGED bootVars
    BY <2>3, StutterBoots, Zenon
  <2> QED  BY <2>1, <2>2, <2>3, Zenon DEF SmpNext, Starts, Comes, Enters, Stresses, Works, Pokes, allVars
<1>3. BootInv => EveryOtherStarted
  <2> SUFFICES ASSUME BootInv PROVE EveryOtherStarted
    BY Zenon
  <2>1. AwakeInv /\ WalkInv /\ PlaceInv
    BY Zenon DEF BootInv
  <2>2. smp_ap_expected \in Nat /\ smp_ap_online \in Nat /\ smp_ap_expected < SMP_MAX_CPUS /\ bootebx \in Nat
    BY <2>1, Zenon DEF AwakeInv, WalkInv
  <2>3. smp_ap_online <= smp_ap_expected
    <3>1. Cardinality(Trampoline) \in Nat
      BY IdsFinite, FS_Subset, FS_CardinalityType, Zenon DEF Trampoline
    <3>2. smp_ap_online + Cardinality(Trampoline) <= smp_ap_expected
      BY <2>1, Zenon DEF AwakeInv
    <3> QED  BY <2>2, <3>1, <3>2
  <2>4. bootpc = "done" => bootebx \in 1 .. SMP_MAX_CPUS
    <3>1. bootpc = "done" => bootebx >= 1 /\ bootebx <= smp_ap_expected + 1
      BY <2>1, Zenon DEF WalkInv
    <3> QED  BY <2>2, <3>1, SmpAssumption
  <2>5. Boot!Cardinality(Boot!Started) = Cardinality(Boot!Started)
    BY SameCardinality, Zenon
  <2>6. ASSUME Boot!InPlace, irq_mode_apic, bootpc \in {"wait", "report", "done"}
        PROVE  /\ \A a \in Boot!Others : started[a] <= 1
               /\ \/ acpi_cpu_count <= 1 \/ Boot!Others \subseteq Boot!Started
                  \/ smp_ap_expected = SMP_MAX_CPUS - 1
               /\ bootpc = "done" => bootebx <= 1 + Cardinality(Boot!Started)
    <3>1. /\ \A a \in ApicIds : started[a] \in {0, 1}
          /\ smp_ap_expected = Cardinality(Boot!Started)
          /\ \/ acpi_cpu_count <= 1 \/ Boot!Others \subseteq Boot!Started
             \/ smp_ap_expected = SMP_MAX_CPUS - 1
      BY <2>1, <2>6, Zenon DEF PlaceInv
    <3>2. Boot!Others \subseteq ApicIds
      BY OthersAreIds, Zenon DEF BootInv
    <3>3. \A a \in Boot!Others : started[a] <= 1
      <4>1. 0 <= 1 /\ 1 <= 1
        OBVIOUS
      <4> QED  BY <3>1, <3>2, <4>1, Zenon
    <3>4. bootpc = "done" => bootebx <= 1 + Cardinality(Boot!Started)
      <4>1. bootpc = "done" => bootebx <= smp_ap_expected + 1
        BY <2>1, Zenon DEF WalkInv
      <4> QED  BY <2>2, <3>1, <4>1
    <3> QED  BY <3>1, <3>3, <3>4, Zenon
  <2> QED  BY <2>1, <2>2, <2>3, <2>4, <2>5, <2>6, ZenonT(30) DEF AwakeInv, EveryOtherStarted, Boot!EveryOtherStarted
<1> QED  BY <1>1, <1>2, <1>3, PTL DEF SmpSpec

-----------------------------------------------------------------------------
(* The job ring *)

WorkLock == "smp_work_lock"

\* Between spin_lock and spin_unlock.
Inside == {"push_test", "push_put", "push_unlock", "push_refuse", "pop_read", "pop_take", "pop_unlock"}

\* A push on its way holds its job in EBX.
Carrying == {"push_lock", "push_test", "push_put"}

\* The idle loop from its cli to its sti.
Masked == {"pop_lock", "pop_read", "pop_take", "pop_unlock", "test", "idle", "sti_hlt"}

\* p has seen the ring empty and will not look again before an interrupt.
Asleep(p) ==
  \/ pc[p] \in {"pop_unlock", "test"} /\ ebx[p] = 0
  \/ pc[p] \in {"idle", "sti_hlt", "hlt"}

\* The places of smp_spread_stress, smp_work_push, smp_ap_idle and smp_work_pop.
Places ==
  {"base", "push", "push_lock", "push_test", "push_put", "push_unlock", "push_refuse", "refused",
   "ipi", "wait", "out"}
    \cup {"boot", "cli", "pop_lock", "pop_read", "pop_take", "pop_unlock", "test", "job", "finished",
          "idle", "sti_hlt", "hlt", "woken"}

Types ==
  /\ holder \in [{WorkLock} -> Cpus \cup {NoCpu}]
  /\ ring \in [Index -> Nat] /\ head \in Index /\ tail \in Index /\ count \in 0 .. SMP_WORK_MAX
  /\ ipi \in [Aps -> BOOLEAN] /\ iflag \in [Aps -> BOOLEAN]
  /\ pc \in [Cpus -> Places] /\ eax \in [Cpus -> Nat] /\ ebx \in [Cpus -> Nat]
  /\ pushed \in Nat /\ taken \in Seq(Nat)

\* Whoever is between spin_lock and spin_unlock holds the lock.
Excludes == \A c \in Cpus : pc[c] \in Inside => holder[WorkLock] = c

\* head is where the count of jobs from tail ends, and each of those is a job.
Window ==
  /\ head = At(count + 1)
  /\ \A i \in 1 .. count : ring[At(i)] \in Jobs

\* What a push and a pop have read under the lock is still so.
Reads ==
  /\ pc[Bsp] \in Carrying => ebx[Bsp] \in Jobs
  /\ pc[Bsp] = "push_put" => count < SMP_WORK_MAX
  /\ \A p \in Aps : pc[p] = "pop_take" => eax[p] = tail /\ ebx[p] = ring[tail] /\ count > 0

\* Interrupts wait from the cli to the sti.
Quiet == \A p \in Aps : pc[p] \in Masked => ~iflag[p]

\* A processor that has seen the ring empty, with work in it, has its wake-up
\* pending, or the pusher has yet to send it.
WakeupDue ==
  \A p \in Aps : Asleep(p) /\ ~ipi[p] /\ count > 0 => pc[Bsp] \in {"push_unlock", "ipi"}

Inv == Types /\ Excludes /\ Window /\ Reads /\ Quiet /\ WakeupDue

-----------------------------------------------------------------------------
(* smp_spread_stress and smp_work_push *)

\* The baseline of the count is taken: the ring is not touched.
LEMMA BaselineKeeps ==
  ASSUME Inv, Baseline
  PROVE  Inv'
<1> USE WorkAssumption DEF Cpus, WorkLock
<1>1. Types /\ Excludes /\ Window /\ Reads /\ Quiet /\ WakeupDue
  BY Zenon DEF Inv
<1>2. Types'
  BY <1>1, Zenon DEF Types, Places, Baseline, Goto, ringVars, queueVars, countVars, irqVars, bspVars
<1>3. Excludes'
  BY <1>1, Zenon DEF Types, Excludes, Inside, Baseline, Goto, ringVars, queueVars, countVars, irqVars, bspVars
<1>4. Window'
  BY <1>1, Zenon DEF Types, Window, At, Jobs, Baseline, Goto, ringVars, queueVars, countVars, irqVars, bspVars
<1>5. Reads'
  BY <1>1, Zenon DEF Types, Excludes, Inside, Reads, Carrying, Baseline, Goto, ringVars, queueVars, countVars, irqVars, bspVars
<1>6. Quiet'
  BY <1>1, Zenon DEF Types, Quiet, Masked, Baseline, Goto, ringVars, queueVars, countVars, irqVars, bspVars
<1>7. WakeupDue'
  BY <1>1, ZenonT(60) DEF Types, WakeupDue, Asleep, Baseline, Goto, ringVars, queueVars, countVars, irqVars, bspVars
<1> QED  BY <1>2, <1>3, <1>4, <1>5, <1>6, <1>7, Zenon DEF Inv

\* The next job is one of those asked for.
LEMMA PushNextKeeps ==
  ASSUME Inv, PushNext
  PROVE  Inv'
<1> USE WorkAssumption DEF Cpus, WorkLock
<1>1. Types /\ Excludes /\ Window /\ Reads /\ Quiet /\ WakeupDue
  BY Zenon DEF Inv
<1>2. Types'
  BY <1>1 DEF Types, Places, PushNext, Goto, ringVars, queueVars, countVars, irqVars, bspVars, Set
<1>3. Excludes'
  BY <1>1, Zenon DEF Types, Excludes, Inside, PushNext, Goto, ringVars, queueVars, countVars, irqVars, bspVars, Set
<1>4. Window'
  BY <1>1, Zenon DEF Types, Window, At, Jobs, PushNext, Goto, ringVars, queueVars, countVars, irqVars, bspVars, Set
<1>5. Reads'
  BY <1>1 DEF Types, Excludes, Inside, Reads, Carrying, Jobs, PushNext, Goto, ringVars, queueVars, countVars, irqVars, bspVars, Set
<1>6. Quiet'
  BY <1>1, Zenon DEF Types, Quiet, Masked, PushNext, Goto, ringVars, queueVars, countVars, irqVars, bspVars, Set
<1>7. WakeupDue'
  BY <1>1, ZenonT(60) DEF Types, WakeupDue, Asleep, PushNext, Goto, ringVars, queueVars, countVars, irqVars, bspVars, Set
<1> QED  BY <1>2, <1>3, <1>4, <1>5, <1>6, <1>7, Zenon DEF Inv

\* smp_work_push takes the lock only when nobody has it.
LEMMA PushLockKeeps ==
  ASSUME Inv, PushLock
  PROVE  Inv'
<1> USE WorkAssumption DEF Cpus, WorkLock
<1>1. Types /\ Excludes /\ Window /\ Reads /\ Quiet /\ WakeupDue
  BY Zenon DEF Inv
<1>2. Types'
  BY <1>1, Zenon DEF Types, Places, PushLock, Goto, ringVars, queueVars, countVars, irqVars, bspVars, Acquire, Lock!Acquire
<1>3. Excludes'
  BY <1>1, Zenon DEF Types, Excludes, Inside, PushLock, Goto, ringVars, queueVars, countVars, irqVars, bspVars, Acquire, Lock!Acquire
<1>4. Window'
  BY <1>1, Zenon DEF Types, Window, At, Jobs, PushLock, Goto, ringVars, queueVars, countVars, irqVars, bspVars, Acquire, Lock!Acquire
<1>5. Reads'
  BY <1>1, Zenon DEF Types, Excludes, Inside, Reads, Carrying, PushLock, Goto, ringVars, queueVars, countVars, irqVars, bspVars, Acquire, Lock!Acquire
<1>6. Quiet'
  BY <1>1, Zenon DEF Types, Quiet, Masked, PushLock, Goto, ringVars, queueVars, countVars, irqVars, bspVars, Acquire, Lock!Acquire
<1>7. WakeupDue'
  BY <1>1, Zenon DEF Types, WakeupDue, Asleep, PushLock, Goto, ringVars, queueVars, countVars, irqVars, bspVars, Acquire, Lock!Acquire
<1> QED  BY <1>2, <1>3, <1>4, <1>5, <1>6, <1>7, Zenon DEF Inv

\* The test for room stays true until the put, under the lock.
LEMMA PushTestKeeps ==
  ASSUME Inv, PushTest
  PROVE  Inv'
<1> USE WorkAssumption DEF Cpus, WorkLock
<1>1. Types /\ Excludes /\ Window /\ Reads /\ Quiet /\ WakeupDue
  BY Zenon DEF Inv
<1>2. Types'
  BY <1>1, Zenon DEF Types, Places, PushTest, Goto, ringVars, queueVars, countVars, irqVars, bspVars, RingFull
<1>3. Excludes'
  BY <1>1, Zenon DEF Types, Excludes, Inside, PushTest, Goto, ringVars, queueVars, countVars, irqVars, bspVars, RingFull
<1>4. Window'
  BY <1>1, Zenon DEF Types, Window, At, Jobs, PushTest, Goto, ringVars, queueVars, countVars, irqVars, bspVars, RingFull
<1>5. Reads'
  BY <1>1 DEF Types, Excludes, Inside, Reads, Carrying, PushTest, Goto, ringVars, queueVars, countVars, irqVars, bspVars, RingFull
<1>6. Quiet'
  BY <1>1, Zenon DEF Types, Quiet, Masked, PushTest, Goto, ringVars, queueVars, countVars, irqVars, bspVars, RingFull
<1>7. WakeupDue'
  BY <1>1, Zenon DEF Types, WakeupDue, Asleep, PushTest, Goto, ringVars, queueVars, countVars, irqVars, bspVars, RingFull
<1> QED  BY <1>2, <1>3, <1>4, <1>5, <1>6, <1>7, Zenon DEF Inv

\* The put extends the window by the new job; a sleeper is owed its interrupt.
LEMMA PushPutKeeps ==
  ASSUME Inv, PushPut
  PROVE  Inv'
<1> USE WorkAssumption DEF Cpus, WorkLock
<1>1. Types /\ Excludes /\ Window /\ Reads /\ Quiet /\ WakeupDue
  BY Zenon DEF Inv
<1>2. Types'
  <2>1. count < SMP_WORK_MAX /\ ebx[Bsp] \in Nat /\ head \in Index /\ count \in 0 .. SMP_WORK_MAX
    BY <1>1, Zenon DEF Types, Reads, PushPut
  <2>2. head' \in Index /\ count' \in 0 .. SMP_WORK_MAX
    BY <2>1 DEF PushPut, Advance, Index
  <2>3. ring' \in [Index -> Nat]
    BY <1>1, <2>1, Zenon DEF Types, PushPut
  <2>4. pc' \in [Cpus -> Places]
    BY <1>1, Zenon DEF Types, PushPut, Goto, Places
  <2> QED
    BY <1>1, <2>2, <2>3, <2>4, Zenon DEF Types, PushPut, countVars, irqVars, bspVars
<1>3. Excludes'
  BY <1>1, Zenon DEF Types, Excludes, Inside, PushPut, Goto, ringVars, queueVars, countVars, irqVars, bspVars, Advance
<1>4. Window'
  <2>1. /\ head' = Advance(head) /\ count' = count + 1 /\ tail' = tail
        /\ ring' = [ring EXCEPT ![head] = ebx[Bsp]]
    BY Zenon DEF PushPut
  <2>2. count < SMP_WORK_MAX /\ ebx[Bsp] \in Jobs
    BY <1>1, Zenon DEF Reads, Carrying, PushPut
  <2>3. tail \in Index /\ count \in 0 .. SMP_WORK_MAX /\ ring \in [Index -> Nat] /\ head \in Index
    BY <1>1, Zenon DEF Types
  <2>4. head' = At(count + 1)'
    BY <1>1, <2>1, <2>2, <2>3 DEF Window, At, Advance, Index
  <2>5. ASSUME NEW i \in 1 .. count'
        PROVE  ring[At(i)]' \in Jobs
    <3>1. CASE i = count + 1
      BY <1>1, <2>1, <2>2, <2>3, <3>1, Zenon DEF Window, At
    <3>2. CASE i \in 1 .. count
      <4>1. At(i) \in Index /\ At(i) # head
        BY <1>1, <2>2, <2>3, <3>2 DEF Window, At, Index
      <4> QED  BY <1>1, <2>1, <2>3, <3>2, <4>1, Zenon DEF Window, At
    <3> QED  BY <2>1, <2>3, <3>1, <3>2
  <2> QED  BY <2>4, <2>5, Zenon DEF Window
<1>5. Reads'
  BY <1>1, Zenon DEF Types, Excludes, Inside, Reads, Carrying, PushPut, Goto, ringVars, queueVars, countVars, irqVars, bspVars, Advance
<1>6. Quiet'
  BY <1>1, Zenon DEF Types, Quiet, Masked, PushPut, Goto, ringVars, queueVars, countVars, irqVars, bspVars, Advance
<1>7. WakeupDue'
  BY <1>1, Zenon DEF Types, WakeupDue, Asleep, PushPut, Goto, ringVars, queueVars, countVars, irqVars, bspVars, Advance
<1> QED  BY <1>2, <1>3, <1>4, <1>5, <1>6, <1>7, Zenon DEF Inv

\* The interrupt is still to be sent when the lock is given back.
LEMMA PushUnlockKeeps ==
  ASSUME Inv, PushUnlock
  PROVE  Inv'
<1> USE WorkAssumption DEF Cpus, WorkLock
<1>1. Types /\ Excludes /\ Window /\ Reads /\ Quiet /\ WakeupDue
  BY Zenon DEF Inv
<1>2. Types'
  BY <1>1, Zenon DEF Types, Places, PushUnlock, Goto, ringVars, queueVars, countVars, irqVars, bspVars, Release, Lock!Release
<1>3. Excludes'
  BY <1>1, Zenon DEF Types, Excludes, Inside, PushUnlock, Goto, ringVars, queueVars, countVars, irqVars, bspVars, Release, Lock!Release
<1>4. Window'
  BY <1>1, Zenon DEF Types, Window, At, Jobs, PushUnlock, Goto, ringVars, queueVars, countVars, irqVars, bspVars, Release, Lock!Release
<1>5. Reads'
  BY <1>1, Zenon DEF Types, Excludes, Inside, Reads, Carrying, PushUnlock, Goto, ringVars, queueVars, countVars, irqVars, bspVars, Release, Lock!Release
<1>6. Quiet'
  BY <1>1, Zenon DEF Types, Quiet, Masked, PushUnlock, Goto, ringVars, queueVars, countVars, irqVars, bspVars, Release, Lock!Release
<1>7. WakeupDue'
  BY <1>1, Zenon DEF Types, WakeupDue, Asleep, PushUnlock, Goto, ringVars, queueVars, countVars, irqVars, bspVars, Release, Lock!Release
<1> QED  BY <1>2, <1>3, <1>4, <1>5, <1>6, <1>7, Zenon DEF Inv

\* A refused push leaves the ring as it is.
LEMMA PushRefuseKeeps ==
  ASSUME Inv, PushRefuse
  PROVE  Inv'
<1> USE WorkAssumption DEF Cpus, WorkLock
<1>1. Types /\ Excludes /\ Window /\ Reads /\ Quiet /\ WakeupDue
  BY Zenon DEF Inv
<1>2. Types'
  BY <1>1, Zenon DEF Types, Places, PushRefuse, Goto, ringVars, queueVars, countVars, irqVars, bspVars, Release, Lock!Release
<1>3. Excludes'
  BY <1>1, Zenon DEF Types, Excludes, Inside, PushRefuse, Goto, ringVars, queueVars, countVars, irqVars, bspVars, Release, Lock!Release
<1>4. Window'
  BY <1>1, Zenon DEF Types, Window, At, Jobs, PushRefuse, Goto, ringVars, queueVars, countVars, irqVars, bspVars, Release, Lock!Release
<1>5. Reads'
  BY <1>1, Zenon DEF Types, Excludes, Inside, Reads, Carrying, PushRefuse, Goto, ringVars, queueVars, countVars, irqVars, bspVars, Release, Lock!Release
<1>6. Quiet'
  BY <1>1, Zenon DEF Types, Quiet, Masked, PushRefuse, Goto, ringVars, queueVars, countVars, irqVars, bspVars, Release, Lock!Release
<1>7. WakeupDue'
  BY <1>1, Zenon DEF Types, WakeupDue, Asleep, PushRefuse, Goto, ringVars, queueVars, countVars, irqVars, bspVars, Release, Lock!Release
<1> QED  BY <1>2, <1>3, <1>4, <1>5, <1>6, <1>7, Zenon DEF Inv

\* The pusher waits before its next try.
LEMMA RefusedKeeps ==
  ASSUME Inv, Refused
  PROVE  Inv'
<1> USE WorkAssumption DEF Cpus, WorkLock
<1>1. Types /\ Excludes /\ Window /\ Reads /\ Quiet /\ WakeupDue
  BY Zenon DEF Inv
<1>2. Types'
  BY <1>1, Zenon DEF Types, Places, Refused, Goto, ringVars, queueVars, countVars, irqVars, bspVars
<1>3. Excludes'
  BY <1>1, Zenon DEF Types, Excludes, Inside, Refused, Goto, ringVars, queueVars, countVars, irqVars, bspVars
<1>4. Window'
  BY <1>1, Zenon DEF Types, Window, At, Jobs, Refused, Goto, ringVars, queueVars, countVars, irqVars, bspVars
<1>5. Reads'
  BY <1>1, Zenon DEF Types, Excludes, Inside, Reads, Carrying, Refused, Goto, ringVars, queueVars, countVars, irqVars, bspVars
<1>6. Quiet'
  BY <1>1, Zenon DEF Types, Quiet, Masked, Refused, Goto, ringVars, queueVars, countVars, irqVars, bspVars
<1>7. WakeupDue'
  BY <1>1, Zenon DEF Types, WakeupDue, Asleep, Refused, Goto, ringVars, queueVars, countVars, irqVars, bspVars
<1> QED  BY <1>2, <1>3, <1>4, <1>5, <1>6, <1>7, Zenon DEF Inv

\* Every processor in the idle loop has its interrupt pending afterwards.
LEMMA SendIpiKeeps ==
  ASSUME Inv, SendIpi
  PROVE  Inv'
<1> USE WorkAssumption DEF Cpus, WorkLock
<1>1. Types /\ Excludes /\ Window /\ Reads /\ Quiet /\ WakeupDue
  BY Zenon DEF Inv
<1>2. Types'
  BY <1>1 DEF Types, Places, SendIpi, Goto, ringVars, queueVars, countVars, irqVars, bspVars, Poked
<1>3. Excludes'
  BY <1>1, Zenon DEF Types, Excludes, Inside, SendIpi, Goto, ringVars, queueVars, countVars, irqVars, bspVars, Poked
<1>4. Window'
  BY <1>1, Zenon DEF Types, Window, At, Jobs, SendIpi, Goto, ringVars, queueVars, countVars, irqVars, bspVars, Poked
<1>5. Reads'
  BY <1>1, Zenon DEF Types, Excludes, Inside, Reads, Carrying, SendIpi, Goto, ringVars, queueVars, countVars, irqVars, bspVars, Poked
<1>6. Quiet'
  BY <1>1, Zenon DEF Types, Quiet, Masked, SendIpi, Goto, ringVars, queueVars, countVars, irqVars, bspVars, Poked
<1>7. WakeupDue'
  BY <1>1, ZenonT(30) DEF Types, WakeupDue, Asleep, SendIpi, Goto, ringVars, queueVars, countVars, irqVars, bspVars, Poked
<1> QED  BY <1>2, <1>3, <1>4, <1>5, <1>6, <1>7, Zenon DEF Inv

\* smp_spread_stress is over.
LEMMA FinishedKeeps ==
  ASSUME Inv, Finished
  PROVE  Inv'
<1> USE WorkAssumption DEF Cpus, WorkLock
<1>1. Types /\ Excludes /\ Window /\ Reads /\ Quiet /\ WakeupDue
  BY Zenon DEF Inv
<1>2. Types'
  BY <1>1, Zenon DEF Types, Places, Finished, Goto, ringVars, queueVars, countVars, irqVars, bspVars
<1>3. Excludes'
  BY <1>1, Zenon DEF Types, Excludes, Inside, Finished, Goto, ringVars, queueVars, countVars, irqVars, bspVars
<1>4. Window'
  BY <1>1, Zenon DEF Types, Window, At, Jobs, Finished, Goto, ringVars, queueVars, countVars, irqVars, bspVars
<1>5. Reads'
  BY <1>1, Zenon DEF Types, Excludes, Inside, Reads, Carrying, Finished, Goto, ringVars, queueVars, countVars, irqVars, bspVars
<1>6. Quiet'
  BY <1>1, Zenon DEF Types, Quiet, Masked, Finished, Goto, ringVars, queueVars, countVars, irqVars, bspVars
<1>7. WakeupDue'
  BY <1>1, Zenon DEF Types, WakeupDue, Asleep, Finished, Goto, ringVars, queueVars, countVars, irqVars, bspVars
<1> QED  BY <1>2, <1>3, <1>4, <1>5, <1>6, <1>7, Zenon DEF Inv

-----------------------------------------------------------------------------
(* The put of smp_work_push, seen from the queue *)

\* The jobs waiting are as many as the ring's count says.
LEMMA WaitingIsSeq ==
  ASSUME Types, Window
  PROVE  Waiting \in Seq(Jobs) /\ Len(Waiting) = count
<1>1. count \in Nat
  BY WorkAssumption DEF Types
<1>2. Waiting \in [1 .. count -> Jobs]
  BY Zenon DEF Waiting, Window
<1>3. Waiting \in Seq(Jobs)
  BY <1>1, <1>2, SeqDef, Zenon
<1>4. DOMAIN Waiting = 1 .. count
  BY Zenon DEF Waiting
<1>5. Len(Waiting) \in Nat /\ DOMAIN Waiting = 1 .. Len(Waiting)
  BY <1>3, LenProperties, Zenon
<1> QED  BY <1>1, <1>3, <1>4, <1>5

\* While there is room, the place behind the last job is nobody's.
LEMMA AtApart ==
  ASSUME tail \in Index, count \in 0 .. SMP_WORK_MAX, count < SMP_WORK_MAX, NEW i \in 1 .. count
  PROVE  At(i) \in Index /\ At(i) # At(count + 1)
<1>1. SMP_WORK_MAX \in Nat \ {0}
  BY WorkAssumption, Zenon
<1> QED  BY <1>1, SMTT(60) DEF At, Index

\* The put of a push is a push on the queue: the new job goes behind the others,
\* none of which it overwrites.
LEMMA PutIsPush ==
  ASSUME Inv, PushPut
  PROVE  \E j \in Jobs : Abstract!Push(j)
<1> USE WorkAssumption
<1>1. Types /\ Window /\ Reads /\ Types' /\ Window'
  BY PushPutKeeps, Zenon DEF Inv
<1>2. /\ head' = Advance(head) /\ count' = count + 1 /\ tail' = tail /\ taken' = taken
      /\ ring' = [ring EXCEPT ![head] = ebx[Bsp]]
  BY Zenon DEF PushPut
<1>3. count < SMP_WORK_MAX /\ ebx[Bsp] \in Jobs
  BY <1>1, Zenon DEF Reads, Carrying, PushPut
<1>4. tail \in Index /\ count \in 0 .. SMP_WORK_MAX /\ ring \in [Index -> Nat] /\ head \in Index
  BY <1>1, Zenon DEF Types
<1>5. Waiting \in Seq(Jobs) /\ Len(Waiting) = count
  BY <1>1, WaitingIsSeq, Zenon
<1>6. Waiting' \in Seq(Jobs) /\ Len(Waiting') = count'
  <2>1. count' \in Nat
    BY <1>2, <1>4
  <2>2. Waiting' \in [1 .. count' -> Jobs]
    BY <1>1, Zenon DEF Waiting, Window, Jobs
  <2>3. DOMAIN Waiting' = 1 .. count'
    BY <2>2, Zenon
  <2>4. Waiting' \in Seq(Jobs)
    BY <2>1, <2>2, SeqDef, Zenon
  <2>5. Len(Waiting') \in Nat /\ DOMAIN Waiting' = 1 .. Len(Waiting')
    BY <2>4, LenProperties, Zenon
  <2> QED  BY <2>1, <2>3, <2>4, <2>5
<1>7. /\ Append(Waiting, ebx[Bsp]) \in Seq(Jobs)
      /\ Len(Append(Waiting, ebx[Bsp])) = count + 1
      /\ \A i \in 1 .. count : Append(Waiting, ebx[Bsp])[i] = Waiting[i]
      /\ Append(Waiting, ebx[Bsp])[count + 1] = ebx[Bsp]
  BY <1>3, <1>5, AppendProperties
<1>8. ASSUME NEW i \in 1 .. count + 1
      PROVE  Waiting'[i] = Append(Waiting, ebx[Bsp])[i]
  <2>1. Waiting'[i] = ring'[At(i)]
    BY <1>2, Zenon DEF Waiting, At
  <2>2. CASE i = count + 1
    BY <1>1, <1>2, <1>4, <1>7, <2>1, <2>2, Zenon DEF Window
  <2>3. CASE i \in 1 .. count
    <3>1. At(i) \in Index /\ At(i) # head
      BY <1>1, <1>3, <1>4, <2>3, AtApart, Zenon DEF Window
    <3>2. Waiting[i] = ring[At(i)]
      BY <2>3, Zenon DEF Waiting
    <3> QED  BY <1>2, <1>4, <1>7, <2>1, <2>3, <3>1, <3>2, Zenon
  <2>4. i = count + 1 \/ i \in 1 .. count
    BY <1>4
  <2> QED  BY <2>2, <2>3, <2>4, Zenon
<1>9. Waiting' = Append(Waiting, ebx[Bsp])
  <2>1. Len(Waiting') = Len(Append(Waiting, ebx[Bsp]))
    BY <1>2, <1>6, <1>7, Zenon
  <2>2. \A i \in 1 .. Len(Waiting') : Waiting'[i] = Append(Waiting, ebx[Bsp])[i]
    BY <1>2, <1>6, <1>8, ZenonT(30)
  <2> QED  BY <1>6, <1>7, <2>1, <2>2, SeqEqual, Zenon
<1> QED  BY <1>2, <1>3, <1>5, <1>9, Zenon DEF Abstract!Push

-----------------------------------------------------------------------------
(* smp_ap_idle and smp_work_pop *)

\* A processor enters the idle loop, where it looks at the ring first.
LEMMA ArriveKeeps ==
  ASSUME NEW p \in Aps, Inv, Arrive(p)
  PROVE  Inv'
<1> USE WorkAssumption DEF Cpus, WorkLock
<1>1. Types /\ Excludes /\ Window /\ Reads /\ Quiet /\ WakeupDue
  BY Zenon DEF Inv
<1>2. Types'
  BY <1>1, Zenon DEF Types, Places, Arrive, Goto, ringVars, queueVars, countVars, irqVars, bspVars
<1>3. Excludes'
  BY <1>1, Zenon DEF Types, Excludes, Inside, Arrive, Goto, ringVars, queueVars, countVars, irqVars, bspVars
<1>4. Window'
  BY <1>1, Zenon DEF Types, Window, At, Jobs, Arrive, Goto, ringVars, queueVars, countVars, irqVars, bspVars
<1>5. Reads'
  BY <1>1, Zenon DEF Types, Excludes, Inside, Reads, Carrying, Arrive, Goto, ringVars, queueVars, countVars, irqVars, bspVars
<1>6. Quiet'
  BY <1>1, Zenon DEF Types, Quiet, Masked, Arrive, Goto, ringVars, queueVars, countVars, irqVars, bspVars
<1>7. WakeupDue'
  BY <1>1, ZenonT(60) DEF Types, WakeupDue, Asleep, Arrive, Goto, ringVars, queueVars, countVars, irqVars, bspVars
<1> QED  BY <1>2, <1>3, <1>4, <1>5, <1>6, <1>7, ZenonT(60) DEF Inv

\* The cli of the idle loop masks the interrupt and forgets the last job.
LEMMA CliKeeps ==
  ASSUME NEW p \in Aps, Inv, Cli(p)
  PROVE  Inv'
<1> USE WorkAssumption DEF Cpus, WorkLock
<1>1. Types /\ Excludes /\ Window /\ Reads /\ Quiet /\ WakeupDue
  BY Zenon DEF Inv
<1>2. Types'
  BY <1>1, Zenon DEF Types, Places, Cli, Goto, ringVars, queueVars, countVars, irqVars, bspVars, Set, IfInLoop
<1>3. Excludes'
  BY <1>1, Zenon DEF Types, Excludes, Inside, Cli, Goto, ringVars, queueVars, countVars, irqVars, bspVars, Set, IfInLoop
<1>4. Window'
  BY <1>1, Zenon DEF Types, Window, At, Jobs, Cli, Goto, ringVars, queueVars, countVars, irqVars, bspVars, Set, IfInLoop
<1>5. Reads'
  BY <1>1, Zenon DEF Types, Excludes, Inside, Reads, Carrying, Cli, Goto, ringVars, queueVars, countVars, irqVars, bspVars, Set, IfInLoop
<1>6. Quiet'
  BY <1>1, Zenon DEF Types, Quiet, Masked, Cli, Goto, ringVars, queueVars, countVars, irqVars, bspVars, Set, IfInLoop
<1>7. WakeupDue'
  BY <1>1, Zenon DEF Types, WakeupDue, Asleep, Cli, Goto, ringVars, queueVars, countVars, irqVars, bspVars, Set, IfInLoop
<1> QED  BY <1>2, <1>3, <1>4, <1>5, <1>6, <1>7, Zenon DEF Inv

\* smp_work_pop takes the lock only when nobody has it.
LEMMA PopLockKeeps ==
  ASSUME NEW p \in Aps, Inv, PopLock(p)
  PROVE  Inv'
<1> USE WorkAssumption DEF Cpus, WorkLock
<1>1. Types /\ Excludes /\ Window /\ Reads /\ Quiet /\ WakeupDue
  BY Zenon DEF Inv
<1>2. Types'
  BY <1>1, Zenon DEF Types, Places, PopLock, Goto, ringVars, queueVars, countVars, irqVars, bspVars, Acquire, Lock!Acquire
<1>3. Excludes'
  BY <1>1, Zenon DEF Types, Excludes, Inside, PopLock, Goto, ringVars, queueVars, countVars, irqVars, bspVars, Acquire, Lock!Acquire
<1>4. Window'
  BY <1>1, Zenon DEF Types, Window, At, Jobs, PopLock, Goto, ringVars, queueVars, countVars, irqVars, bspVars, Acquire, Lock!Acquire
<1>5. Reads'
  BY <1>1, Zenon DEF Types, Excludes, Inside, Reads, Carrying, PopLock, Goto, ringVars, queueVars, countVars, irqVars, bspVars, Acquire, Lock!Acquire
<1>6. Quiet'
  BY <1>1, Zenon DEF Types, Quiet, Masked, PopLock, Goto, ringVars, queueVars, countVars, irqVars, bspVars, Acquire, Lock!Acquire
<1>7. WakeupDue'
  BY <1>1, Zenon DEF Types, WakeupDue, Asleep, PopLock, Goto, ringVars, queueVars, countVars, irqVars, bspVars, Acquire, Lock!Acquire
<1> QED  BY <1>2, <1>3, <1>4, <1>5, <1>6, <1>7, Zenon DEF Inv

\* An empty ring is seen under the lock; else the oldest job is read.
LEMMA PopReadKeeps ==
  ASSUME NEW p \in Aps, Inv, PopRead(p)
  PROVE  Inv'
<1> USE WorkAssumption DEF Cpus, WorkLock
<1>1. Types /\ Excludes /\ Window /\ Reads /\ Quiet /\ WakeupDue
  BY Zenon DEF Inv
<1>2. Types'
  <2>1. tail \in Nat /\ ring[tail] \in Nat
    BY <1>1 DEF Types, Index
  <2>2. eax' \in [Cpus -> Nat] /\ ebx' \in [Cpus -> Nat] /\ pc' \in [Cpus -> Places]
    <3>1. CASE count = 0
      BY <1>1, <3>1, ZenonT(120) DEF Types, Places, PopRead, Goto
    <3>2. CASE count # 0
      <4>1. /\ eax' = [eax EXCEPT ![p] = tail] /\ ebx' = [ebx EXCEPT ![p] = ring[tail]]
            /\ pc' = [pc EXCEPT ![p] = "pop_take"]
        BY <3>2, Zenon DEF PopRead, Goto, Set
      <4>2. eax' \in [Cpus -> Nat]
        BY <1>1, <2>1, <4>1, Zenon DEF Types
      <4>3. ebx' \in [Cpus -> Nat]
        BY <1>1, <2>1, <4>1, Zenon DEF Types
      <4>4. pc' \in [Cpus -> Places]
        BY <1>1, <4>1, Zenon DEF Types, Places
      <4> QED  BY <4>2, <4>3, <4>4, Zenon
    <3> QED  BY <3>1, <3>2, Zenon
  <2> QED
    BY <1>1, <2>2, Zenon DEF Types, PopRead, ringVars, queueVars, countVars, irqVars, bspVars
<1>3. Excludes'
  BY <1>1, ZenonT(120) DEF Types, Excludes, Inside, PopRead, Goto, ringVars, queueVars, countVars, irqVars, bspVars, Set
<1>4. Window'
  BY <1>1, Zenon DEF Types, Window, At, Jobs, PopRead, Goto, ringVars, queueVars, countVars, irqVars, bspVars, Set
<1>5. Reads'
  BY <1>1 DEF Types, Excludes, Inside, Reads, Carrying, PopRead, Goto, ringVars, queueVars, countVars, irqVars, bspVars, Set
<1>6. Quiet'
  BY <1>1, Zenon DEF Types, Quiet, Masked, PopRead, Goto, ringVars, queueVars, countVars, irqVars, bspVars, Set
<1>7. WakeupDue'
  <2>1. CASE count = 0
    BY <1>1, <2>1 DEF Types, WakeupDue, PopRead, ringVars, queueVars
  <2>2. CASE count # 0
    BY <1>1, <2>2, ZenonT(30) DEF Types, WakeupDue, Asleep, PopRead, Goto, ringVars, queueVars, countVars, irqVars, bspVars, Set
  <2> QED  BY <2>1, <2>2, Zenon
<1> QED  BY <1>2, <1>3, <1>4, <1>5, <1>6, <1>7, Zenon DEF Inv

\* The take moves the window past the job that was read.
LEMMA PopTakeKeeps ==
  ASSUME NEW p \in Aps, Inv, PopTake(p)
  PROVE  Inv'
<1> USE WorkAssumption DEF Cpus, WorkLock
<1>1. Types /\ Excludes /\ Window /\ Reads /\ Quiet /\ WakeupDue
  BY Zenon DEF Inv
<1>2. Types'
  <2>1. eax[p] = tail /\ count > 0 /\ tail \in Index /\ count \in 0 .. SMP_WORK_MAX
    BY <1>1, Zenon DEF Types, Reads, PopTake
  <2>2. tail' \in Index /\ count' \in 0 .. SMP_WORK_MAX
    BY <2>1 DEF PopTake, Advance, Index
  <2>3. taken' \in Seq(Nat)
    BY <1>1 DEF Types, PopTake
  <2> QED
    BY <1>1, <2>2, <2>3, Zenon DEF Types, Places, PopTake, Goto, countVars, irqVars, bspVars, Set
<1>3. Excludes'
  BY <1>1, Zenon DEF Types, Excludes, Inside, PopTake, Goto, ringVars, queueVars, countVars, irqVars, bspVars, Set, Advance
<1>4. Window'
  <2>1. tail' = Advance(eax[p]) /\ count' = count - 1 /\ head' = head /\ ring' = ring
    BY Zenon DEF PopTake
  <2>2. eax[p] = tail /\ count > 0
    BY <1>1, Zenon DEF Reads, PopTake
  <2>3. tail \in Index /\ count \in 0 .. SMP_WORK_MAX
    BY <1>1, Zenon DEF Types
  <2>4. \A i \in 1 .. SMP_WORK_MAX : At(i)' = At(i + 1)
    BY <2>1, <2>2, <2>3 DEF At, Advance, Index
  <2>5. head' = At(count + 1)'
    BY <1>1, <2>1, <2>2, <2>3, <2>4 DEF Window
  <2>6. ASSUME NEW i \in 1 .. count'
        PROVE  ring[At(i)]' \in Jobs
    BY <1>1, <2>1, <2>2, <2>3, <2>4 DEF Window, Jobs
  <2> QED  BY <2>5, <2>6, Zenon DEF Window
<1>5. Reads'
  BY <1>1, Zenon DEF Types, Excludes, Inside, Reads, Carrying, PopTake, Goto, ringVars, queueVars, countVars, irqVars, bspVars, Set, Advance
<1>6. Quiet'
  BY <1>1, Zenon DEF Types, Quiet, Masked, PopTake, Goto, ringVars, queueVars, countVars, irqVars, bspVars, Set, Advance
<1>7. WakeupDue'
  <2>1. ebx[p] = ring[tail] /\ count > 0
    BY <1>1, Zenon DEF Reads, PopTake
  <2>2. At(1) = tail /\ count \in 0 .. SMP_WORK_MAX
    BY <1>1 DEF Types, At, Index
  <2>3. ebx[p] # 0
    BY <1>1, <2>1, <2>2 DEF Window, Jobs
  <2> QED
    BY <1>1, <2>1, <2>2, <2>3, Zenon DEF Types, WakeupDue, Asleep, PopTake, Goto, countVars, irqVars, bspVars
<1> QED  BY <1>2, <1>3, <1>4, <1>5, <1>6, <1>7, Zenon DEF Inv

\* The lock is given back with the answer in the register.
LEMMA PopUnlockKeeps ==
  ASSUME NEW p \in Aps, Inv, PopUnlock(p)
  PROVE  Inv'
<1> USE WorkAssumption DEF Cpus, WorkLock
<1>1. Types /\ Excludes /\ Window /\ Reads /\ Quiet /\ WakeupDue
  BY Zenon DEF Inv
<1>2. Types'
  BY <1>1, Zenon DEF Types, Places, PopUnlock, Goto, ringVars, queueVars, countVars, irqVars, bspVars, Release, Lock!Release
<1>3. Excludes'
  BY <1>1, Zenon DEF Types, Excludes, Inside, PopUnlock, Goto, ringVars, queueVars, countVars, irqVars, bspVars, Release, Lock!Release
<1>4. Window'
  BY <1>1, Zenon DEF Types, Window, At, Jobs, PopUnlock, Goto, ringVars, queueVars, countVars, irqVars, bspVars, Release, Lock!Release
<1>5. Reads'
  BY <1>1, Zenon DEF Types, Excludes, Inside, Reads, Carrying, PopUnlock, Goto, ringVars, queueVars, countVars, irqVars, bspVars, Release, Lock!Release
<1>6. Quiet'
  BY <1>1, Zenon DEF Types, Quiet, Masked, PopUnlock, Goto, ringVars, queueVars, countVars, irqVars, bspVars, Release, Lock!Release
<1>7. WakeupDue'
  BY <1>1, Zenon DEF Types, WakeupDue, Asleep, PopUnlock, Goto, ringVars, queueVars, countVars, irqVars, bspVars, Release, Lock!Release
<1> QED  BY <1>2, <1>3, <1>4, <1>5, <1>6, <1>7, Zenon DEF Inv

\* The answer of the pop decides between a job and the halt.
LEMMA TestKeeps ==
  ASSUME NEW p \in Aps, Inv, Test(p)
  PROVE  Inv'
<1> USE WorkAssumption DEF Cpus, WorkLock
<1>1. Types /\ Excludes /\ Window /\ Reads /\ Quiet /\ WakeupDue
  BY Zenon DEF Inv
<1>2. Types'
  BY <1>1, ZenonT(30) DEF Types, Places, Test, Goto, ringVars, queueVars, countVars, irqVars, bspVars
<1>3. Excludes'
  BY <1>1, ZenonT(120) DEF Types, Excludes, Inside, Test, Goto, ringVars, queueVars, countVars, irqVars, bspVars
<1>4. Window'
  BY <1>1, Zenon DEF Types, Window, At, Jobs, Test, Goto, ringVars, queueVars, countVars, irqVars, bspVars
<1>5. Reads'
  BY <1>1, ZenonT(120) DEF Types, Excludes, Inside, Reads, Carrying, Test, Goto, ringVars, queueVars, countVars, irqVars, bspVars
<1>6. Quiet'
  BY <1>1, ZenonT(120) DEF Types, Quiet, Masked, Test, Goto, ringVars, queueVars, countVars, irqVars, bspVars
<1>7. WakeupDue'
  BY <1>1, ZenonT(30) DEF Types, WakeupDue, Asleep, Test, Goto, ringVars, queueVars, countVars, irqVars, bspVars
<1> QED  BY <1>2, <1>3, <1>4, <1>5, <1>6, <1>7, Zenon DEF Inv

\* A job is run outside the lock.
LEMMA JobKeeps ==
  ASSUME NEW p \in Aps, Inv, Job(p)
  PROVE  Inv'
<1> USE WorkAssumption DEF Cpus, WorkLock
<1>1. Types /\ Excludes /\ Window /\ Reads /\ Quiet /\ WakeupDue
  BY Zenon DEF Inv
<1>2. Types'
  BY <1>1, Zenon DEF Types, Places, Job, Goto, ringVars, queueVars, countVars, irqVars, bspVars
<1>3. Excludes'
  BY <1>1, Zenon DEF Types, Excludes, Inside, Job, Goto, ringVars, queueVars, countVars, irqVars, bspVars
<1>4. Window'
  BY <1>1, Zenon DEF Types, Window, At, Jobs, Job, Goto, ringVars, queueVars, countVars, irqVars, bspVars
<1>5. Reads'
  BY <1>1, Zenon DEF Types, Excludes, Inside, Reads, Carrying, Job, Goto, ringVars, queueVars, countVars, irqVars, bspVars
<1>6. Quiet'
  BY <1>1, Zenon DEF Types, Quiet, Masked, Job, Goto, ringVars, queueVars, countVars, irqVars, bspVars
<1>7. WakeupDue'
  BY <1>1, Zenon DEF Types, WakeupDue, Asleep, Job, Goto, ringVars, queueVars, countVars, irqVars, bspVars
<1> QED  BY <1>2, <1>3, <1>4, <1>5, <1>6, <1>7, Zenon DEF Inv

\* A finished job is counted, and the processor goes back to look.
LEMMA CountJobKeeps ==
  ASSUME NEW p \in Aps, Inv, CountJob(p)
  PROVE  Inv'
<1> USE WorkAssumption DEF Cpus, WorkLock
<1>1. Types /\ Excludes /\ Window /\ Reads /\ Quiet /\ WakeupDue
  BY Zenon DEF Inv
<1>2. Types'
  BY <1>1, Zenon DEF Types, Places, CountJob, Goto, ringVars, queueVars, countVars, irqVars, bspVars, Set
<1>3. Excludes'
  BY <1>1, Zenon DEF Types, Excludes, Inside, CountJob, Goto, ringVars, queueVars, countVars, irqVars, bspVars, Set
<1>4. Window'
  BY <1>1, Zenon DEF Types, Window, At, Jobs, CountJob, Goto, ringVars, queueVars, countVars, irqVars, bspVars, Set
<1>5. Reads'
  BY <1>1, Zenon DEF Types, Excludes, Inside, Reads, Carrying, CountJob, Goto, ringVars, queueVars, countVars, irqVars, bspVars, Set
<1>6. Quiet'
  BY <1>1, Zenon DEF Types, Quiet, Masked, CountJob, Goto, ringVars, queueVars, countVars, irqVars, bspVars, Set
<1>7. WakeupDue'
  BY <1>1, ZenonT(120) DEF Types, WakeupDue, Asleep, CountJob, Goto, ringVars, queueVars, countVars, irqVars, bspVars, Set
<1> QED  BY <1>2, <1>3, <1>4, <1>5, <1>6, <1>7, Zenon DEF Inv

\* The processor counts itself idle.
LEMMA IdleKeeps ==
  ASSUME NEW p \in Aps, Inv, Idle(p)
  PROVE  Inv'
<1> USE WorkAssumption DEF Cpus, WorkLock
<1>1. Types /\ Excludes /\ Window /\ Reads /\ Quiet /\ WakeupDue
  BY Zenon DEF Inv
<1>2. Types'
  BY <1>1, Zenon DEF Types, Places, Idle, Goto, ringVars, queueVars, countVars, irqVars, bspVars
<1>3. Excludes'
  BY <1>1, Zenon DEF Types, Excludes, Inside, Idle, Goto, ringVars, queueVars, countVars, irqVars, bspVars
<1>4. Window'
  BY <1>1, Zenon DEF Types, Window, At, Jobs, Idle, Goto, ringVars, queueVars, countVars, irqVars, bspVars
<1>5. Reads'
  BY <1>1, Zenon DEF Types, Excludes, Inside, Reads, Carrying, Idle, Goto, ringVars, queueVars, countVars, irqVars, bspVars
<1>6. Quiet'
  BY <1>1, Zenon DEF Types, Quiet, Masked, Idle, Goto, ringVars, queueVars, countVars, irqVars, bspVars
<1>7. WakeupDue'
  BY <1>1, ZenonT(120) DEF Types, WakeupDue, Asleep, Idle, Goto, ringVars, queueVars, countVars, irqVars, bspVars
<1> QED  BY <1>2, <1>3, <1>4, <1>5, <1>6, <1>7, Zenon DEF Inv

\* sti and hlt are one step: an interrupt that is pending wakes the processor.
LEMMA StiHltKeeps ==
  ASSUME NEW p \in Aps, Inv, StiHlt(p)
  PROVE  Inv'
<1> USE WorkAssumption DEF Cpus, WorkLock
<1>1. Types /\ Excludes /\ Window /\ Reads /\ Quiet /\ WakeupDue
  BY Zenon DEF Inv
<1>2. Types'
  BY <1>1, Zenon DEF Types, Places, StiHlt, Goto, ringVars, queueVars, countVars, irqVars, bspVars
<1>3. Excludes'
  BY <1>1, Zenon DEF Types, Excludes, Inside, StiHlt, Goto, ringVars, queueVars, countVars, irqVars, bspVars
<1>4. Window'
  BY <1>1, Zenon DEF Types, Window, At, Jobs, StiHlt, Goto, ringVars, queueVars, countVars, irqVars, bspVars
<1>5. Reads'
  BY <1>1, Zenon DEF Types, Excludes, Inside, Reads, Carrying, StiHlt, Goto, ringVars, queueVars, countVars, irqVars, bspVars
<1>6. Quiet'
  BY <1>1, Zenon DEF Types, Quiet, Masked, StiHlt, Goto, ringVars, queueVars, countVars, irqVars, bspVars
<1>7. WakeupDue'
  BY <1>1, ZenonT(120) DEF Types, WakeupDue, Asleep, StiHlt, Goto, ringVars, queueVars, countVars, irqVars, bspVars
<1> QED  BY <1>2, <1>3, <1>4, <1>5, <1>6, <1>7, Zenon DEF Inv

\* A woken processor goes back to look at the ring.
LEMMA WokenKeeps ==
  ASSUME NEW p \in Aps, Inv, Woken(p)
  PROVE  Inv'
<1> USE WorkAssumption DEF Cpus, WorkLock
<1>1. Types /\ Excludes /\ Window /\ Reads /\ Quiet /\ WakeupDue
  BY Zenon DEF Inv
<1>2. Types'
  BY <1>1, Zenon DEF Types, Places, Woken, Goto, ringVars, queueVars, countVars, irqVars, bspVars
<1>3. Excludes'
  BY <1>1, Zenon DEF Types, Excludes, Inside, Woken, Goto, ringVars, queueVars, countVars, irqVars, bspVars
<1>4. Window'
  BY <1>1, Zenon DEF Types, Window, At, Jobs, Woken, Goto, ringVars, queueVars, countVars, irqVars, bspVars
<1>5. Reads'
  BY <1>1, Zenon DEF Types, Excludes, Inside, Reads, Carrying, Woken, Goto, ringVars, queueVars, countVars, irqVars, bspVars
<1>6. Quiet'
  BY <1>1, Zenon DEF Types, Quiet, Masked, Woken, Goto, ringVars, queueVars, countVars, irqVars, bspVars
<1>7. WakeupDue'
  BY <1>1, Zenon DEF Types, WakeupDue, Asleep, Woken, Goto, ringVars, queueVars, countVars, irqVars, bspVars
<1> QED  BY <1>2, <1>3, <1>4, <1>5, <1>6, <1>7, Zenon DEF Inv

\* Taking the interrupt ends the halt, so nobody sleeps without it.
LEMMA TakeIpiKeeps ==
  ASSUME NEW p \in Aps, Inv, TakeIpi(p)
  PROVE  Inv'
<1> USE WorkAssumption DEF Cpus, WorkLock
<1>1. Types /\ Excludes /\ Window /\ Reads /\ Quiet /\ WakeupDue
  BY Zenon DEF Inv
<1>2. Types'
  BY <1>1, Zenon DEF Types, Places, TakeIpi, Goto, ringVars, queueVars, countVars, irqVars, bspVars
<1>3. Excludes'
  BY <1>1, Zenon DEF Types, Excludes, Inside, TakeIpi, Goto, ringVars, queueVars, countVars, irqVars, bspVars
<1>4. Window'
  BY <1>1, Zenon DEF Types, Window, At, Jobs, TakeIpi, Goto, ringVars, queueVars, countVars, irqVars, bspVars
<1>5. Reads'
  BY <1>1, Zenon DEF Types, Excludes, Inside, Reads, Carrying, TakeIpi, Goto, ringVars, queueVars, countVars, irqVars, bspVars
<1>6. Quiet'
  BY <1>1, Zenon DEF Types, Quiet, Masked, TakeIpi, Goto, ringVars, queueVars, countVars, irqVars, bspVars
<1>7. WakeupDue'
  BY <1>1, Zenon DEF Types, WakeupDue, Quiet, Masked, Asleep, TakeIpi, Goto, ringVars, queueVars, countVars, irqVars, bspVars
<1> QED  BY <1>2, <1>3, <1>4, <1>5, <1>6, <1>7, Zenon DEF Inv

-----------------------------------------------------------------------------
(* The invariant, and what follows from it *)

\* The arrival of a processor touches nothing of the ring.
LEMMA StutterKeeps ==
  ASSUME Inv, UNCHANGED vars
  PROVE  Inv'
<1> USE DEF vars, ringVars, queueVars, countVars, irqVars, bspVars
<1>1. Types'
  BY Zenon DEF Inv, Types
<1>2. Excludes'
  BY Zenon DEF Inv, Excludes
<1>3. Window'
  BY Zenon DEF Inv, Window, At
<1>4. Reads'
  BY Zenon DEF Inv, Reads
<1>5. Quiet'
  BY Zenon DEF Inv, Quiet
<1>6. WakeupDue'
  BY Zenon DEF Inv, WakeupDue, Asleep
<1> QED  BY <1>1, <1>2, <1>3, <1>4, <1>5, <1>6, ZenonT(120) DEF Inv

\* A processor that is started again is back where it was before its first start.
LEMMA ResetEffect ==
  ASSUME Types, Resets
  PROVE  /\ UNCHANGED <<ring, head, tail, count, holder, taken, jobs_run, aps_idle, pushed, start, done>>
         /\ pc' \in [Cpus -> Places] /\ eax' \in [Cpus -> Nat] /\ ebx' \in [Cpus -> Nat]
         /\ ipi' \in [Aps -> BOOLEAN] /\ iflag' \in [Aps -> BOOLEAN]
         /\ pc'[Bsp] = pc[Bsp] /\ ebx'[Bsp] = ebx[Bsp]
         /\ \A p \in Aps : \/ pc'[p] = "boot" /\ ebx'[p] = 0
                           \/ /\ pc'[p] = pc[p] /\ eax'[p] = eax[p] /\ ebx'[p] = ebx[p]
                              /\ ipi'[p] = ipi[p] /\ iflag'[p] = iflag[p]
<1> USE WorkAssumption
<1>1. UNCHANGED <<ring, head, tail, count, holder, taken, jobs_run, aps_idle, pushed, start, done>>
  BY Zenon DEF Resets, ringVars, queueVars, countVars, bspVars
<1>2. /\ pc' = [c \in Cpus |-> IF Reset(c) THEN "boot" ELSE pc[c]]
      /\ eax' = [c \in Cpus |-> IF Reset(c) THEN 0 ELSE eax[c]]
      /\ ebx' = [c \in Cpus |-> IF Reset(c) THEN 0 ELSE ebx[c]]
      /\ ipi' = [p \in Aps |-> ipi[p] /\ ~Reset(p)]
      /\ iflag' = [p \in Aps |-> iflag[p] /\ ~Reset(p)]
  BY Zenon DEF Resets
<1>3. pc \in [Cpus -> Places] /\ eax \in [Cpus -> Nat] /\ ebx \in [Cpus -> Nat]
  BY Zenon DEF Types
<1>4. "boot" \in Places /\ 0 \in Nat
  BY DEF Places
<1>5. pc' \in [Cpus -> Places] /\ eax' \in [Cpus -> Nat] /\ ebx' \in [Cpus -> Nat]
  BY <1>2, <1>3, <1>4, Zenon
<1>6. ipi' \in [Aps -> BOOLEAN] /\ iflag' \in [Aps -> BOOLEAN]
  BY <1>2, Zenon
<1>7. Bsp \in Cpus /\ Bsp \notin Aps /\ \A p \in Aps : p \in Cpus
  BY Zenon DEF Cpus
<1>8. ~Reset(Bsp)
  BY <1>7, Zenon DEF Reset
<1>9. pc'[Bsp] = pc[Bsp] /\ ebx'[Bsp] = ebx[Bsp]
  BY <1>2, <1>7, <1>8, Zenon
<1>10. ASSUME NEW p \in Aps, Reset(p)
       PROVE  pc'[p] = "boot" /\ ebx'[p] = 0
  BY <1>2, <1>7, <1>10, Zenon
<1>11. ASSUME NEW p \in Aps, ~Reset(p)
       PROVE  /\ pc'[p] = pc[p] /\ eax'[p] = eax[p] /\ ebx'[p] = ebx[p]
              /\ ipi'[p] = ipi[p] /\ iflag'[p] = iflag[p]
  <2>1. ipi[p] \in BOOLEAN /\ iflag[p] \in BOOLEAN
    BY Zenon DEF Types
  <2> QED  BY <1>2, <1>7, <1>11, <2>1, Zenon
<1> QED  BY <1>1, <1>5, <1>6, <1>9, <1>10, <1>11, Zenon

LEMMA ResetKeeps ==
  ASSUME Inv, Resets
  PROVE  Inv'
<1>1. Types /\ Excludes /\ Window /\ Reads /\ Quiet /\ WakeupDue
  BY Zenon DEF Inv
<1>2. UNCHANGED <<ring, head, tail, count, holder, taken, jobs_run, aps_idle, pushed, start, done>>
  BY <1>1, ResetEffect, Zenon
<1>3. /\ pc' \in [Cpus -> Places] /\ eax' \in [Cpus -> Nat] /\ ebx' \in [Cpus -> Nat]
      /\ ipi' \in [Aps -> BOOLEAN] /\ iflag' \in [Aps -> BOOLEAN]
  BY <1>1, ResetEffect, Zenon
<1>4. pc'[Bsp] = pc[Bsp] /\ ebx'[Bsp] = ebx[Bsp]
  BY <1>1, ResetEffect, Zenon
<1>5. \A p \in Aps : \/ pc'[p] = "boot" /\ ebx'[p] = 0
                     \/ /\ pc'[p] = pc[p] /\ eax'[p] = eax[p] /\ ebx'[p] = ebx[p]
                        /\ ipi'[p] = ipi[p] /\ iflag'[p] = iflag[p]
  BY <1>1, ResetEffect, Zenon
<1>6. Types'
  BY <1>1, <1>2, <1>3, Zenon DEF Types
<1>7. Excludes'
  <2>1. "boot" \notin Inside
    BY DEF Inside
  <2>2. \A c \in Cpus : c = Bsp \/ c \in Aps
    BY Zenon DEF Cpus
  <2> QED  BY <1>1, <1>2, <1>4, <1>5, <2>1, <2>2, Zenon DEF Excludes
<1>8. Window'
  BY <1>1, <1>2, Zenon DEF Window, At
<1>9. Reads'
  BY <1>1, <1>2, <1>4, <1>5, Zenon DEF Reads
<1>10. Quiet'
  <2>1. "boot" \notin Masked
    BY DEF Masked
  <2> QED  BY <1>1, <1>5, <2>1, Zenon DEF Quiet
<1>11. WakeupDue'
  <2>1. \A p \in Aps : Asleep(p)' => Asleep(p) /\ ipi'[p] = ipi[p]
    BY <1>5, Zenon DEF Asleep
  <2> QED  BY <1>1, <1>2, <1>4, <2>1, Zenon DEF WakeupDue
<1> QED  BY <1>6, <1>7, <1>8, <1>9, <1>10, <1>11, Zenon DEF Inv

\* Before the first job the ring is empty and nobody is in the idle loop.
LEMMA InitHolds ==
  ASSUME SmpInit
  PROVE  Inv
<1> USE WorkAssumption DEF SmpInit, Init, Cpus, WorkLock
<1>1. Types
  BY DEF Types, Places, Index
<1>2. Excludes
  BY Zenon DEF Excludes, Inside
<1>3. Window
  BY DEF Window, At, Index
<1>4. Reads
  BY Zenon DEF Reads, Carrying
<1>5. Quiet
  BY Zenon DEF Quiet, Masked
<1>6. WakeupDue
  BY DEF WakeupDue
<1> QED  BY <1>1, <1>2, <1>3, <1>4, <1>5, <1>6, ZenonT(120) DEF Inv

\* Every step of the machine keeps the invariant.
LEMMA NextKeeps ==
  ASSUME Inv, [SmpNext]_allVars
  PROVE  Inv'
<1>1. CASE UNCHANGED allVars
  BY <1>1, StutterKeeps, Zenon DEF allVars
<1>2. CASE Starts
  BY <1>2, ResetKeeps, Zenon DEF Starts
<1>7. CASE Comes
  BY <1>7, StutterKeeps, Zenon DEF Comes
<1>3. CASE Stresses
  <2>1. CASE Baseline
    BY <2>1, BaselineKeeps, Zenon
  <2>2. CASE PushNext
    BY <2>2, PushNextKeeps, ZenonT(60)
  <2>3. CASE PushLock
    BY <2>3, PushLockKeeps, Zenon
  <2>4. CASE PushTest
    BY <2>4, PushTestKeeps, Zenon
  <2>5. CASE PushPut
    BY <2>5, PushPutKeeps, Zenon
  <2>6. CASE PushUnlock
    BY <2>6, PushUnlockKeeps, Zenon
  <2>7. CASE PushRefuse
    BY <2>7, PushRefuseKeeps, Zenon
  <2>8. CASE Refused
    BY <2>8, RefusedKeeps, Zenon
  <2>9. CASE SendIpi
    BY <2>9, SendIpiKeeps, Zenon
  <2>10. CASE Finished
    BY <2>10, FinishedKeeps, Zenon
  <2> QED  BY <1>3, <2>1, <2>2, <2>3, <2>4, <2>5, <2>6, <2>7, <2>8, <2>9, <2>10, Zenon DEF Stresses, BspStep
<1>4. ASSUME NEW p \in Aps, Enters(p)
      PROVE  Inv'
  BY <1>4, ArriveKeeps, Zenon DEF Enters
<1>5. ASSUME NEW p \in Aps, Works(p)
      PROVE  Inv'
  <2>1. CASE Cli(p)
    BY <2>1, CliKeeps, Zenon
  <2>2. CASE PopLock(p)
    BY <2>2, PopLockKeeps, ZenonT(120)
  <2>3. CASE PopRead(p)
    BY <2>3, PopReadKeeps, Zenon
  <2>4. CASE PopTake(p)
    BY <2>4, PopTakeKeeps, Zenon
  <2>5. CASE PopUnlock(p)
    BY <2>5, PopUnlockKeeps, Zenon
  <2>6. CASE Test(p)
    BY <2>6, TestKeeps, Zenon
  <2>7. CASE Job(p)
    BY <2>7, JobKeeps, Zenon
  <2>8. CASE CountJob(p)
    BY <2>8, CountJobKeeps, Zenon
  <2>9. CASE Idle(p)
    BY <2>9, IdleKeeps, Zenon
  <2>10. CASE StiHlt(p)
    BY <2>10, StiHltKeeps, Zenon
  <2>11. CASE Woken(p)
    BY <2>11, WokenKeeps, Zenon
  <2> QED  BY <1>5, <2>1, <2>2, <2>3, <2>4, <2>5, <2>6, <2>7, <2>8, <2>9, <2>10, <2>11, ZenonT(60) DEF Works, ApStep
<1>6. ASSUME NEW p \in Aps, Pokes(p)
      PROVE  Inv'
  BY <1>6, TakeIpiKeeps, Zenon DEF Pokes
<1> QED  BY <1>1, <1>2, <1>3, <1>4, <1>5, <1>6, <1>7, Zenon DEF SmpNext

(***************************************************************************)
(* The inductive invariant of smp_work.inc holds in every state, for any   *)
(* number of processors, jobs and slots: the lock is held where it is      *)
(* needed, the slots from tail to head hold the jobs, what a push or a pop *)
(* has read is still true, and whoever has seen the ring empty is woken.   *)
(***************************************************************************)
THEOREM WorkInvariant == SmpSpec => []Inv
<1>1. SmpInit => Inv
  BY InitHolds, Zenon
<1>2. Inv /\ [SmpNext]_allVars => Inv'
  BY NextKeeps, Zenon
<1> QED  BY <1>1, <1>2, PTL DEF SmpSpec

(***************************************************************************)
(* smp_ap_idle never halts through work: an interrupt that arrives between *)
(* the empty check and the hlt is still pending at the hlt.                *)
(***************************************************************************)
THEOREM WakeupsKept == SmpSpec => []NoLostWakeup
<1>1. Inv => NoLostWakeup
  BY Zenon DEF Inv, WakeupDue, Asleep, NoLostWakeup
<1> QED  BY <1>1, WorkInvariant, PTL

-----------------------------------------------------------------------------
(* The ring is a queue *)

\* The take of a pop is a pop from the queue: what was read under the lock is its
\* oldest job.
LEMMA TakeIsPop ==
  ASSUME NEW p \in Aps, Inv, PopTake(p)
  PROVE  Abstract!Pop
<1> USE WorkAssumption
<1>1. Types /\ Window /\ Reads /\ Types' /\ Window'
  BY PopTakeKeeps, Zenon DEF Inv
<1>2. /\ tail' = Advance(eax[p]) /\ count' = count - 1 /\ head' = head /\ ring' = ring
      /\ taken' = Append(taken, ebx[p])
  BY Zenon DEF PopTake
<1>3. eax[p] = tail /\ ebx[p] = ring[tail] /\ count > 0
  BY <1>1, Zenon DEF Reads, PopTake
<1>4. tail \in Index /\ count \in 0 .. SMP_WORK_MAX
  BY <1>1, Zenon DEF Types
<1>5. Waiting \in Seq(Jobs) /\ Len(Waiting) = count /\ Waiting # <<>>
  BY <1>1, <1>3, WaitingIsSeq, EmptySeq
<1>6. Waiting' \in Seq(Jobs) /\ Len(Waiting') = count'
  <2>1. count' \in Nat
    BY <1>2, <1>3, <1>4
  <2>2. Waiting' \in [1 .. count' -> Jobs]
    BY <1>1, Zenon DEF Waiting, Window, Jobs
  <2>3. DOMAIN Waiting' = 1 .. count'
    BY <2>2, Zenon
  <2>4. Waiting' \in Seq(Jobs)
    BY <2>1, <2>2, SeqDef, Zenon
  <2>5. Len(Waiting') \in Nat /\ DOMAIN Waiting' = 1 .. Len(Waiting')
    BY <2>4, LenProperties, Zenon
  <2> QED  BY <2>1, <2>3, <2>4, <2>5
<1>7. /\ Tail(Waiting) \in Seq(Jobs) /\ Len(Tail(Waiting)) = count - 1
      /\ \A i \in 1 .. count - 1 : Tail(Waiting)[i] = Waiting[i + 1]
  BY <1>5, HeadTailProperties, Zenon
<1>8. Waiting[1] = ring[At(1)] /\ At(1) = tail
  BY <1>3, <1>4 DEF Waiting, At, Index
<1>9. Head(Waiting) = ebx[p]
  BY <1>3, <1>5, <1>8
<1>10. ASSUME NEW i \in 1 .. count - 1
       PROVE  Waiting'[i] = Tail(Waiting)[i]
  <2>1. At(i)' = At(i + 1)
    BY <1>2, <1>3, <1>4 DEF At, Advance, Index
  <2>2. Waiting'[i] = ring[At(i + 1)]
    BY <1>2, <2>1, Zenon DEF Waiting
  <2>3. Waiting[i + 1] = ring[At(i + 1)]
    <3>1. i + 1 \in 1 .. count
      BY <1>4
    <3> QED  BY <3>1, Zenon DEF Waiting
  <2> QED  BY <1>7, <2>2, <2>3, Zenon
<1>11. Waiting' = Tail(Waiting)
  <2>1. Len(Waiting') = Len(Tail(Waiting))
    BY <1>2, <1>6, <1>7, Zenon
  <2>2. \A i \in 1 .. Len(Waiting') : Waiting'[i] = Tail(Waiting)[i]
    BY <1>2, <1>6, <1>10, ZenonT(30)
  <2> QED  BY <1>6, <1>7, <2>1, <2>2, SeqEqual, Zenon
<1> QED  BY <1>2, <1>5, <1>9, <1>11, Zenon DEF Abstract!Pop

\* Any other step leaves the queue alone.
LEMMA NotQueued ==
  ASSUME UNCHANGED <<queueVars, taken>>
  PROVE  UNCHANGED <<Waiting, taken>>
BY Zenon DEF queueVars, Waiting, At

\* Every step of the machine is a step of the queue, or none.
LEMMA StepRefines ==
  ASSUME Inv, [SmpNext]_allVars
  PROVE  [Abstract!Next]_<<Waiting, taken>>
<1> USE DEF vars, ringVars
<1>1. CASE UNCHANGED allVars
  BY <1>1, NotQueued, Zenon DEF allVars
<1>2. CASE Starts
  BY <1>2, NotQueued, Zenon DEF Starts, Resets
<1>7. CASE Comes
  BY <1>7, NotQueued, Zenon DEF Comes
<1>3. CASE Stresses
  <2>1. CASE PushPut
    BY <2>1, PutIsPush, Zenon DEF Abstract!Next
  <2>2. CASE Baseline
    BY <2>2, NotQueued, Zenon DEF Baseline
  <2>3. CASE PushNext
    BY <2>3, NotQueued, Zenon DEF PushNext
  <2>4. CASE PushLock
    BY <2>4, NotQueued, Zenon DEF PushLock
  <2>5. CASE PushTest
    BY <2>5, NotQueued, Zenon DEF PushTest
  <2>6. CASE PushUnlock
    BY <2>6, NotQueued, Zenon DEF PushUnlock
  <2>7. CASE PushRefuse
    BY <2>7, NotQueued, Zenon DEF PushRefuse
  <2>8. CASE Refused
    BY <2>8, NotQueued, Zenon DEF Refused
  <2>9. CASE SendIpi
    BY <2>9, NotQueued, Zenon DEF SendIpi
  <2>10. CASE Finished
    BY <2>10, NotQueued, Zenon DEF Finished
  <2> QED  BY <1>3, <2>1, <2>2, <2>3, <2>4, <2>5, <2>6, <2>7, <2>8, <2>9, <2>10, ZenonT(120) DEF Stresses, BspStep
<1>4. ASSUME NEW p \in Aps, Enters(p)
      PROVE  UNCHANGED <<Waiting, taken>>
  BY <1>4, NotQueued, Zenon DEF Enters, Arrive
<1>5. ASSUME NEW p \in Aps, Works(p)
      PROVE  [Abstract!Next]_<<Waiting, taken>>
  <2>1. CASE PopTake(p)
    BY <2>1, TakeIsPop, Zenon DEF Abstract!Next
  <2>2. CASE Cli(p)
    BY <2>2, NotQueued, Zenon DEF Cli
  <2>3. CASE PopLock(p)
    BY <2>3, NotQueued, Zenon DEF PopLock
  <2>4. CASE PopRead(p)
    BY <2>4, NotQueued, Zenon DEF PopRead
  <2>5. CASE PopUnlock(p)
    BY <2>5, NotQueued, Zenon DEF PopUnlock
  <2>6. CASE Test(p)
    BY <2>6, NotQueued, Zenon DEF Test
  <2>7. CASE Job(p)
    BY <2>7, NotQueued, Zenon DEF Job
  <2>8. CASE CountJob(p)
    BY <2>8, NotQueued, Zenon DEF CountJob
  <2>9. CASE Idle(p)
    BY <2>9, NotQueued, Zenon DEF Idle
  <2>10. CASE StiHlt(p)
    BY <2>10, NotQueued, Zenon DEF StiHlt
  <2>11. CASE Woken(p)
    BY <2>11, NotQueued, Zenon DEF Woken
  <2> QED  BY <1>5, <2>1, <2>2, <2>3, <2>4, <2>5, <2>6, <2>7, <2>8, <2>9, <2>10, <2>11, ZenonT(120) DEF Works, ApStep
<1>6. ASSUME NEW p \in Aps, Pokes(p)
      PROVE  UNCHANGED <<Waiting, taken>>
  BY <1>6, NotQueued, Zenon DEF Pokes, TakeIpi
<1> QED  BY <1>1, <1>2, <1>3, <1>4, <1>5, <1>6, <1>7, Zenon DEF SmpNext

(***************************************************************************)
(* smp_work_push and smp_work_pop make a bounded first-in first-out queue  *)
(* of the ring, whatever the interleaving: the jobs from tail to head are  *)
(* JobQueue's queue, the put is its Push and the take its Pop.             *)
(***************************************************************************)
THEOREM RingIsQueue == SmpSpec => QueueRefined
<1>1. SmpInit => Abstract!Init
  <2> SUFFICES ASSUME SmpInit PROVE Abstract!Init
    BY Zenon
  <2>1. Waiting \in Seq(Jobs) /\ Len(Waiting) = count
    BY InitHolds, WaitingIsSeq, Zenon DEF Inv
  <2>2. count = 0 /\ taken = <<>>
    BY Zenon DEF SmpInit, Init
  <2> QED  BY <2>1, <2>2, EmptySeq, Zenon DEF Abstract!Init
<1>2. Inv /\ [SmpNext]_allVars => [Abstract!Next]_<<Waiting, taken>>
  BY StepRefines, Zenon
<1> QED  BY <1>1, <1>2, WorkInvariant, PTL DEF SmpSpec, QueueRefined, Abstract!Spec


-----------------------------------------------------------------------------
(* smp_spread_stress accounts for its jobs *)

\* The jobs in the ring so far: a push is counted when it returns.
Put == IF pc[Bsp] \in {"push_unlock", "ipi"} THEN pushed + 1 ELSE pushed

\* The job a processor has taken and not yet counted, 0 for none, and those that have
\* run theirs.
Load(p) == IF pc[p] \in {"pop_unlock", "test", "job", "finished"} THEN ebx[p] ELSE 0
Finishing == {p \in Aps : pc[p] = "finished"}
Counted == done \ {Load(p) : p \in Finishing}

\* smp_spread_stress queues the jobs in order and goes on to wait after the last.
Pusher ==
  /\ start = 0 /\ pushed <= Want
  /\ pc[Bsp] = "base" => pushed = 0
  /\ pc[Bsp] \in Carrying => ebx[Bsp] = pushed + 1
  /\ pc[Bsp] \in Carrying \cup {"push_unlock", "push_refuse", "refused", "ipi"} => pushed < Want
  /\ pc[Bsp] \in {"wait", "out"} => pushed = Want

\* EBX is cleared before a pop and holds the job until it is counted.
Register(p) ==
  /\ pc[p] \in {"job", "finished"} => ebx[p] # 0
  /\ pc[p] \in {"pop_lock", "pop_read"} => ebx[p] = 0
Registers == \A p \in Aps : Register(p)

\* The ring holds the last jobs that were put, in order.
Numbered ==
  /\ count <= Put
  /\ \A i \in 1 .. count : ring[At(i)] = Put - count + i

\* A job that was taken is with one processor, and done when that one has run it.
Loaded ==
  /\ \A p \in Aps : Load(p) # 0 => Load(p) \in 1 .. Put - count /\ (Load(p) \in done <=> p \in Finishing)
  /\ \A p, q \in Aps : Load(p) = Load(q) /\ Load(p) # 0 => p = q

Tally ==
  /\ done \subseteq 1 .. Put - count /\ jobs_run = Cardinality(Counted)
  /\ pc[Bsp] = "out" => Counted = 1 .. Want

Accounts == Pusher /\ Registers /\ Numbered /\ Loaded /\ Tally

\* A step that moves no job.
Calm ==
  /\ UNCHANGED <<ring, tail, count, done, jobs_run>> /\ Put' = Put
  /\ \A p \in Aps : Load(p)' = Load(p)
  /\ Finishing' = Finishing

LEMMA CalmCounts ==
  ASSUME Calm
  PROVE  Counted' = Counted
BY Zenon DEF Calm, Counted, Finishing

LEMMA CalmKeeps ==
  ASSUME Numbered, Loaded, Tally, Calm, pc'[Bsp] = "out" => pc[Bsp] = "out"
  PROVE  Numbered' /\ Loaded' /\ Tally'
<1>1. Numbered'
  BY Zenon DEF Numbered, Calm, At
<1>2. Loaded'
  BY Zenon DEF Loaded, Calm
<1>3. Tally'
  BY CalmCounts, Zenon DEF Tally, Calm
<1> QED  BY <1>1, <1>2, <1>3, Zenon

\* A step of the bootstrap processor leaves the others where they are.
LEMMA BspLoads ==
  ASSUME Types, BspStep, Registers
  PROVE  /\ \A p \in Aps : Load(p)' = Load(p)
         /\ Finishing' = Finishing /\ Registers'
<1>1. \A p \in Aps : pc'[p] = pc[p] /\ ebx'[p] = ebx[p]
  <2>1. \A p \in Aps : p \in Cpus /\ p # Bsp
    BY WorkAssumption, Zenon DEF Cpus
  <2> QED  BY <2>1, ZenonT(60) DEF Types, BspStep, Baseline, PushNext, PushLock, PushTest, PushPut, PushUnlock, PushRefuse, Refused, SendIpi, Finished, Goto, Set
<1> QED  BY <1>1, Zenon DEF Load, Finishing, Registers, Register

LEMMA PushPutAccounts ==
  ASSUME Inv, Accounts, PushPut
  PROVE  Accounts'
<1> USE WorkAssumption
<1>1. /\ head' = Advance(head) /\ count' = count + 1 /\ tail' = tail /\ done' = done /\ jobs_run' = jobs_run
      /\ ring' = [ring EXCEPT ![head] = ebx[Bsp]] /\ pushed' = pushed /\ start' = start
      /\ pc' = [pc EXCEPT ![Bsp] = "push_unlock"] /\ pc[Bsp] = "push_put"
  BY Zenon DEF PushPut, Goto, countVars, bspVars
<1>2. pc'[Bsp] = "push_unlock"
  BY <1>1, Zenon DEF Inv, Types, Cpus
<1>3. Put' = pushed + 1 /\ Put = pushed /\ ebx[Bsp] = pushed + 1
  BY <1>1, <1>2, Zenon DEF Put, Accounts, Pusher, Carrying
<1>4. Pusher'
  BY <1>1, <1>2, Zenon DEF Accounts, Pusher, Carrying
<1>5. /\ \A p \in Aps : Load(p)' = Load(p)
      /\ Finishing' = Finishing /\ Registers'
  BY BspLoads, Zenon DEF Inv, Accounts, BspStep
<1>6. tail \in Index /\ count \in 0 .. SMP_WORK_MAX /\ ring \in [Index -> Nat] /\ head \in Index /\ pushed \in Nat
  BY Zenon DEF Inv, Types
<1>7. count < SMP_WORK_MAX /\ head = At(count + 1)
  BY <1>1, Zenon DEF Inv, Reads, Window
<1>8. Put' - count' = Put - count
  BY <1>1, <1>3, <1>6
<1>9. Numbered'
  <2>1. count' <= Put'
    BY <1>1, <1>3, <1>6 DEF Accounts, Numbered
  <2>2. ASSUME NEW i \in 1 .. count'
        PROVE  (ring[At(i)] = Put - count + i)'
    <3>1. At(i)' = At(i)
      BY <1>1, Zenon DEF At
    <3>2. CASE i = count + 1
      <4>1. ring'[At(i)] = ebx[Bsp]
        BY <1>1, <1>6, <1>7, <3>2, Zenon
      <4> QED  BY <1>1, <1>3, <1>6, <3>1, <3>2, <4>1
    <3>3. CASE i \in 1 .. count
      <4>1. At(i) \in Index /\ At(i) # head
        BY <1>6, <1>7, <3>3, AtApart, Zenon
      <4>2. ring[At(i)] = Put - count + i
        BY <3>3, Zenon DEF Accounts, Numbered
      <4> QED  BY <1>1, <1>6, <1>8, <3>1, <4>1, <4>2, Zenon
    <3>4. i = count + 1 \/ i \in 1 .. count
      BY <1>1, <1>6
    <3> QED  BY <3>2, <3>3, <3>4, Zenon
  <2> QED  BY <2>1, <2>2, Zenon DEF Numbered
<1>10. Loaded'
  BY <1>1, <1>5, <1>8, Zenon DEF Accounts, Loaded
<1>11. Tally'
  BY <1>1, <1>2, <1>5, <1>8, Zenon DEF Accounts, Tally, Counted, Finishing
<1> QED  BY <1>4, <1>5, <1>9, <1>10, <1>11, Zenon DEF Accounts

\* Before the first push no job has run.
LEMMA NoneRun ==
  ASSUME Types, Pusher, Tally, pc[Bsp] = "base"
  PROVE  jobs_run = 0
<1>1. pushed = 0 /\ Put = 0 /\ count \in Nat
  <2>1. pushed = 0 /\ Put = pushed
    BY Zenon DEF Pusher, Put
  <2> QED  BY <2>1, WorkAssumption DEF Types
<1>2. 1 .. Put - count = {}
  BY <1>1
<1>3. Counted = {}
  BY <1>2, Zenon DEF Tally, Counted
<1> QED  BY <1>3, FS_EmptySet, Zenon DEF Tally

\* The pusher's own words; a push moves from the register to the count of pushes
\* with the job in the ring.
LEMMA BspPusher ==
  ASSUME Types, Pusher, Tally, BspStep, ~PushPut
  PROVE  Put' = Put /\ Pusher'
<1> USE WorkAssumption DEF Put, Pusher, Carrying, Goto, bspVars
<1>1. pc \in [Cpus -> Places] /\ Bsp \in Cpus /\ ebx \in [Cpus -> Nat] /\ pushed \in Nat
  BY Zenon DEF Types, Cpus
<1>2. CASE Baseline
  <2>1. pc[Bsp] = "base" /\ pc'[Bsp] = "push" /\ start' = jobs_run /\ pushed' = 0
    BY <1>1, <1>2, Zenon DEF Baseline
  <2>2. jobs_run = 0
    BY <2>1, NoneRun, Zenon
  <2> QED  BY <2>1, <2>2
<1>3. CASE PushNext
  <2>1. /\ pc[Bsp] = "push" /\ pushed' = pushed /\ start' = start
        /\ pc'[Bsp] = IF pushed < Want THEN "push_lock" ELSE "wait"
        /\ ebx'[Bsp] = IF pushed < Want THEN pushed + 1 ELSE 0
    BY <1>1, <1>3, Zenon DEF PushNext, Set
  <2> QED  BY <1>1, <2>1
<1>4. CASE PushLock
  <2>1. /\ pc[Bsp] = "push_lock" /\ pushed' = pushed /\ start' = start
        /\ pc'[Bsp] = "push_test" /\ ebx' = ebx
    BY <1>1, <1>4, Zenon DEF PushLock
  <2> QED  BY <2>1, Zenon
<1>5. CASE PushTest
  <2>1. /\ pc[Bsp] = "push_test" /\ pushed' = pushed /\ start' = start
        /\ pc'[Bsp] \in {"push_refuse", "push_put"} /\ ebx' = ebx
    BY <1>1, <1>5, Zenon DEF PushTest
  <2> QED  BY <2>1, Zenon
<1>6. CASE PushUnlock
  <2>1. /\ pc[Bsp] = "push_unlock" /\ pushed' = pushed /\ start' = start /\ pc'[Bsp] = "ipi"
    BY <1>1, <1>6, Zenon DEF PushUnlock
  <2> QED  BY <2>1, Zenon
<1>7. CASE PushRefuse
  <2>1. /\ pc[Bsp] = "push_refuse" /\ pushed' = pushed /\ start' = start /\ pc'[Bsp] = "refused"
    BY <1>1, <1>7, Zenon DEF PushRefuse
  <2> QED  BY <2>1, Zenon
<1>8. CASE Refused
  <2>1. /\ pc[Bsp] = "refused" /\ pushed' = pushed /\ start' = start /\ pc'[Bsp] = "push"
    BY <1>1, <1>8, Zenon DEF Refused
  <2> QED  BY <2>1, Zenon
<1>9. CASE SendIpi
  <2>1. /\ pc[Bsp] = "ipi" /\ pushed' = pushed + 1 /\ start' = start /\ pc'[Bsp] = "push"
    BY <1>1, <1>9, Zenon DEF SendIpi
  <2> QED  BY <1>1, <2>1
<1>10. CASE Finished
  <2>1. /\ pc[Bsp] = "wait" /\ pushed' = pushed /\ start' = start /\ pc'[Bsp] = "out"
    BY <1>1, <1>10, Zenon DEF Finished
  <2> QED  BY <2>1, Zenon
<1> QED  BY <1>2, <1>3, <1>4, <1>5, <1>6, <1>7, <1>8, <1>9, <1>10, ZenonT(60) DEF BspStep

\* The count of jobs run reaches the number put only when each was run and counted.
LEMMA AllCounted ==
  ASSUME Types, Pusher, Tally, Finished
  PROVE  Counted = 1 .. Want
<1>1. pc[Bsp] = "wait" /\ AllRun
  BY Zenon DEF Finished
<1>2. start = 0 /\ pushed = Want /\ Put = pushed
  BY <1>1, Zenon DEF Pusher, Put
<1>3. jobs_run >= Want
  BY <1>1, <1>2, WorkAssumption DEF AllRun
<1>4. count \in Nat /\ Want \in Nat
  BY WorkAssumption DEF Types
<1>5. Counted \subseteq 1 .. Want
  <2>1. 1 .. Put - count \subseteq 1 .. Want
    BY <1>2, <1>4
  <2> QED  BY <2>1, Zenon DEF Tally, Counted
<1>6. IsFiniteSet(1 .. Want) /\ Cardinality(1 .. Want) = Want
  <2>1. 1 \in Int /\ Want \in Int
    BY <1>4
  <2>2. /\ IsFiniteSet(1 .. Want)
        /\ Cardinality(1 .. Want) = IF 1 > Want THEN 0 ELSE Want - 1 + 1
    BY <2>1, FS_Interval, Zenon
  <2> QED  BY <1>4, <2>2
<1>7. /\ IsFiniteSet(Counted) /\ Cardinality(Counted) <= Cardinality(1 .. Want)
      /\ Cardinality(1 .. Want) = Cardinality(Counted) => 1 .. Want = Counted
  BY <1>5, <1>6, FS_Subset, Zenon
<1>8. Cardinality(Counted) \in Nat
  BY <1>7, FS_CardinalityType, Zenon
<1>9. jobs_run = Cardinality(Counted)
  BY Zenon DEF Tally
<1> QED  BY <1>3, <1>4, <1>6, <1>7, <1>8, <1>9

LEMMA BspAccounts ==
  ASSUME Inv, Accounts, BspStep, ~PushPut
  PROVE  Accounts'
<1>1. Types /\ Pusher /\ Registers /\ Numbered /\ Loaded /\ Tally
  BY Zenon DEF Inv, Accounts
<1>2. UNCHANGED <<ring, tail, count, done, jobs_run>>
  BY ZenonT(60) DEF BspStep, Baseline, PushNext, PushLock, PushTest, PushUnlock, PushRefuse, Refused, SendIpi, Finished, ringVars, queueVars, countVars
<1>3. Calm /\ Pusher' /\ Registers'
  BY <1>1, <1>2, BspPusher, BspLoads, Zenon DEF Calm
<1>4. CASE Finished
  <2>1. Counted' = 1 .. Want
    BY <1>1, <1>3, <1>4, AllCounted, CalmCounts, Zenon
  <2>2. Tally'
    BY <1>1, <1>3, <2>1, CalmCounts, Zenon DEF Tally, Calm
  <2>3. Numbered' /\ Loaded'
    BY <1>1, <1>3, Zenon DEF Numbered, Loaded, Calm, At
  <2> QED  BY <1>3, <2>2, <2>3, Zenon DEF Accounts
<1>5. CASE ~Finished
  <2>1. pc'[Bsp] # "out"
    <3>1. pc \in [Cpus -> Places] /\ Bsp \in Cpus
      BY <1>1, Zenon DEF Types, Cpus
    <3> QED  BY <1>5, <3>1, ZenonT(60) DEF BspStep, Baseline, PushNext, PushLock, PushTest, PushUnlock, PushRefuse, Refused, SendIpi, Goto
  <2> QED  BY <1>1, <1>3, <2>1, CalmKeeps, Zenon DEF Accounts
<1> QED  BY <1>4, <1>5, Zenon

\* A step of an application processor.
Moves(p) == Arrive(p) \/ ApStep(p) \/ TakeIpi(p)

\* It leaves the other processors where they are.
LEMMA ApElsewhere ==
  ASSUME NEW p \in Aps, Types, Pusher, Moves(p)
  PROVE  /\ Put' = Put /\ Pusher' /\ pc'[Bsp] = pc[Bsp]
         /\ \A q \in Aps : q # p => pc'[q] = pc[q] /\ ebx'[q] = ebx[q] /\ Load(q)' = Load(q)
<1>1. /\ pc \in [Cpus -> Places] /\ ebx \in [Cpus -> Nat] /\ p \in Cpus /\ Bsp \in Cpus /\ p # Bsp
      /\ \A q \in Aps : q \in Cpus
  BY WorkAssumption, Zenon DEF Types, Cpus
<1>2. pushed' = pushed /\ start' = start
  BY ZenonT(60) DEF Moves, ApStep, Arrive, Cli, PopLock, PopRead, PopTake, PopUnlock, Test, Job, CountJob, Idle, StiHlt, Woken, TakeIpi, bspVars
<1>3. \E v \in Places : pc' = [pc EXCEPT ![p] = v]
  BY <1>1, ZenonT(60) DEF Moves, ApStep, Arrive, Cli, PopLock, PopRead, PopTake, PopUnlock, Test, Job, CountJob, Idle, StiHlt, Woken, TakeIpi, Goto, Places
<1>4. ebx' = ebx \/ \E v : ebx' = [ebx EXCEPT ![p] = v]
  BY ZenonT(60) DEF Moves, ApStep, Arrive, Cli, PopLock, PopRead, PopTake, PopUnlock, Test, Job, CountJob, Idle, StiHlt, Woken, TakeIpi, Set
<1>5. \A c \in Cpus : c # p => pc'[c] = pc[c] /\ ebx'[c] = ebx[c]
  BY <1>1, <1>3, <1>4, Zenon
<1>6. pc'[Bsp] = pc[Bsp] /\ ebx'[Bsp] = ebx[Bsp]
  BY <1>1, <1>5, Zenon
<1>7. Put' = Put /\ Pusher'
  BY <1>2, <1>6, Zenon DEF Put, Pusher
<1>8. \A q \in Aps : q # p => pc'[q] = pc[q] /\ ebx'[q] = ebx[q] /\ Load(q)' = Load(q)
  BY <1>1, <1>5, Zenon DEF Load
<1> QED  BY <1>6, <1>7, <1>8, Zenon

\* Except for the take, the job and its count, no job moves.
LEMMA ApLoads ==
  ASSUME NEW p \in Aps, Types, Registers, Reads, Window, Moves(p)
  PROVE  /\ Register(p)'
         /\ ~PopTake(p) /\ ~Job(p) /\ ~CountJob(p) =>
              Load(p)' = Load(p) /\ (pc'[p] = "finished" <=> pc[p] = "finished")
<1> USE DEF Register, Load, Goto, Set
<1>1. pc \in [Cpus -> Places] /\ ebx \in [Cpus -> Nat] /\ p \in Cpus
  BY Zenon DEF Types, Cpus
<1>2. Register(p)
  BY Zenon DEF Registers
<1>3. CASE Arrive(p)
  BY <1>1, <1>3, Zenon DEF Arrive
<1>4. CASE Cli(p)
  BY <1>1, <1>4, Zenon DEF Cli
<1>5. CASE PopLock(p)
  BY <1>1, <1>2, <1>5, Zenon DEF PopLock
<1>6. CASE PopRead(p)
  BY <1>1, <1>2, <1>6, ZenonT(60) DEF PopRead
<1>7. CASE PopTake(p)
  BY <1>1, <1>7, Zenon DEF PopTake
<1>8. CASE PopUnlock(p)
  BY <1>1, <1>8, Zenon DEF PopUnlock
<1>9. CASE Test(p)
  BY <1>1, <1>9, ZenonT(60) DEF Test
<1>10. CASE Job(p)
  BY <1>1, <1>2, <1>10, Zenon DEF Job
<1>11. CASE CountJob(p)
  BY <1>1, <1>11, Zenon DEF CountJob
<1>12. CASE Idle(p)
  BY <1>1, <1>12, Zenon DEF Idle
<1>13. CASE StiHlt(p)
  BY <1>1, <1>13, Zenon DEF StiHlt
<1>14. CASE Woken(p)
  BY <1>1, <1>14, Zenon DEF Woken
<1>15. CASE TakeIpi(p)
  BY <1>1, <1>2, <1>15, ZenonT(60) DEF TakeIpi
<1> QED  BY <1>3, <1>4, <1>5, <1>6, <1>7, <1>8, <1>9, <1>10, <1>11, <1>12, <1>13, <1>14, <1>15, ZenonT(60) DEF Moves, ApStep

LEMMA ApRegisters ==
  ASSUME NEW p \in Aps, Inv, Accounts, Moves(p)
  PROVE  Registers'
<1>1. Register(p)'
  BY ApLoads, Zenon DEF Inv, Accounts
<1>2. \A q \in Aps : q # p => pc'[q] = pc[q] /\ ebx'[q] = ebx[q]
  BY ApElsewhere, Zenon DEF Inv, Accounts
<1> QED  BY <1>1, <1>2, Zenon DEF Accounts, Registers, Register

LEMMA ApAccounts ==
  ASSUME NEW p \in Aps, Inv, Accounts, Moves(p), ~PopTake(p), ~Job(p), ~CountJob(p)
  PROVE  Accounts'
<1>1. Types /\ Reads /\ Window /\ Pusher /\ Registers /\ Numbered /\ Loaded /\ Tally
  BY Zenon DEF Inv, Accounts
<1>2. UNCHANGED <<ring, tail, count, done, jobs_run>>
  BY ZenonT(60) DEF Moves, ApStep, Arrive, Cli, PopLock, PopRead, PopUnlock, Test, Idle, StiHlt, Woken, TakeIpi, ringVars, queueVars, countVars
<1>3. Load(p)' = Load(p) /\ (pc'[p] = "finished" <=> pc[p] = "finished")
  BY <1>1, ApLoads, Zenon
<1>4. /\ Put' = Put /\ Pusher' /\ pc'[Bsp] = pc[Bsp]
      /\ \A q \in Aps : q # p => pc'[q] = pc[q] /\ ebx'[q] = ebx[q] /\ Load(q)' = Load(q)
  BY <1>1, ApElsewhere, Zenon
<1>5. \A q \in Aps : Load(q)' = Load(q) /\ (pc'[q] = "finished" <=> pc[q] = "finished")
  BY <1>3, <1>4, Zenon
<1>6. Finishing' = Finishing
  BY <1>5, Zenon DEF Finishing
<1>7. Calm
  BY <1>2, <1>4, <1>5, <1>6, Zenon DEF Calm
<1> QED  BY <1>1, <1>4, <1>7, CalmKeeps, ApRegisters, Zenon DEF Accounts

\* The take hands the oldest job of the ring to one processor.
LEMMA TakeAccounts ==
  ASSUME NEW p \in Aps, Inv, Accounts, PopTake(p)
  PROVE  Accounts'
<1> USE WorkAssumption
<1>1. Types /\ Reads /\ Pusher /\ Numbered /\ Loaded /\ Tally /\ Moves(p)
  BY Zenon DEF Inv, Accounts, Moves, ApStep
<1>2. /\ tail' = Advance(eax[p]) /\ count' = count - 1 /\ ring' = ring /\ done' = done /\ jobs_run' = jobs_run
      /\ ebx' = ebx /\ pc' = [pc EXCEPT ![p] = "pop_unlock"] /\ pc[p] = "pop_take"
  BY Zenon DEF PopTake, Goto, countVars
<1>3. /\ Put' = Put /\ Pusher' /\ pc'[Bsp] = pc[Bsp]
      /\ \A q \in Aps : q # p => pc'[q] = pc[q] /\ ebx'[q] = ebx[q] /\ Load(q)' = Load(q)
  BY <1>1, ApElsewhere, Zenon
<1>4. tail \in Index /\ count \in 0 .. SMP_WORK_MAX /\ pushed \in Nat /\ pc'[p] = "pop_unlock"
  BY <1>1, <1>2, Zenon DEF Types, Cpus
<1>5. eax[p] = tail /\ ebx[p] = ring[tail] /\ count > 0
  BY <1>1, <1>2, Zenon DEF Reads
<1>6. Put \in Nat /\ count <= Put
  BY <1>1, <1>4 DEF Put, Numbered
<1>7. \A i \in 1 .. SMP_WORK_MAX : At(i)' = At(i + 1)
  BY <1>2, <1>4, <1>5 DEF At, Advance, Index
<1>8. ebx[p] = Put - count + 1
  <2>1. At(1) = tail /\ 1 \in 1 .. count
    BY <1>4, <1>5 DEF At, Index
  <2> QED  BY <1>1, <1>5, <2>1, Zenon DEF Numbered
<1>9. Numbered'
  <2>1. count' <= Put'
    BY <1>2, <1>3, <1>4, <1>6
  <2>2. ASSUME NEW i \in 1 .. count'
        PROVE  (ring[At(i)] = Put - count + i)'
    <3>1. i + 1 \in 1 .. count /\ i \in 1 .. SMP_WORK_MAX
      BY <1>2, <1>4
    <3>2. ring[At(i + 1)] = Put - count + (i + 1)
      BY <1>1, <3>1, Zenon DEF Numbered
    <3>3. ring'[At(i)'] = Put - count + (i + 1)
      BY <1>2, <1>7, <3>1, <3>2, Zenon
    <3> QED  BY <1>2, <1>3, <1>4, <1>6, <3>3
  <2> QED  BY <2>1, <2>2, Zenon DEF Numbered
<1>10. Load(p)' = Put - count + 1 /\ Put' - count' = Put - count + 1 /\ Load(p)' # 0
  <2>1. Load(p)' = ebx[p]
    BY <1>2, <1>4, Zenon DEF Load
  <2> QED  BY <1>2, <1>3, <1>4, <1>6, <1>8, <2>1
<1>11. Finishing' = Finishing /\ p \notin Finishing
  BY <1>2, <1>3, <1>4, Zenon DEF Finishing
<1>12. \A n \in 1 .. Put - count : n \in 1 .. Put' - count' /\ n # Load(p)'
  BY <1>4, <1>6, <1>10
<1>13. Load(p)' \in 1 .. Put' - count' /\ Load(p)' \notin done
  <2>1. Load(p)' \in 1 .. Put' - count' /\ Load(p)' \notin 1 .. Put - count
    BY <1>4, <1>6, <1>10
  <2> QED  BY <1>1, <2>1, Zenon DEF Tally
<1>14. Loaded'
  <2>1. ASSUME NEW q \in Aps, (Load(q) # 0)'
        PROVE  (Load(q) \in 1 .. Put - count /\ (Load(q) \in done <=> q \in Finishing))'
    <3>1. CASE q = p
      BY <1>2, <1>11, <1>13, <3>1, Zenon
    <3>2. CASE q # p
      <4>1. Load(q)' = Load(q) /\ Load(q) # 0
        BY <1>3, <2>1, <3>2, Zenon
      <4>2. Load(q) \in 1 .. Put - count /\ (Load(q) \in done <=> q \in Finishing)
        BY <1>1, <4>1, Zenon DEF Loaded
      <4> QED  BY <1>2, <1>11, <1>12, <4>1, <4>2, Zenon
    <3> QED  BY <3>1, <3>2, Zenon
  <2>2. ASSUME NEW q \in Aps, q # p, Load(q) # 0
        PROVE  Load(q) # Load(p)'
    BY <1>1, <1>12, <2>2, Zenon DEF Loaded
  <2>3. ASSUME NEW q \in Aps, NEW r \in Aps, (Load(q) = Load(r) /\ Load(q) # 0)'
        PROVE  q = r
    BY <1>1, <1>3, <1>10, <2>2, <2>3, ZenonT(60) DEF Loaded
  <2> QED  BY <2>1, <2>3, Zenon DEF Loaded
<1>15. Tally'
  <2>1. Counted' = Counted
    <3>1. {Load(q) : q \in Finishing}' = {Load(q) : q \in Finishing}
      BY <1>3, <1>11, ZenonT(60) DEF Finishing
    <3> QED  BY <1>2, <3>1, Zenon DEF Counted
  <2>2. done' \subseteq 1 .. Put' - count'
    BY <1>1, <1>2, <1>12, Zenon DEF Tally
  <2> QED  BY <1>1, <1>2, <1>3, <2>1, <2>2, Zenon DEF Tally
<1> QED  BY <1>1, <1>3, <1>9, <1>14, <1>15, ApRegisters, ZenonT(60) DEF Accounts

\* A job that has run is done; it was not before.
LEMMA JobAccounts ==
  ASSUME NEW p \in Aps, Inv, Accounts, Job(p)
  PROVE  Accounts'
<1>1. Types /\ Pusher /\ Registers /\ Numbered /\ Loaded /\ Tally /\ Moves(p)
  BY Zenon DEF Inv, Accounts, Moves, ApStep
<1>2. /\ ring' = ring /\ tail' = tail /\ count' = count /\ jobs_run' = jobs_run
      /\ done' = done \cup {ebx[p]} /\ ebx' = ebx
      /\ pc' = [pc EXCEPT ![p] = "finished"] /\ pc[p] = "job"
  BY Zenon DEF Job, Goto, ringVars, queueVars, countVars
<1>3. /\ Put' = Put /\ Pusher' /\ pc'[Bsp] = pc[Bsp]
      /\ \A q \in Aps : q # p => pc'[q] = pc[q] /\ ebx'[q] = ebx[q] /\ Load(q)' = Load(q)
  BY <1>1, ApElsewhere, Zenon
<1>4. pc'[p] = "finished"
  BY <1>1, <1>2, Zenon DEF Types, Cpus
<1>5. Load(p) = ebx[p] /\ Load(p)' = ebx[p] /\ Load(p) # 0
  BY <1>1, <1>2, <1>4, Zenon DEF Load, Registers, Register
<1>6. Finishing' = Finishing \cup {p} /\ p \notin Finishing
  BY <1>2, <1>3, <1>4, Zenon DEF Finishing
<1>7. Load(p) \in 1 .. Put - count /\ Load(p) \notin done
  BY <1>1, <1>5, <1>6, Zenon DEF Loaded
<1>8. \A q \in Aps : Load(q)' = Load(q)
  BY <1>3, <1>5, Zenon
<1>9. Numbered'
  BY <1>1, <1>2, <1>3, Zenon DEF Numbered, At
<1>10. Loaded'
  <2>1. ASSUME NEW q \in Aps, Load(q) # 0
        PROVE  Load(q) \in done' <=> q \in Finishing'
    <3>1. CASE q = p
      BY <1>2, <1>5, <1>6, <3>1, Zenon
    <3>2. CASE q # p
      <4>1. Load(q) # Load(p) /\ (Load(q) \in done <=> q \in Finishing)
        BY <1>1, <2>1, <3>2, Zenon DEF Loaded
      <4> QED  BY <1>2, <1>5, <1>6, <3>2, <4>1, Zenon
    <3> QED  BY <3>1, <3>2, Zenon
  <2>2. \A q \in Aps : (Load(q) # 0 => Load(q) \in 1 .. Put - count)'
    BY <1>1, <1>2, <1>3, <1>8, Zenon DEF Loaded
  <2>3. \A q, r \in Aps : (Load(q) = Load(r) /\ Load(q) # 0)' => q = r
    BY <1>1, <1>8, Zenon DEF Loaded
  <2>4. \A q \in Aps : (Load(q) # 0)' => (Load(q) \in done <=> q \in Finishing)'
    BY <1>8, <2>1, Zenon
  <2> QED  BY <2>2, <2>3, <2>4, Zenon DEF Loaded
<1>11. Tally'
  <2>1. Counted' = Counted
    <3>1. \A n : n \in {Load(q) : q \in Finishing}' <=> n \in {Load(q) : q \in Finishing} \/ n = Load(p)
      BY <1>6, <1>8, Zenon DEF Finishing
    <3> QED  BY <1>2, <1>5, <1>7, <3>1, Zenon DEF Counted
  <2>2. done' \subseteq 1 .. Put' - count'
    BY <1>1, <1>2, <1>3, <1>5, <1>7, Zenon DEF Tally
  <2> QED  BY <1>1, <1>2, <1>3, <2>1, <2>2, Zenon DEF Tally
<1> QED  BY <1>1, <1>3, <1>9, <1>10, <1>11, ApRegisters, ZenonT(60) DEF Accounts

\* The count goes up by the one job that was done and not counted.
LEMMA CountAccounts ==
  ASSUME NEW p \in Aps, Inv, Accounts, CountJob(p)
  PROVE  Accounts'
<1> USE WorkAssumption
<1>1. Types /\ Pusher /\ Registers /\ Numbered /\ Loaded /\ Tally /\ Moves(p)
  BY Zenon DEF Inv, Accounts, Moves, ApStep
<1>2. /\ ring' = ring /\ tail' = tail /\ count' = count /\ jobs_run' = jobs_run + 1 /\ done' = done
      /\ pc' = [pc EXCEPT ![p] = "cli"] /\ pc[p] = "finished"
  BY Zenon DEF CountJob, Goto, ringVars, queueVars
<1>3. /\ Put' = Put /\ Pusher' /\ pc'[Bsp] = pc[Bsp]
      /\ \A q \in Aps : q # p => pc'[q] = pc[q] /\ ebx'[q] = ebx[q] /\ Load(q)' = Load(q)
  BY <1>1, ApElsewhere, Zenon
<1>4. pc'[p] = "cli"
  BY <1>1, <1>2, Zenon DEF Types, Cpus
<1>5. Load(p) # 0 /\ Load(p)' = 0
  BY <1>1, <1>2, <1>4, Zenon DEF Load, Registers, Register
<1>6. Finishing' = Finishing \ {p} /\ p \in Finishing
  BY <1>2, <1>3, <1>4, Zenon DEF Finishing
<1>7. Load(p) \in done /\ \A q \in Aps : q # p => Load(q) # Load(p)
  BY <1>1, <1>5, <1>6, Zenon DEF Loaded
<1>8. Numbered'
  BY <1>1, <1>2, <1>3, Zenon DEF Numbered, At
<1>9. Loaded'
  <2>1. ASSUME NEW q \in Aps, (Load(q) # 0)'
        PROVE  q # p /\ Load(q)' = Load(q)
    BY <1>3, <1>5, <2>1, Zenon
  <2>2. \A q \in Aps : (Load(q) # 0 => Load(q) \in 1 .. Put - count)'
    BY <1>1, <1>2, <1>3, <2>1, ZenonT(60) DEF Loaded
  <2>3. \A q, r \in Aps : (Load(q) = Load(r) /\ Load(q) # 0)' => q = r
    BY <1>1, <2>1, Zenon DEF Loaded
  <2>4. ASSUME NEW q \in Aps, (Load(q) # 0)'
        PROVE  (Load(q) \in done <=> q \in Finishing)'
    <3>1. q # p /\ Load(q)' = Load(q) /\ Load(q) # 0
      BY <2>1, <2>4, Zenon
    <3>2. Load(q) \in done <=> q \in Finishing
      BY <1>1, <3>1, Zenon DEF Loaded
    <3> QED  BY <1>2, <1>6, <3>1, <3>2, Zenon
  <2> QED  BY <2>2, <2>3, <2>4, Zenon DEF Loaded
<1>10. Counted' = Counted \cup {Load(p)} /\ Load(p) \notin Counted
  <2>1. \A n : n \in {Load(q) : q \in Finishing}' <=> n \in {Load(q) : q \in Finishing} /\ n # Load(p)
    <3>1. \A q \in Finishing' : q \in Finishing /\ Load(q)' = Load(q) /\ Load(q) # Load(p)
      BY <1>3, <1>6, <1>7, Zenon DEF Finishing
    <3>2. \A q \in Finishing : q = p \/ q \in Finishing'
      BY <1>6, Zenon
    <3> QED  BY <3>1, <3>2, Zenon
  <2>2. Load(p) \in {Load(q) : q \in Finishing}
    BY <1>6, Zenon
  <2> QED  BY <1>2, <1>7, <2>1, <2>2, Zenon DEF Counted
<1>11. Tally'
  <2>1. IsFiniteSet(Counted)
    <3>1. Put - count \in Int
      BY <1>1 DEF Types, Put
    <3>2. IsFiniteSet(1 .. Put - count)
      BY <3>1, FS_Interval
    <3>3. Counted \in SUBSET (1 .. Put - count)
      BY <1>1, Zenon DEF Tally, Counted
    <3> QED  BY <3>2, <3>3, FS_Subset, Zenon
  <2>2. Cardinality(Counted \cup {Load(p)}) = Cardinality(Counted) + 1
    BY <1>10, <2>1, FS_AddElement, Zenon
  <2>3. jobs_run' = Cardinality(Counted')
    BY <1>1, <1>2, <1>10, <2>2, Zenon DEF Tally
  <2>4. pc[Bsp] # "out"
    <3>1. SUFFICES ASSUME pc[Bsp] = "out" PROVE FALSE
      BY Zenon
    <3>2. Put = Want /\ Counted = 1 .. Want
      BY <1>1, <3>1, Zenon DEF Pusher, Put, Tally
    <3>3. 1 .. Put - count \subseteq 1 .. Want
      BY <1>1, <3>2 DEF Types
    <3> QED  BY <1>1, <1>7, <1>10, <3>2, <3>3, Zenon DEF Tally
  <2> QED  BY <1>1, <1>2, <1>3, <2>3, <2>4, Zenon DEF Tally
<1> QED  BY <1>1, <1>3, <1>8, <1>9, <1>11, ApRegisters, ZenonT(60) DEF Accounts

LEMMA InitAccounts ==
  ASSUME SmpInit
  PROVE  Accounts
<1> USE WorkAssumption DEF SmpInit, Init, Cpus
<1>1. pc[Bsp] = "base" /\ Put = 0 /\ count = 0 /\ \A p \in Aps : pc[p] = "boot" /\ Load(p) = 0
  BY Zenon DEF Put, Load
<1>2. Pusher
  BY <1>1 DEF Pusher, Carrying
<1>3. Registers
  BY <1>1, Zenon DEF Registers, Register
<1>4. Numbered
  BY <1>1 DEF Numbered
<1>5. Loaded
  BY <1>1, Zenon DEF Loaded
<1>6. Tally
  <2>1. Counted = {}
    BY Zenon DEF Counted
  <2>2. jobs_run = Cardinality(Counted)
    BY <2>1, FS_EmptySet, Zenon
  <2> QED  BY <1>1, <2>2, Zenon DEF Tally
<1> QED  BY <1>2, <1>3, <1>4, <1>5, <1>6, Zenon DEF Accounts

LEMMA StutterAccounts ==
  ASSUME Accounts, UNCHANGED vars
  PROVE  Accounts'
<1> USE DEF vars, ringVars, queueVars, countVars, bspVars
<1>1. Pusher' /\ Registers'
  BY Zenon DEF Accounts, Pusher, Registers, Register
<1>2. Calm
  BY Zenon DEF Calm, Put, Load, Finishing
<1>3. pc' = pc
  BY Zenon
<1> QED  BY <1>1, <1>2, <1>3, CalmKeeps, Zenon DEF Accounts

\* smpstress comes after smp_start_aps.
Before == bootpc # "done" => pc[Bsp] = "base"

LEMMA NextBefore ==
  ASSUME Inv, Before, [SmpNext]_allVars
  PROVE  Before'
<1> USE DEF Before
<1>1. CASE UNCHANGED allVars
  BY <1>1, Zenon DEF allVars, vars, bootVars
<1>2. CASE Starts
  <2>1. pc'[Bsp] = pc[Bsp]
    BY <1>2, ResetEffect, Zenon DEF Starts, Inv
  <2>2. bootpc = "done" => FALSE
    BY <1>2, Zenon DEF Starts, Boot!BspStep, Boot!Entry, Boot!Skip, Boot!Wake, Boot!EndLoop, Boot!Poll, Boot!Report
  <2> QED  BY <2>1, <2>2, Zenon
<1>3. CASE Comes
  BY <1>3, Zenon DEF Comes, vars, Boot!ApStep, Boot!Online, Boot!WorkDone
<1>4. CASE Stresses
  BY <1>4, Zenon DEF Stresses, bootVars
<1>5. ASSUME NEW p \in Aps, Moves(p), UNCHANGED bootVars
      PROVE  Before'
  <2>1. p # Bsp /\ pc \in [Cpus -> Places]
    BY WorkAssumption, Zenon DEF Inv, Types
  <2>2. \E v : pc' = [pc EXCEPT ![p] = v]
    BY <1>5, ZenonT(60) DEF Moves, Arrive, ApStep, TakeIpi, Cli, PopLock, PopRead, PopTake, PopUnlock, Test, Job, CountJob, Idle, StiHlt, Woken, Goto
  <2>3. pc'[Bsp] = pc[Bsp]
    BY <2>1, <2>2, Zenon DEF Cpus
  <2> QED  BY <1>5, <2>3, Zenon DEF bootVars
<1> QED  BY <1>1, <1>2, <1>3, <1>4, <1>5, Zenon DEF SmpNext, Enters, Works, Pokes, Moves

\* A processor that is started again had no job: none was queued yet.
LEMMA ResetAccounts ==
  ASSUME Inv, Accounts, Before, Starts
  PROVE  Accounts'
<1>1. bootpc # "done"
  BY Zenon DEF Starts, Boot!BspStep, Boot!Entry, Boot!Skip, Boot!Wake, Boot!EndLoop, Boot!Poll, Boot!Report
<1>2. pc[Bsp] = "base" /\ pushed = 0 /\ Put = 0
  BY <1>1, Zenon DEF Before, Accounts, Pusher, Put
<1>3. 1 .. Put - count = {}
  <2>1. count \in Nat
    BY WorkAssumption DEF Inv, Types
  <2> QED  BY <1>2, <2>1
<1>4. \A p \in Aps : Load(p) = 0
  BY <1>3, Zenon DEF Accounts, Loaded
<1>5. \A p \in Aps : pc[p] # "finished"
  BY <1>4, Zenon DEF Accounts, Registers, Register, Load
<1>6. /\ UNCHANGED <<ring, tail, count, done, jobs_run, pushed, start>>
      /\ pc'[Bsp] = pc[Bsp] /\ ebx'[Bsp] = ebx[Bsp]
  BY ResetEffect, Zenon DEF Starts, Inv
<1>7. \A p \in Aps : \/ pc'[p] = "boot" /\ ebx'[p] = 0
                     \/ pc'[p] = pc[p] /\ ebx'[p] = ebx[p]
  <2>1. \A p \in Aps : \/ pc'[p] = "boot" /\ ebx'[p] = 0
                       \/ /\ pc'[p] = pc[p] /\ eax'[p] = eax[p] /\ ebx'[p] = ebx[p]
                          /\ ipi'[p] = ipi[p] /\ iflag'[p] = iflag[p]
    BY ResetEffect, Zenon DEF Starts, Inv
  <2> QED  BY <2>1, Zenon
<1>8. Pusher'
  <2>1. start = 0 /\ pushed <= Want
    BY Zenon DEF Accounts, Pusher
  <2> QED  BY <1>2, <1>6, <2>1 DEF Pusher, Carrying
<1>9. Registers'
  BY <1>7, Zenon DEF Accounts, Registers, Register
<1>10. Calm
  <2>1. Put' = Put
    BY <1>6, Zenon DEF Put
  <2>2. \A p \in Aps : Load(p)' = Load(p)
    BY <1>4, <1>7, Zenon DEF Load
  <2>3. Finishing' = Finishing
    BY <1>5, <1>7, Zenon DEF Finishing
  <2> QED  BY <1>6, <2>1, <2>2, <2>3, Zenon DEF Calm
<1> QED  BY <1>6, <1>8, <1>9, <1>10, CalmKeeps, Zenon DEF Accounts

LEMMA NextAccounts ==
  ASSUME Inv, Before, Accounts, [SmpNext]_allVars
  PROVE  Accounts'
<1>1. CASE UNCHANGED allVars
  BY <1>1, StutterAccounts, Zenon DEF allVars
<1>2. CASE Starts
  BY <1>2, ResetAccounts, Zenon
<1>3. CASE Stresses
  BY <1>3, PushPutAccounts, BspAccounts, Zenon DEF Stresses
<1>4. ASSUME NEW p \in Aps, Moves(p)
      PROVE  Accounts'
  BY <1>4, TakeAccounts, JobAccounts, CountAccounts, ApAccounts, Zenon
<1>5. CASE Comes
  BY <1>5, StutterAccounts, Zenon DEF Comes
<1> QED  BY <1>1, <1>2, <1>3, <1>4, <1>5, Zenon DEF SmpNext, Enters, Works, Pokes, Moves

(***************************************************************************)
(* smp_spread_stress returns only when every job it queued has been run,   *)
(* and smp_jobs_run has counted each of them once, for any number of       *)
(* processors, jobs and slots.                                             *)
(***************************************************************************)
THEOREM StressCorrect == SmpSpec => []StressAccounts
<1>1. Inv /\ Before /\ Accounts /\ [SmpNext]_allVars => Before' /\ Accounts'
  BY NextBefore, NextAccounts, Zenon
<1>3. SmpInit => Before
  BY Zenon DEF SmpInit, Init, Before, Cpus
<1>2. Inv /\ Accounts => StressAccounts
  <2> SUFFICES ASSUME Inv, Accounts, pc[Bsp] = "out"
               PROVE  done = 1 .. pushed /\ pushed = Want /\ jobs_run = start + Want
    BY Zenon DEF StressAccounts
  <2>1. pushed = Want /\ Put = Want /\ start = 0 /\ Counted = 1 .. Want /\ jobs_run = Cardinality(1 .. Want)
    BY Zenon DEF Accounts, Pusher, Put, Tally
  <2>2. Want \in Nat /\ count \in Nat
    BY WorkAssumption DEF Inv, Types
  <2>3. Cardinality(1 .. Want) = Want
    BY <2>2, FS_Interval
  <2>4. 1 .. Put - count \subseteq 1 .. Want
    BY <2>1, <2>2
  <2>5. done = 1 .. Want
    BY <2>1, <2>4, Zenon DEF Accounts, Tally, Counted
  <2> QED  BY <2>1, <2>2, <2>3, <2>5
<1> QED  BY <1>1, <1>2, <1>3, InitAccounts, WorkInvariant, PTL DEF SmpSpec

=============================================================================
