------------------------------- MODULE MCSmp --------------------------------
(***************************************************************************)
(* The processor lists of the run smp.  The bootstrap processor has ID 1;  *)
(* the table of IDs has room for three.                                    *)
(***************************************************************************)
EXTENDS Smp

\* In place, with the bootstrap processor between the others; an ID past its place,
\* then an x2APIC entry; a list whose walk comes back to processor 0; one entry more
\* than the table holds.
MCTables == {<<0, 1, 2>>, <<1, 2, X2APIC>>, <<1, 0>>, <<1, 2, X2APIC, X2APIC>>}

=============================================================================
