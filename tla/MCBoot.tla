------------------------------- MODULE MCBoot -------------------------------
(* Instances of Boot for TLC.                                              *)
EXTENDS Boot

(* Machines that differ in their memory, in where the firmware has its     *)
(* structure and how good the table is, and in what the table lists.       *)
Firmware(mp, ebda, table) == [mp |-> mp, ebda |-> ebda, table |-> table]
Machine(b, x, end, fw, entries) ==
  [base |-> b, ext |-> x, end |-> end, mp |-> fw.mp, ebda |-> fw.ebda,
   table |-> fw.table, entries |-> entries,
   cpus |-> Len(SelectSeq(entries, LAMBDA t : t = "MPPROC"))]
Bios == Firmware("F0000", TRUE, "good")
Three == <<"MPPROC", "MPPROC", "MPPROC", "other">>
MCMachines ==
  {Machine(b, e, n, Bios, Three) :
     b \in {80, 75, 64, 32}, e \in {0, 64, 96, 104, 112, 128}, n \in {128, 126}}
  \cup {Machine(80, 128, 128, Firmware(mp, ebda, t), <<"MPPROC", "MPPROC">>) :
     mp \in {"EBDA", "base", "E0000", "F0000", "none"}, ebda \in BOOLEAN,
     t \in {"good", "default", "signature", "checksum", "version", "extended"}}
  \cup {Machine(80, 128, 128, Bios, s) :
     s \in {<<"MPPROC">>, <<"MPPROC", "other", "MPPROC", "MPPROC", "MPPROC">>,
            <<"MPPROC", "MPPROC", "unknown", "MPPROC">>}}
=============================================================================
