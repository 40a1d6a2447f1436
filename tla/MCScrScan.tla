----------------------------- MODULE MCScrScan -----------------------------
(***************************************************************************)
(* Findings for the runs of ScrScan.                                       *)
(***************************************************************************)
EXTENDS ScrScan

Finding(id, batch, scanner, severe, excluded) ==
  [id |-> id, batch |-> batch, scanner |-> scanner, severe |-> severe,
   excluded |-> excluded]

\* What a worker scans: files named in the record, so no repository scanners.
FilesOnly ==
  {Finding("sink", 1, "heuristics", FALSE, FALSE),
   Finding("note", 1, "heuristics", FALSE, TRUE),
   Finding("key", 2, "patterns", TRUE, FALSE)}
=============================================================================
