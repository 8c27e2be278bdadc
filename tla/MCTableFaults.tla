---------------------------- MODULE MCTableFaults ----------------------------
(* TableFaults on small instances.                                         *)
EXTENDS TableFaults

(* The state without its two histories, which no action reads: two states  *)
(* that differ only there have the same futures.                           *)
ProgramState ==
  <<m_rows, m_free_links, m_free_head, m_alive_count, m_columns>>
=============================================================================
