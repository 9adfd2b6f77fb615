------------------------------ MODULE MCReports -----------------------------
(* A plate, a plate whose url has no file name, and one with the mapping of *)
(* an external spool, which is too long.                                    *)
EXTENDS Reports

Plates ==
  { [command |-> "project_file", file |-> "job-1", param |-> "plate_1", mapping |-> <<-1, 0, -1, -1>>],
    [command |-> "project_file", file |-> "", param |-> "plate_2", mapping |-> <<-1, -1, -1, -1>>],
    [command |-> "project_file", file |-> "job-3", param |-> "plate_1", mapping |-> <<0, -1, -1, -1, -1>>] }

Spools == {-1}

=============================================================================
