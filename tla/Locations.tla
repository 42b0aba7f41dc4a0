------------------------------ MODULE Locations ------------------------------
(* Where the indexes of src/tsdb/index point: paths of files, to them strings. *)
CONSTANT Location
=============================================================================
