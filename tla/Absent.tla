-------------------------------- MODULE Absent --------------------------------
(***************************************************************************)
(* The value of a column, a variable or a file that holds none: NULL in    *)
(* the database, None in the scripts, a file that is not there.            *)
(***************************************************************************)
CONSTANT None
===============================================================================
