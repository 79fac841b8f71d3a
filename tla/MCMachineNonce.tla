--------------------------- MODULE MCMachineNonce ---------------------------
(* The machine of the package's tests, for TLC. *)
EXTENDS MachineNonce

TestStates == {"initial", "processing", "error", "finished"}
TestTable  == [s \in TestStates |->
                 CASE s = "initial"    -> {"processing"}
                   [] s = "processing" -> {"error", "finished"}
                   [] OTHER            -> {}]
=============================================================================
