----------------------------- MODULE MCAdbKeys -----------------------------
(* A keyboard on the input task and an automation session. *)
EXTENDS AdbKeys

MCTask   == {"input", "automation"}
MCSource == {"usb", "serial"}
MCTaskOf == [s \in MCSource |-> IF s = "serial" THEN "automation" ELSE "input"]
=============================================================================
