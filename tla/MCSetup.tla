------------------------------ MODULE MCSetup -------------------------------
(* Model-checking instances of Setup: devices as phones present them. *)
EXTENDS Setup

Alt(num, setting, class, eps) ==
  [num |-> num, setting |-> setting, class |-> class, eps |-> eps]

Plain == [alts |-> <<Alt(0, 0, "wireless", {}), Alt(1, 0, "cdcData", {"in", "out"})>>,
          drivers |-> {"comm"}]
\* Without a CDC data interface, and with endpoints in setting 1 only.
Vendor == [alts |-> <<Alt(0, 0, "other", {"in"}), Alt(2, 0, "vendor", {}),
                      Alt(3, 0, "other", {}), Alt(3, 1, "other", {"in", "out"})>>,
           drivers |-> {"comm", "data"}]
Half == [alts |-> <<Alt(0, 0, "cdcAcm", {}), Alt(1, 0, "cdcData", {"in"})>>,
         drivers |-> {"data"}]
Disk == [alts |-> <<Alt(0, 0, "other", {"in", "out"})>>, drivers |-> {}]

MCBuses == {<<Plain>>, <<Disk, Vendor>>, <<Half, Plain>>}
=============================================================================
