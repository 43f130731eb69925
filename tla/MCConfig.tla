------------------------------ MODULE MCConfig ------------------------------
(* Model-checking instances of Config. *)
EXTENDS Config

Line(section, key, val) == [section |-> section, key |-> key, val |-> val]

MCFiles ==
  {<<>>,
   <<Line("network", "static_ip", "A"), Line("network", "no_route", "yes"),
     Line("logging", "level", "warning")>>,
   <<Line("network", "static_ip", "B"), Line("network", "static_ip", ""),
     Line("network", "gateway", "E"), Line("network", "no_dns", "maybe")>>,
   <<Line("logging", "static_ip", "C"), Line("network", "watch_mode", "1"),
     Line("logging", "level", "loud")>>}

Opt(opt, arg) == [opt |-> opt, arg |-> arg]

MCOptions ==
  {Opt("n", ""), Opt("d", ""), Opt("s", "D"), Opt("g", "F"), Opt("m", ""),
   Opt("v", ""), Opt("w", ""), Opt("p", 0), Opt("p", 42), Opt("p", 256),
   Opt("h", ""), Opt("V", ""), Opt("?", ""), Opt("c", NoFile)}
  \cup {Opt("c", f) : f \in MCFiles}
=============================================================================
