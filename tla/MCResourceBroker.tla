-------------------------- MODULE MCResourceBroker --------------------------
(* Two brokers at once, of every two kinds that share something, and those *)
(* that are refused; three companions instead of ten.                      *)
EXTENDS ResourceBroker, TLC

CONSTANTS b1, b2
MCBroker == {b1, b2}

Ask(type, companions, manager) == [type |-> type, companion |-> companions, manager |-> manager]
Both(r, s) == (b1 :> r) @@ (b2 :> s)
MCRequests ==
  {Both(Ask("booted", TRUE, TRUE), Ask("booted", FALSE, TRUE)),
   Both(Ask("booted", TRUE, TRUE), Ask("unbooted", TRUE, TRUE)),
   Both(Ask("macos", TRUE, FALSE), Ask("macos", FALSE, FALSE)),
   Both(Ask("unbooted", FALSE, TRUE), Ask("unbooted", TRUE, FALSE))}

Device(family) == [family |-> family]
Runtime(version, families) == [version |-> version, types |-> [n \in DOMAIN families |-> Device(families[n])]]
MCRuntimeLists ==
  {<<>>, <<Runtime(1, <<"iPad", "iPhone">>)>>, <<Runtime(1, <<"iPhone">>), Runtime(2, <<"iPad">>)>>}
MCInitialSims == {<<>>, <<"Shutdown">>, <<"Shutdown", "Booted">>, <<"Booting">>}
=============================================================================
