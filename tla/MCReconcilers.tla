--------------------------- MODULE MCReconcilers ---------------------------
EXTENDS Reconcilers, TLC

Plain == [monitor |-> FALSE, ports |-> {}, ref |-> FALSE, inline |-> FALSE]
Monitored == [Plain EXCEPT !.monitor = TRUE]

\* With and without a monitor; for a Tor object a control port, with the stored
\* password and without a client's port, or with passwords of the user's.
AllSpecs == [OnionService |-> {Plain, Monitored},
             OnionBalancedService |-> {Plain, Monitored},
             Tor |-> {[Monitored EXCEPT !.ports = {"control", "metrics"}],
                      [Plain EXCEPT !.ports = {"control", "dns"}, !.ref = TRUE],
                      [Plain EXCEPT !.ports = {"control"}, !.inline = TRUE]}]

MonitoredSpecs == [k \in {"OnionBalancedService"} |-> {Monitored}]

Http == [name |-> "http", number |-> 8080, protocol |-> "TCP"]
Quic == [name |-> "", number |-> 80, protocol |-> "UDP"]

\* No service; one with a port of the name; one with a port of the number for
\* another protocol only.
AllTargets == {NoTarget, [exists |-> TRUE, ports |-> {Http}], [exists |-> TRUE, ports |-> {Quic}]}
=============================================================================
