------------------------------- MODULE MCDhcp -------------------------------
(***************************************************************************)
(* The instance of DhcpManager that TLC checks: addresses 0 to 15, two     *)
(* subnets of four and the one of eight that covers both.                  *)
(***************************************************************************)
EXTENDS DhcpManager

CONSTANTS m1, m2, tv, nas

Net(base, bits) == [base |-> base, bits |-> bits]
Scope(net, pool, gateway, enabled, odd) ==
  [net |-> net, pool |-> pool, gateway |-> gateway, enabled |-> enabled, odd |-> odd]
Low == Scope(Net(0, 2), <<1, 2>>, None, TRUE, FALSE)

Bodies ==
  {[Low EXCEPT !.gateway = 2], [Low EXCEPT !.odd = TRUE],
   Scope(Net(0, 3), <<1, 6>>, None, TRUE, FALSE),
   Scope(Net(1, 2), <<2, 3>>, None, TRUE, FALSE), Scope(Net(0, 2), <<1, 3>>, None, TRUE, FALSE)}

Res(mac, ip, host) == [scope |-> 1, mac |-> mac, ip |-> ip, host |-> host]
ResRows == {Res(m1, 2, tv), Res(m2, 5, None)}

Lease(ip, mac, host, expires) ==
  [scope |-> 1, ip |-> ip, mac |-> mac, host |-> host, expires |-> expires, state |-> "active"]
Leases == {Lease(1, m2, tv, 2), Lease(2, m1, tv, 1), Lease(2, m2, None, 1),
           [Lease(1, m1, None, 1) EXCEPT !.state = "declined"]}

\* The second scope overlaps the first, and is switched off.
TwoScopes == [i \in {1, 2} |-> IF i = 1 THEN Low ELSE Scope(Net(0, 3), <<1, 6>>, None, FALSE, FALSE)]
OneReservation == [i \in {1} |-> Res(m2, 2, nas)]

Budget(host, edits, releases, grants, box, faults) ==
  [host |-> host, edits |-> edits, releases |-> releases, grants |-> grants, boxes |-> box, faults |-> faults]

\* Two edits; an edit and a fault; two faults; two grants and two releases; a
\* lease with an edit, a release or a fault; a replica that comes and goes,
\* with and without a host for the peers to reach.
Scenarios ==
  {Budget(FALSE, 2, 0, 0, 0, 0), Budget(TRUE, 1, 0, 0, 0, 1), Budget(TRUE, 0, 0, 0, 0, 2),
   Budget(FALSE, 0, 2, 2, 0, 0), Budget(TRUE, 1, 1, 1, 0, 0), Budget(TRUE, 0, 1, 1, 0, 1),
   Budget(TRUE, 0, 0, 0, 2, 1), Budget(FALSE, 0, 0, 0, 1, 0)}
=============================================================================
