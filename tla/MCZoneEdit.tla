----------------------------- MODULE MCZoneEdit -----------------------------
(***************************************************************************)
(* The instance of ZoneEdit that TLC checks: two names, one address, and   *)
(* a reverse zone whose serial wraps at its first change.                  *)
(***************************************************************************)
EXTENDS ZoneEdit

CONSTANTS za, zb, n1, n2, x, other

Row(name, serial) == [live |-> TRUE, name |-> name, type |-> "primary", enabled |-> TRUE, serial |-> serial]
Rows == [z \in Zones |-> Row(IF z = fwd THEN za ELSE rev, IF z = fwd THEN 3 ELSE Modulus - 1)]

Body(z, name, type, data, ttl, on) ==
  [zone |-> z, name |-> name, type |-> type, data |-> data, ttl |-> ttl, on |-> on]
A(name, ttl) == Body(fwd, name, "A", x, ttl, TRUE)
PTR(data) == Body(rev, x, "PTR", data, 1, TRUE)

\* One name has the address, and its PTR.
StartRecs == 1 :> AsRow(A(n1, 1), FALSE) @@ 2 :> AsRow(PTR(<<za, n1>>), TRUE)

SomeBodies == {A(n1, 1), A(n1, 2), A(n2, 1), Body(fwd, n2, "CNAME", other, 1, TRUE),
               Body(fwd, n1, "A", x, 1, FALSE), PTR(other)}

File(serial, bodies) == [zone |-> fwd, serial |-> serial, recs |-> bodies]
NearFiles == {File(1, {A(n1, 2), A(n2, 1)}), File(4, {A(n2, 1)}),
              File(4, {A(n2, 1), Body(fwd, n2, "CNAME", other, 1, TRUE)})}

Patch(z, field, value) == [zone |-> z, field |-> field, value |-> value]
SomePatches == {Patch(fwd, "name", zb), Patch(fwd, "enabled", FALSE), Patch(fwd, "enabled", TRUE), Patch(rev, "enabled", FALSE)}

Nothing == [k \in Kinds \cup {"fail", "crash"} |-> 0]
Two(a, b) == [Nothing EXCEPT ![a] = @ + 1, ![b] = @ + 1]

\* Two requests at once, one request and a failure or a crash.
Scenarios ==
  {Two("create", "create"), Two("create", "delete"), Two("update", "delete"), Two("ttl", "create"),
   Two("ttl", "delete"), Two("import", "create"), Two("import", "import"), Two("import", "ttl"),
   Two("patch", "delete"), Two("patch", "patch"), Two("patch", "create"), Two("drop", "create")}
    \cup {Two(k, f) : k \in Kinds, f \in {"fail", "crash"}}
=============================================================================
