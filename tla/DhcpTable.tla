----------------------------- MODULE DhcpTable -----------------------------
(***************************************************************************)
(* The lease table and the names it answers (dhcp/leases.go,               *)
(* dhcp/names.go), and the rules a scope and a reservation are stored      *)
(* under (store/dhcp.go), as operators.                                    *)
(*                                                                         *)
(* An address is a number; a subnet is its base and its host bits.  A      *)
(* hostname is the label SanitizeLabel leaves of it, None when it leaves   *)
(* nothing; every scope has the same domain, so a label is a name wherever *)
(* there is a suffix to join it to.                                        *)
(***************************************************************************)
EXTENDS Integers, Sequences, FiniteSets, SequencesExt

CONSTANT None

\* lastAddr: the address whose host bits are all ones.
lastAddr(net) == net.base + 2 ^ net.bits - 1

Contains4(net, ip) == ip \in net.base .. lastAddr(net)

\* parseSubnet refuses a prefix with host bits set.
parseSubnet(net) == net.base % 2 ^ net.bits = 0

Overlaps(n, m) == n.base <= lastAddr(m) /\ m.base <= lastAddr(n)

validatePool(s) ==
  /\ Contains4(s.net, s.pool[1]) /\ Contains4(s.net, s.pool[2])
  /\ s.pool[1] <= s.pool[2]
  /\ {s.pool[1], s.pool[2]} \cap {s.net.base, lastAddr(s.net)} = {}

\* A scope without a pool hands out reservations only.
ValidateScope(id, s, scopes) ==
  /\ parseSubnet(s.net)
  /\ s.pool = None \/ validatePool(s)
  /\ s.gateway = None \/ Contains4(s.net, s.gateway)
  /\ s.enabled =>
       \A o \in DOMAIN scopes \ {id} : scopes[o].enabled => ~Overlaps(scopes[o].net, s.net)

ValidateReservation(id, r, s, all) ==
  /\ Contains4(s.net, r.ip) /\ r.ip # s.gateway
  /\ \A o \in DOMAIN all \ {id} : all[o].scope = r.scope =>
       /\ all[o].mac # r.mac /\ all[o].ip # r.ip
       /\ r.host = None \/ all[o].host # r.host

-----------------------------------------------------------------------------

\* The reservation a lease is an instance of: by hardware address, else by
\* address.  Rows come in id order.
MatchOf(l, rs) ==
  LET mac == SelectLastInSeq(rs, LAMBDA r : r.scope = l.scope /\ r.mac = l.mac)
      ip  == SelectLastInSeq(rs, LAMBDA r : r.scope = l.scope /\ r.ip = l.ip)
  IN IF mac # 0 THEN mac ELSE ip

\* The name an entry is indexed under: an entry of a scope that was not among
\* the ones read has no suffix, and so no name.
nameKey(host, scope, scopes) == IF scope \in scopes THEN host ELSE None

\* An entry's expires is 0 when nothing is leased.
LeaseEntry(l, mem) ==
  LET i == MatchOf(l, mem.res)
      host == IF l.host = None /\ i # 0 THEN mem.res[i].host ELSE l.host
  IN [scope |-> l.scope, ip |-> l.ip, mac |-> l.mac, expires |-> l.expires, reserved |-> i # 0,
      host |-> host, name |-> nameKey(host, l.scope, mem.scopes)]

Unleased(r, mem) ==
  [scope |-> r.scope, ip |-> r.ip, mac |-> r.mac, expires |-> 0, reserved |-> TRUE,
   host |-> r.host, name |-> nameKey(r.host, r.scope, mem.scopes)]

\* What a loop over s appends to a new slice when it skips all but some indices.
Keep(s, some) ==
  LET out[i \in 0..Len(s)] == IF i = 0 THEN <<>> ELSE IF i \in some THEN Append(out[i - 1], s[i]) ELSE out[i - 1]
  IN out[Len(s)]

\* A declined or reclaimed lease is no entry of the table.
Active(leases) == Keep(leases, {i \in DOMAIN leases : leases[i].state = "active"})

\* The active leases in the order the engine pages them, then the reservations
\* none of them is an instance of.  mem is what was read of the rows: the ids
\* of the scopes, and the reservations.
tableFrom(leases, mem) ==
  LET held == Active(leases)
      free == Keep(mem.res, DOMAIN mem.res \ {MatchOf(held[i], mem.res) : i \in DOMAIN held})
  IN [i \in DOMAIN held |-> LeaseEntry(held[i], mem)] \o [i \in DOMAIN free |-> Unleased(free[i], mem)]

\* Mutant: a released reservation keeps its lease.
withoutForgets(t, ip) == Keep(t, {i \in DOMAIN t : t[i].ip # ip \/ t[i].reserved})

\* A reservation outlives its lease.
without(t, ip) ==
  LET kept == Keep(t, {i \in DOMAIN t : t[i].ip # ip \/ t[i].reserved})
  IN [i \in DOMAIN kept |-> IF kept[i].ip = ip THEN [kept[i] EXCEPT !.expires = 0] ELSE kept[i]]

outranks(a, b) == IF a.reserved # b.reserved THEN a.reserved ELSE a.expires > b.expires

\* The index of the entry that holds a key, scanning as newTable does: a
\* later entry takes the key from an earlier one only when it outranks it.
Scan(t, field, key) ==
  LET held[i \in 0..Len(t)] ==
        IF i = 0 THEN 0
        ELSE IF t[i][field] # key \/ (held[i - 1] # 0 /\ ~outranks(t[i], t[held[i - 1]])) THEN held[i - 1] ELSE i
  IN held[Len(t)]

ByIP(t, ip) == SelectLastInSeq(t, LAMBDA e : e.ip = ip)

ByMAC(t, mac) == Scan(t, "mac", mac)
ByName(t, name) == IF name = None THEN 0 ELSE Scan(t, "name", name)

\* ttlFor: an unleased reservation always answers, a lease until it ends.
Answers(e, now) == e.expires = 0 \/ e.expires > now

\* The A answer to a name, and the PTR answer to an address in a scope.
forward(t, name, now) ==
  LET i == ByName(t, name) IN IF i # 0 /\ Answers(t[i], now) THEN t[i].ip ELSE None

inAnyScope(ip, scopes) == \E s \in DOMAIN scopes : Contains4(scopes[s].net, ip)

\* A row whose scope is gone has no suffix, and so no name.
reverse(t, ip, scopes, now) ==
  LET i == ByIP(t, ip) IN
  IF /\ inAnyScope(ip, scopes)
     /\ i # 0 /\ t[i].scope \in DOMAIN scopes /\ Answers(t[i], now)
  THEN t[i].host ELSE None
=============================================================================
