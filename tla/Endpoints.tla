------------------------------ MODULE Endpoints ------------------------------
(***************************************************************************)
(* Whether a connection to an address would come back to one of the        *)
(* broker's own listeners.  An address is [fam, host, port]: fam "v4",     *)
(* "v6" or "mapped" (an IPv4 address written as IPv6), host "any"          *)
(* (unspecified), "loopback", "nic" (an address of an interface of this    *)
(* machine) or "far".                                                      *)
(***************************************************************************)
EXTENDS Naturals

Address(fam, host, port) == [fam |-> fam, host |-> host, port |-> port]
AddressFam == {"v4", "v6", "mapped"}
AddressHost == {"any", "loopback", "nic", "far"}
IsAddress(a) == a \in [fam : AddressFam, host : AddressHost, port : Nat]

canonical_ip(a) == IF a.fam = "mapped" THEN [a EXCEPT !.fam = "v4"] ELSE a

(* Mutant: compares addresses without canonicalising them. *)
containsUncanonical(listener, candidate) ==
    /\ candidate.port = listener.port
    /\ \/ candidate.host = "any" \/ candidate = listener
       \/ /\ listener.host = "any"
          /\ ~(listener.fam = "v4" /\ candidate.fam # "v4")
          /\ candidate.host \in {"loopback", "nic"}
\* ListenerEndpoint::contains.  "loopback" and "nic" are the candidates that
\* is_loopback or the interface list recognises.
contains(listener, candidate) ==
    LET c == canonical_ip(candidate)  l == canonical_ip(listener)
    IN  /\ c.port = l.port
        /\ \/ c.host = "any" \/ c = l
           \/ /\ l.host = "any"
              /\ ~(l.fam = "v4" /\ c.fam = "v6")
              /\ c.host \in {"loopback", "nic"}
\* The interface list is only read when everything before it left the
\* question open; then it may fail.
NeedsInterfaces(listener, candidate) ==
    LET c == canonical_ip(candidate)  l == canonical_ip(listener)
    IN  /\ c.port = l.port /\ c.host \notin {"any", "loopback"} /\ c # l
        /\ l.host = "any" /\ ~(l.fam = "v4" /\ c.fam = "v6")

\* Where a connection to a really arrives when this machine listens on l: an
\* unspecified address means the loopback of its family, and a wildcard IPv6
\* listener also takes IPv4.
Arrives(l, a) ==
    LET local == IF a.host = "any" THEN "loopback" ELSE a.host
        family == IF a.fam = "mapped" THEN "v4" ELSE a.fam
        lfam == IF l.fam = "mapped" THEN "v4" ELSE l.fam
    IN  /\ a.port = l.port /\ local # "far"
        /\ \/ l.host = local /\ lfam = family
           \/ l.host = "any" /\ (lfam = family \/ lfam = "v6")

=============================================================================
