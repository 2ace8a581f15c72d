---------------------------- MODULE IpReputation ----------------------------
(* The IP collector: what the address a request came from says about it.   *)
(* An address is what the code can tell about it: whether it parses, is of *)
(* a local range, is on the Tor list, the AS the MaxMind database names    *)
(* for it (0 for none, and always 0 in the shipped build, whose database   *)
(* file is empty) and the prefix of the built-in table it falls in. The    *)
(* LRU in front of compute keeps values that never change, so it is left   *)
(* out.                                                                    *)
EXTENDS Integers, Sequences

\* The built-in table: AS numbers and the prefixes listed for them, no two of
\* which overlap.
FallbackTable == {
  <<16509, {"3.0.0.0/8", "52.0.0.0/8", "54.0.0.0/8"}>>, <<14618, {"18.0.0.0/8"}>>,
  <<39111, {"100.24.0.0/13"}>>, <<15169, {"34.0.0.0/8", "35.0.0.0/8"}>>,
  <<396982, {"104.196.0.0/14"}>>, <<8075, {"20.0.0.0/8", "40.0.0.0/8"}>>,
  <<14061, {"67.205.0.0/16", "68.183.0.0/16", "157.245.0.0/16"}>>,
  <<63949, {"45.33.0.0/17", "139.162.0.0/16"}>>,
  <<24940, {"5.9.0.0/16", "88.99.0.0/16", "195.201.0.0/16"}>>,
  <<16276, {"5.135.0.0/16", "91.121.0.0/16"}>>,
  <<20473, {"45.63.0.0/16", "45.77.0.0/16"}>>,
  <<13335, {"1.1.1.0/24", "104.16.0.0/13"}>> }

Datacenters == {16509, 14618, 39111, 15169, 396982, 8075, 14061, 63949, 24940, 16276, 20473}
Hosting == {13335, 54113, 20940}

LookupFallback(a) == LET hit == {e \in FallbackTable : a.prefix \in e[2]}
                     IN  IF hit = {} THEN 0 ELSE (CHOOSE e \in hit : TRUE)[1]
LookupASN(a) == IF a.database # 0 THEN a.database ELSE LookupFallback(a)

\* The mutant takes a provider of the table for a hosting network.
CategorizeHosting(asn) == IF asn \in Hosting \cup {39111} THEN "hosting"
                          ELSE IF asn \in Datacenters THEN "datacenter" ELSE "unknown"
Categorize(asn) == IF asn \in Datacenters THEN "datacenter"
                   ELSE IF asn \in Hosting THEN "hosting" ELSE "unknown"

\* Collector.Collect; the branches for mobile and residential networks are dead,
\* because Categorize never answers either.
Collect(a) ==
  LET signal(name, n) == <<[name |-> name, score |-> n]>>
  IN  IF ~a.parses \/ a.local THEN <<>>
      ELSE (IF a.tor THEN signal("tor_exit", 50) ELSE <<>>)
           \o (IF Categorize(LookupASN(a)) = "datacenter"
               THEN signal("datacenter_ip", 30) ELSE <<>>)
=============================================================================
