---------------------------- MODULE MCBdgStatic -----------------------------
(* Three MAC addresses, of which the first and the third share a slot, and *)
(* one IP address, on one or two bridges.  The first option of every line  *)
(* is one that getopt passes over.                                         *)
EXTENDS BdgStatic

MCMacHash == <<0, 1, 0>>
MCIpHash == <<1>>

Skipped == Option("d", 0)

MCLines ==
  UNION {
    {Line(dev, "regfn", <<Skipped, Option("m", 1), Option("b", b), Option("p", 1)>>) :
       dev \in {"mac", "ip"}, b \in Bridges},
    {Line(dev, "regfn", <<Skipped, Option("b", b), Option("p", 2), Option("m", 1)>>) :
       dev \in {"mac", "ip"}, b \in Bridges},
    {Line("mac", "addif", <<Skipped, Option("p", 2), Option("d", a % 3), Option("m", a),
                            Option("b", b), Option("d", 1)>>) :
       a \in Macs, b \in Bridges},
    {Line("mac", "addif", <<Skipped, Option("4", 2), Option("m", 1), Option("d", 2),
                            Option("b", b)>>) :
       b \in Bridges},
    {Line("ip", "addif", <<Skipped, Option("4", a), Option("d", 0), Option("b", b),
                           Option("d", p)>>) :
       a \in Ips, b \in Bridges, p \in {1, 2}},
    {Line("mac", "listif", <<Skipped, Option("b", b), Option("m", 1)>>) : b \in Bridges},
    {Line("ip", "listif", <<Skipped, Option("b", b), Option("4", 1)>>) : b \in Bridges}}
=============================================================================
