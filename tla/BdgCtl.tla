------------------------------- MODULE BdgCtl -------------------------------
(***************************************************************************)
(* bdgfnctl, the operator's tool: a command line becomes a request for the *)
(* device of a lookup module.  A line is a device, a command and options,  *)
(* each with its value.  An address stands for its bytes.                  *)
(*                                                                         *)
(* The request is in memory malloc has not cleared, so a line has to give  *)
(* what its command uses.                                                  *)
(***************************************************************************)
EXTENDS Naturals, Sequences, SequencesExt

Option(opt, val) == [opt |-> opt, val |-> val]
Line(dev, cmd, opts) == [dev |-> dev, cmd |-> cmd, opts |-> opts]

(* struct bdgreq; what no option sets, the command must not use. *)
NoRequest == [b |-> 0, addr |-> 0, port |-> 0, dst |-> 0]

(* One option.  sscanf stores the six bytes of a MAC address as integers   *)
(* of four bytes: the last one runs into the lowest byte of bdg_port.      *)
StoreOption(breq, o) ==
  CASE o.opt = "b" -> [breq EXCEPT !.b = o.val]
    [] o.opt = "p" -> [breq EXCEPT !.port = o.val]
    [] o.opt = "d" -> [breq EXCEPT !.dst = o.val]
    [] o.opt = "m" -> [breq EXCEPT !.addr = o.val, !.port = @ - (@ % 256)]
    [] o.opt = "4" -> [breq EXCEPT !.addr = o.val]
    [] OTHER -> breq

(* parse_options.  main has moved argv past the command, so getopt takes   *)
(* the first option for the name of the program and passes over its value. *)
ParseOptions(opts) == FoldLeft(StoreOption, NoRequest, Tail(opts))

(* The ioctl behind a command: delif and port send none to the device. *)
Ioctl(l) ==
  CASE l.cmd = "addif" -> "BDGIOCADDIF"
    [] l.cmd = "regfn" -> "BDGIOCREG"
    [] l.cmd = "listif" -> "BDGIOCLIST"
    [] OTHER -> "none"

(* Mutated: the field of a registration. *)
AddPortOther(breq) == breq.port

(* BDGIOCADDIF takes nr_dst, BDGIOCREG bdg_port. *)
AddPort(breq) == breq.dst

-----------------------------------------------------------------------------
(* What a line says.                                                       *)

(* Is an option there, besides the first one? *)
Has(l, opt) == \E i \in 2 .. Len(l.opts) : l.opts[i].opt = opt

(* Its value; the last one counts. *)
Says(l, opt) ==
  l.opts[CHOOSE i \in 2 .. Len(l.opts) :
           /\ l.opts[i].opt = opt
           /\ \A k \in i + 1 .. Len(l.opts) : l.opts[k].opt # opt].val

(* An option a comes after every option c. *)
Follows(l, a, c) ==
  \E i \in 2 .. Len(l.opts) :
    l.opts[i].opt = a /\ \A k \in i + 1 .. Len(l.opts) : l.opts[k].opt # c

AddrOption(l) == IF l.dev = "mac" THEN "m" ELSE "4"
OtherAddr(l) == IF l.dev = "mac" THEN "4" ELSE "m"
PortOption(l) == IF l.cmd = "addif" THEN "d" ELSE "p"

(* The port that a line takes effect with: the one it says, unless it      *)
(* registers and a MAC address behind the port has cleared its lowest byte. *)
PortOf(l) ==
  LET port == Says(l, PortOption(l)) IN
    IF l.cmd = "regfn" /\ Follows(l, "m", "p") THEN port - (port % 256) ELSE port

(* A line that gives what its command needs: a listing prints nothing      *)
(* without an address option, and an address of the other kind, behind     *)
(* this one, would take its place.                                         *)
Complete(l) ==
  /\ l.dev \in {"mac", "ip"} /\ l.cmd \in {"addif", "regfn", "listif"}
  /\ Has(l, "b")
  /\ l.cmd \in {"addif", "listif"} => Has(l, AddrOption(l))
  /\ l.cmd = "addif" => Has(l, "d") /\ ~Follows(l, OtherAddr(l), AddrOption(l))
  /\ l.cmd = "regfn" => Has(l, "p")
=============================================================================
