------------------------------ MODULE Interfaces ------------------------------
(***************************************************************************)
(* Which network a program uses.  README.md:24: "the process will use the  *)
(* only one network to communicate, if it checks the ipv4 and gets         *)
(* failure, then it connects to loop addr".  An interface is a record of   *)
(* its name, the network it leads to and the length of its prefix; the     *)
(* kernel lists those that have an IPv4 address in an order of its own.    *)
(***************************************************************************)
EXTENDS Integers, Sequences

(* The loopback interface, the one the daemons can be reached by, one that *)
(* leads elsewhere, such as the bridge of a container, and a network of    *)
(* the daemons with more than 254 addresses.                               *)
Lo == [ifa_name |-> "lo", net |-> "loopback", prefix |-> 8]
Lan == [ifa_name |-> "eth0", net |-> "lan", prefix |-> 24]
Bridge == [ifa_name |-> "br0", net |-> "bridge", prefix |-> 24]
WideLan == [ifa_name |-> "eth0", net |-> "lan", prefix |-> 16]

Interface == {Lo, Lan, Bridge, WideLan}

Net == {"loopback", "lan", "bridge", "none"}

(* The network of the first of the interfaces that are of a sort.          *)
FirstNet(ifs, sort) ==
  LET first == { k \in DOMAIN ifs : /\ ifs[k] \in sort
                                    /\ \A j \in 1..(k - 1) : ifs[j] \notin sort }
  IN  IF first = {} THEN "none" ELSE ifs[CHOOSE k \in first : TRUE].net

(* get_local_ipv4_addr of udp.c, without the last number of the address:   *)
(* the first interface that is not "lo", else "lo".                        *)
LocalNet(ifs) ==
  LET outward == FirstNet(ifs, { ifa \in Interface : ifa.ifa_name # "lo" })
  IN  IF outward # "none" THEN outward
                        ELSE FirstNet(ifs, { ifa \in Interface : ifa.ifa_name = "lo" })

(* getLocalIPv4Addr of udp.go, likewise: the first address with "/24", and *)
(* if there is none the first with "/8".                                   *)
GetLocalIPv4Network(ifs) ==
  LET class24 == FirstNet(ifs, { ifa \in Interface : ifa.prefix = 24 })
  IN  IF class24 # "none" THEN class24
                        ELSE FirstNet(ifs, { ifa \in Interface : ifa.prefix = 8 })

(* The daemons' network is the one a C program uses, or a Go program.      *)
LanFirst(ifs) ==
  \E k \in DOMAIN ifs : ifs[k].net = "lan" /\ \A j \in 1..(k - 1) : ifs[j] = Lo
=============================================================================
