------------------------------ MODULE AAMessage ------------------------------
(***************************************************************************)
(* LLDP's messages to the agent carry a port, a management VLAN and an      *)
(* element type in one 32-bit word, arg0: the port in bits 0 to 15, the     *)
(* VLAN in bits 16 to 27, the type in bits 28 to 31.  What does not fit is  *)
(* cut off.  The fields do not overlap, so that "or" is a sum here.         *)
(***************************************************************************)
EXTENDS Integers

(* Broken: the VLAN loses its upper bits to the mask of the type.           *)
PackNarrow(port, vlan, type) ==
    (port % 65536) + (vlan % 16) * 65536 + (type % 16) * 268435456

Pack(port, vlan, type) ==
    (port % 65536) + (vlan % 4096) * 65536 + (type % 16) * 268435456

InterfaceOf(arg0) == arg0 % 65536
VlanOf(arg0)      == (arg0 \div 65536) % 4096
TypeOf(arg0)      == (arg0 \div 268435456) % 16
=============================================================================
