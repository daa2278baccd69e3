------------------------------ MODULE BootIP -------------------------------
(***************************************************************************)
(* boot-ip-setter on each boot server (pkg/boot-ip-setter): it sets the    *)
(* virtual addresses that follow from the list of etcd's members, which    *)
(* EtcdMembers changes under its eyes.  Whether the interface is up is     *)
(* left out: it goes with the addresses.                                   *)
(***************************************************************************)
EXTENDS EtcdMembers

LOCAL INSTANCE SequencesExt

CONSTANTS
  DHCP,         \* neco.DHCPServerAddressList
  VIP,          \* neco.VirtualIPAddrActiveBootServer
  Setters       \* the servers whose boot-ip-setter is looked at

ASSUME BootIPAssumption == DHCP # <<>> /\ Setters \subseteq Lrn

VARIABLES
  ipc,          \* where each boot-ip-setter is: down, list or ops
  dial,         \* the endpoints that its etcd client was made with
  ops,          \* the operations it has still to run
  addrs         \* the addresses on the interface

ipVars == <<ipc, dial, ops, addrs>>
bootVars == <<etcdVars, ipVars>>

----------------------------------------------------------------------------
\* The index of b among the members, whose names are sorted as numbers.
selectDHCPServerAddr(b) ==
  LET n == Cardinality({m \in DOMAIN members : m < b})
  IN  DHCP[(n % Len(DHCP)) + 1]

NextAddrs(b) ==
  IF b \in DOMAIN members THEN {selectDHCPServerAddr(b), VIP} ELSE {}

Each(op, S) == [k \in 1 .. Cardinality(S) |-> <<op, SetToSeq(S)[k]>>]

\* Variant: old addresses are left.
decideOpsAdding(current, next) == Each("add", next \ current)

\* opDeleteAll for a server that is not a member; else the missing addresses
\* are added before the others are deleted.
decideOps(current, next) ==
  IF next = {} /\ current # {} THEN <<<<"deleteAll", VIP>>>>
  ELSE Each("add", next \ current) \o Each("delete", current \ next)

Apply(op, current) ==
  CASE op[1] = "add"       -> current \cup {op[2]}
    [] op[1] = "delete"    -> current \ {op[2]}
    [] op[1] = "deleteAll" -> {}

----------------------------------------------------------------------------
StartSetter(b) ==
  /\ ipc[b] = "down"
  /\ endpoints[b] # {}
  /\ ipc' = [ipc EXCEPT ![b] = "list"]
  /\ dial' = [dial EXCEPT ![b] = endpoints[b]]
  /\ UNCHANGED <<etcdVars, ops, addrs>>

\* main: "delete all addresses if this program ends abnormally".
EndsAbnormally(b) ==
  /\ ipc' = [ipc EXCEPT ![b] = "down"]
  /\ addrs' = [addrs EXCEPT ![b] = {}]
  /\ ops' = [ops EXCEPT ![b] = <<>>]
  /\ UNCHANGED <<etcdVars, dial>>

\* runOnce up to the operations.  It is an error when the list cannot be got,
\* or has a member without a name.
runOnce(b) ==
  /\ ipc[b] = "list"
  /\ IF Reachable(dial[b]) /\ \A m \in DOMAIN members : members[m]
     THEN /\ ops' = [ops EXCEPT ![b] = decideOps(addrs[b], NextAddrs(b))]
          /\ ops'[b] # <<>>
          /\ ipc' = [ipc EXCEPT ![b] = "ops"]
          /\ UNCHANGED <<etcdVars, dial, addrs>>
     ELSE EndsAbnormally(b)

runOps(b) ==
  /\ ipc[b] = "ops"
  /\ IF ops[b] = <<>>
     THEN /\ ipc' = [ipc EXCEPT ![b] = "list"]
          /\ UNCHANGED <<ops, addrs>>
     ELSE /\ addrs' = [addrs EXCEPT ![b] = Apply(Head(ops[b]), @)]
          /\ ops' = [ops EXCEPT ![b] = Tail(@)]
          /\ UNCHANGED ipc
  /\ UNCHANGED <<etcdVars, dial>>

\* An operation fails: the rest is left to the next runOnce.
OpFails(b) ==
  /\ ipc[b] = "ops" /\ ops[b] # <<>>
  /\ ipc' = [ipc EXCEPT ![b] = "list"]
  /\ ops' = [ops EXCEPT ![b] = <<>>]
  /\ UNCHANGED <<etcdVars, dial, addrs>>

SetterStep(b) == StartSetter(b) \/ runOnce(b) \/ runOps(b)

BootIPInit ==
  /\ ipc = [b \in Setters |-> "down"]
  /\ dial = [b \in Setters |-> {}]
  /\ ops = [b \in Setters |-> <<>>]
  /\ addrs = [b \in Setters |-> {}]

----------------------------------------------------------------------------
\* In the end a server that is a member has its addresses and no others, which
\* are no other member's but for the virtual one that all have, and a server
\* that is not a member has none; a member without a name takes the addresses
\* from all servers (selectDHCPServerAddr, decideOps, main).
AddressesConverge ==
  <>[](\A b \in Setters :
         /\ addrs[b] = IF Stuck THEN {} ELSE NextAddrs(b)
         /\ \A c \in registered \ {b} :
              Cardinality(registered) <= Len(DHCP)
                => addrs[b] \cap NextAddrs(c) \subseteq {VIP})
=============================================================================
