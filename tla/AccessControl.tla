--------------------------- MODULE AccessControl ----------------------------
(***************************************************************************)
(* Which hosts the server talks to: check_host_validity() of               *)
(* src/src/server.cpp over the lists that loadCfg() makes of the           *)
(* configuration, and what main() does with its answer.                    *)
(*                                                                         *)
(* An address is the set of the bits that are 1 in its s_addr, which on a  *)
(* little-endian machine holds the first octet in the lowest bits.  There  *)
(* are two octets of Octet bits.                                           *)
(***************************************************************************)
EXTENDS Integers, Sequences, FiniteSets, SequencesExt

CONSTANTS
    Octet,      \* bits of an octet, scaled
    Hosts,      \* the addresses that occur
    Networks,   \* the networks that occur: <<address, number after the slash>>
    Flags,      \* the values of the two blacklist settings
    ListLengths, \* bound: pairs of lengths of `ips' and `managers'
    MaxNetworks  \* bound: networks in the configuration

ASSUME AccessConstants == Flags \subseteq Int /\ MaxNetworks \in Nat

Bits == 0 .. 2 * Octet - 1

VARIABLES
    configs,   \* the lists and flags of the configuration
    hip,       \* the host a datagram came from
    answered,  \* whether the check is done
    res        \* and its answer

accessVars == <<configs, hip, answered, res>>

ListsOf(S, n) == [1 .. n -> S]

Configurations ==
    UNION {[ips : ListsOf(Hosts, l[1]), managers : ListsOf(Hosts, l[2]),
            networks : UNION {ListsOf(Networks, n) : n \in 0 .. MaxNetworks},
            allowEqualsDeny_ips : Flags, allowEqualsDeny_nets : Flags] : l \in ListLengths}

AccessInit == configs \in Configurations /\ hip \in Hosts /\ answered = FALSE /\ res = 0

(* The bits that are 1 in a small number. *)
BitsOf(n) == {b \in Bits : (n \div 2^b) % 2 = 1}

(* Both sides are masked with netMask, which loadCfg() reads as a number.  *)
InNetwork(h, net) == h \cap BitsOf(net[2]) = net[1] \cap BitsOf(net[2])

(* The exclusive or of the 0 or 1 found and a flag. *)
Xor(found, flag) ==
    IF ~found THEN flag ELSE IF flag % 2 = 0 THEN flag + 1 ELSE flag - 1

(* Mutant of ByLists: the networks' loop keeps what the last one said. *)
ByListsLastNetwork(c, h) ==
    IF \E i \in DOMAIN c.ips : h = c.ips[i]
    THEN IF c.allowEqualsDeny_ips # 0 THEN 0 ELSE 1
    ELSE Xor(c.networks # <<>> /\ InNetwork(h, Last(c.networks)), c.allowEqualsDeny_nets)

(* The two loops that do not look at the managers. *)
ByLists(c, h) ==
    IF \E i \in DOMAIN c.ips : h = c.ips[i]
    THEN IF c.allowEqualsDeny_ips # 0 THEN 0 ELSE 1
    ELSE Xor(\E i \in DOMAIN c.networks : InNetwork(h, c.networks[i]),
             c.allowEqualsDeny_nets)

(* The managers are compared ipsNo times: those further down are not seen, *)
(* and behind the end of a shorter list stands whatever the memory holds.  *)
Answers(c, h) ==
    IF \E i \in DOMAIN c.managers : i <= Len(c.ips) /\ h = c.managers[i]
    THEN {2}
    ELSE {ByLists(c, h)} \cup (IF Len(c.ips) > Len(c.managers) THEN {2} ELSE {})

check_host_validity ==
    /\ ~answered
    /\ answered' = TRUE
    /\ res' \in Answers(configs, hip)
    /\ UNCHANGED <<configs, hip>>

AccessNext == check_host_validity

AccessSpec == AccessInit /\ [][AccessNext]_accessVars

(* A host without a positive answer gets no backup. *)
Refused(r) == r <= 0
-----------------------------------------------------------------------------
(* Properties *)

(* One more network in a blacklist never lets a host in that was kept out, *)
(* and one more in a list of allowed networks never keeps one out.         *)
NetworksAreMonotone ==
    \A h \in Hosts, net \in Networks :
        LET more == [configs EXCEPT !.networks = Append(@, net)]
        IN  \A before \in Answers(configs, h), after \in Answers(more, h) :
                before # 2 /\ after # 2 =>
                    IF configs.allowEqualsDeny_nets # 0 THEN Refused(before) => Refused(after)
                                                        ELSE Refused(after) => Refused(before)
=============================================================================
