---------------------------- MODULE FacemgrRules ----------------------------
(***************************************************************************)
(* What the facemgr configuration (src/ctrl/facemgr/src/cfg.c) promises   *)
(* its clients, without rule objects, pointers or a sorted set.           *)
(*                                                                         *)
(* The configuration is a global override and a dictionary from match     *)
(* keys <<interface name or none, interface type>> to overrides.  An       *)
(* override holds its overlays by value.  A client may add a key, edit or *)
(* remove the override of a key, and change the global face type,         *)
(* discovery flag and overlays; the global ignore, ipv4 and ipv6 fields   *)
(* keep what the configuration was created with.                          *)
(*                                                                         *)
(* A device is answered from the override of the most specific key that  *)
(* matches it: a key naming the device before the wildcard key, the       *)
(* untyped key (or the lowest type) before the typed ones.  Outside       *)
(* Android a typed key cannot be matched, and finding one first is an     *)
(* error.                                                                  *)
(***************************************************************************)
EXTENDS Integers

CONSTANTS
    IfNames, LoName, NetTypes, FaceTypes, Addrs, Ports,
    DefaultFaceType, DefaultDiscovery, DefaultIpv4, DefaultIpv6, DefaultPort,
    Uninit, Android, Unset, Null, EmptyAddr

NoName    == 0
NoDevice  == 0
Undefined == 0

Keys == ({NoName} \cup IfNames) \X NetTypes

OverlayFields == {"local_addr", "local_port", "remote_addr", "remote_port"}

Overlays == [local_addr : {Unset} \cup Addrs, local_port : {Unset} \cup Ports,
             remote_addr : {Unset} \cup Addrs, remote_port : {Unset} \cup Ports]

Overrides ==
    [face_type : {Unset} \cup FaceTypes, ignore : {Unset} \cup BOOLEAN,
     discovery : {Unset} \cup BOOLEAN, ipv4 : {Unset} \cup BOOLEAN,
     ipv6 : {Unset} \cup BOOLEAN, v4 : {Null} \cup Overlays,
     v6 : {Null} \cup Overlays]

VARIABLES
    gcfg,   \* the global override
    table   \* key -> override, or Null for a key with no rule

avars == <<gcfg, table>>

Init ==
    /\ gcfg \in {[face_type |-> Unset, ignore |-> Unset, discovery |-> Unset,
                  ipv4 |-> u4, ipv6 |-> u6, v4 |-> Null, v6 |-> Null] : u4, u6 \in Uninit}
    /\ table = [k \in Keys |-> Null]

\* table' differs from table at key k at most
OnlyAt(k) == \A j \in Keys \ {k} : table'[j] = table[j]

\* a rule for a new key joins the configuration
Put(k) ==
    /\ table[k] = Null
    /\ table'[k] \in Overrides
    /\ OnlyAt(k)
    /\ UNCHANGED gcfg

\* the override of a key is changed
Edit(k) ==
    /\ table[k] # Null
    /\ table'[k] \in Overrides
    /\ OnlyAt(k)
    /\ UNCHANGED gcfg

\* the rule of a key leaves the configuration
Remove(k) ==
    /\ table[k] # Null
    /\ table'[k] = Null
    /\ OnlyAt(k)
    /\ UNCHANGED gcfg

\* the global face type, discovery flag or overlays change
SetGlobal ==
    /\ gcfg' \in Overrides
    /\ gcfg'.ignore = gcfg.ignore
    /\ gcfg'.ipv4 = gcfg.ipv4
    /\ gcfg'.ipv6 = gcfg.ipv6
    /\ UNCHANGED table

Next ==
    \/ \E k \in Keys : Put(k) \/ Edit(k) \/ Remove(k)
    \/ SetGlobal

Spec == Init /\ [][Next]_avars

-----------------------------------------------------------------------------
(* The answers *)

\* k is preferred to j: a named key to the wildcard, then the lower type
Before(k, j) ==
    \/ k[1] # NoName /\ j[1] = NoName
    \/ k[1] = j[1] /\ k[2] < j[2]

\* the override found for device nd of type ndt: [rc, ov]
Override(nd, ndt) ==
    LET matching == {k \in Keys : /\ table[k] # Null
                                  /\ k[1] \in {NoName, nd}
                                  /\ Android => k[2] \in {Undefined, ndt}}
        best     == CHOOSE k \in matching : \A j \in matching \ {k} : Before(k, j)
    IN  IF nd = NoDevice THEN [rc |-> 0, ov |-> Null]
        ELSE IF matching = {} THEN [rc |-> 0, ov |-> Null]
        ELSE IF ~Android /\ best[2] # Undefined THEN [rc |-> -1, ov |-> Null]
        ELSE [rc |-> 0, ov |-> table[best]]

\* a field: the override's value, else the global one, else the default
Field(f, o, default) ==
    IF o.rc < 0 THEN [rc |-> -1, val |-> Unset]
    ELSE IF o.ov # Null /\ o.ov[f] # Unset THEN [rc |-> 0, val |-> o.ov[f]]
    ELSE IF gcfg[f] # Unset THEN [rc |-> 0, val |-> gcfg[f]]
    ELSE [rc |-> 0, val |-> default]

\* ignore: the override's value, else only the loopback device
Ignore(o, nd) ==
    IF o.rc < 0 THEN [rc |-> -1, val |-> Unset]
    ELSE IF o.ov # Null /\ o.ov.ignore # Unset THEN [rc |-> 0, val |-> o.ov.ignore]
    ELSE [rc |-> 0, val |-> (nd # NoDevice /\ nd = LoName)]

\* an overlay field of a family: the override's overlay, else the
\* global one, else the default
OverlayField(f, o, fam, default) ==
    LET s     == IF fam = "inet" THEN "v4" ELSE "v6"
        mine  == IF o.ov = Null THEN Null ELSE o.ov[s]
    IN  IF o.rc < 0 \/ fam = "other" THEN [rc |-> -1, val |-> Unset]
        ELSE IF fam = "unspec" THEN [rc |-> 0, val |-> default]
        ELSE IF mine # Null /\ mine[f] # Unset THEN [rc |-> 0, val |-> mine[f]]
        ELSE IF gcfg[s] # Null /\ gcfg[s][f] # Unset THEN [rc |-> 0, val |-> gcfg[s][f]]
        ELSE [rc |-> 0, val |-> default]

\* every answer, for every device, device type and family
View ==
    [p \in ({NoDevice} \cup IfNames) \X NetTypes |->
       LET o == Override(p[1], p[2])
       IN  <<[f \in {"face_type", "discovery", "ipv4", "ipv6"} |-> Field(f, o, Unset)],
             Ignore(o, p[1]),
             [q \in {"inet", "inet6", "unspec", "other"} \X OverlayFields |->
                OverlayField(q[2], o, q[1], Unset)]>>]

=============================================================================
