----------------------------- MODULE FacemgrCfg -----------------------------
(***************************************************************************)
(* The face manager configuration, src/ctrl/facemgr/src/cfg.c.             *)
(*                                                                         *)
(* A configuration holds a global override and an ordered set of rules;   *)
(* a rule matches an interface by name and type and carries its own       *)
(* override.  An override holds optional fields (is_X / X pairs in the    *)
(* code, one optional value here) and two heap-allocated overlays, one    *)
(* per address family.  The clients (the configuration parser and the     *)
(* face manager) call the API in any order; every call is one step.       *)
(*                                                                         *)
(* The heap is modelled for the objects the file allocates and frees:     *)
(* rules and overlays are cells of RuleIds and OverlayIds, live or not.   *)
(* Names are their strcmp rank, so that facemgr_cfg_rule_cmp() keeps its  *)
(* order.  The queries (the facemgr_cfg_get_ calls) change nothing and  *)
(* are operators.                                                        *)
(***************************************************************************)
EXTENDS Integers, FiniteSets

CONSTANTS
    RuleIds,            \* facemgr_cfg_rule_t cells a client may allocate
    OverlayIds,         \* facemgr_cfg_overlay_t cells
    IfNames,            \* interface names, as their rank in strcmp order
    LoName,             \* the rank of "lo"
    NetTypes,           \* netdevice_type_t; 0 is NETDEVICE_TYPE_UNDEFINED
    FaceTypes,          \* facemgr_face_type_t values a client may set
    DefaultFaceType,    \* FACEMGR_FACE_TYPE_DEFAULT
    DefaultDiscovery,   \* FACEMGR_CFG_DEFAULT_DISCOVERY
    DefaultIpv4,        \* FACEMGR_CFG_DEFAULT_IPV4
    DefaultIpv6,        \* FACEMGR_CFG_DEFAULT_IPV6
    Addrs,              \* overlay addresses a client may set
    Ports,              \* ports a client may pass, valid or not
    OverlayArgs,        \* <<local_addr, local_port, remote_addr, remote_port>> passed to set_overlay
    DefaultPort,        \* HICN_DEFAULT_PORT
    Fields,             \* the override fields the clients set
    Uninit,             \* what an uninitialised is_ipv4/ipv4 pair reads as
    Android,            \* built with __ANDROID__
    Unset,              \* is_X = false: the optional field holds nothing
    Null,               \* a NULL pointer
    EmptyAddr           \* IP_ADDRESS_EMPTY

NoName    == 0          \* match.interface_name = NULL
NoDevice  == 0          \* netdevice = NULL in a query
Undefined == 0          \* NETDEVICE_TYPE_UNDEFINED

OverrideFields == {"face_type", "ignore", "discovery", "ipv4", "ipv6"}
OverlayFields  == {"local_addr", "local_port", "remote_addr", "remote_port"}
FieldValues(f) == IF f = "face_type" THEN FaceTypes ELSE BOOLEAN

ASSUME CfgAssumption ==
    /\ IfNames \subseteq Nat \ {0} /\ LoName \in IfNames
    /\ NetTypes \subseteq Nat /\ Undefined \in NetTypes
    /\ Ports \subseteq Nat
    /\ OverlayArgs \subseteq ({Unset} \cup Addrs) \X Ports \X ({Unset} \cup Addrs) \X Ports
    /\ Fields \subseteq OverrideFields
    /\ Uninit \subseteq {Unset} \cup BOOLEAN /\ Uninit # {}
    /\ Android \in BOOLEAN
    /\ Null \notin OverlayIds /\ "global" \notin RuleIds

VARIABLES
    global,     \* cfg->global
    rules,      \* rule cell -> [name, type, ov]
    ruleLive,   \* allocated rule cells
    ruleSet,    \* cfg->rule_set
    overlays,   \* overlay cell -> its fields
    ovLive      \* allocated overlay cells

vars == <<global, rules, ruleLive, ruleSet, overlays, ovLive>>

-----------------------------------------------------------------------------
(* Objects *)

\* facemgr_cfg_overlay_initialize()
EmptyOverlay == [f \in OverlayFields |-> Unset]

\* IS_VALID_PORT()
ValidPort(p) == p \in 1 .. 65535

\* mutant of NewOverlay: ports are stored without IS_VALID_PORT()
NewOverlayNoPortCheck(la, lp, ra, rp) ==
    [local_addr |-> la, local_port |-> lp, remote_addr |-> ra, remote_port |-> rp]

\* the overlay filled by facemgr_cfg_rule_set_overlay(): a NULL address
\* (Unset) and an invalid port leave their field unset
NewOverlay(la, lp, ra, rp) ==
    [local_addr  |-> la,
     local_port  |-> IF ValidPort(lp) THEN lp ELSE Unset,
     remote_addr |-> ra,
     remote_port |-> IF ValidPort(rp) THEN rp ELSE Unset]

\* facemgr_cfg_override_initialize(): is_ipv4, ipv4, is_ipv6 and ipv6 are
\* not written, so they keep what the fresh allocation held (u4, u6)
EmptyOverride(u4, u6) ==
    [face_type |-> Unset, ignore |-> Unset, discovery |-> Unset,
     ipv4 |-> u4, ipv6 |-> u6, v4 |-> Null, v6 |-> Null]

\* facemgr_cfg_rule_initialize()
EmptyRule(u4, u6) ==
    [name |-> NoName, type |-> Undefined, ov |-> EmptyOverride(u4, u6)]

\* the overlays an override points to
Refs(ov) == {ov.v4, ov.v6} \ {Null}

\* the overlay pointer of a family
Slot(fam) == IF fam = "inet" THEN "v4" ELSE "v6"

\* mutant of Dropped: the AF_INET6 branch tests and frees the v4 overlay
\* (a copy of the AF_INET branch), while Cleared still NULLs v6
DroppedCopyPaste(ov, fam) == {ov.v4} \ {Null}

\* the overlays facemgr_cfg_unset_overlay() frees for family fam
Dropped(ov, fam) ==
    {ov[Slot(g)] : g \in {g \in {"inet", "inet6"} : fam \in {g, "unspec"}}} \ {Null}

\* mutant of Cleared: the freed overlay stays pointed to
ClearedKeepsPointer(ov, fam) == ov

\* the override after facemgr_cfg_unset_overlay(): freed pointers are NULLed
Cleared(ov, fam) ==
    [ov EXCEPT !.v4 = IF fam \in {"inet", "unspec"} THEN Null ELSE @,
               !.v6 = IF fam \in {"inet6", "unspec"} THEN Null ELSE @]

\* mutant of Cmp: rules without a name sort before named ones
CmpNullFirst(r1, r2) ==
    LET a == rules[r1]
        b == rules[r2]
    IN  IF a.name = NoName /\ b.name # NoName THEN -1
        ELSE IF a.name # NoName /\ b.name = NoName THEN 1
        ELSE IF a.name # b.name THEN a.name - b.name
        ELSE a.type - b.type

\* facemgr_cfg_rule_cmp(): lexicographic on (interface_name, interface_type),
\* a NULL name after every name
Cmp(r1, r2) ==
    LET a == rules[r1]
        b == rules[r2]
    IN  IF a.name = NoName /\ b.name # NoName THEN 1
        ELSE IF a.name # NoName /\ b.name = NoName THEN -1
        ELSE IF a.name # b.name THEN a.name - b.name
        ELSE a.type - b.type

\* the override of a target: the global one or a rule's
OverrideOf(t) == IF t = "global" THEN global ELSE rules[t].ov

\* the owners of overrides: the configuration and the allocated rules
Targets == {"global"} \cup ruleLive

-----------------------------------------------------------------------------
(* Queries *)

\* mutant of GetOverride: every allocated rule is searched, not the set
GetOverrideAllRules(nd, ndt) ==
    LET named  == {q \in ruleLive : rules[q].name \in {NoName, nd}}
        cands  == IF Android THEN {q \in named : rules[q].type \in {Undefined, ndt}}
                  ELSE named
        first  == CHOOSE q \in cands : \A p \in cands : Cmp(q, p) <= 0
    IN  IF nd = NoDevice THEN [rc |-> 0, rule |-> Null]
        ELSE IF cands = {} THEN [rc |-> 0, rule |-> Null]
        ELSE IF ~Android /\ rules[first].type # Undefined THEN [rc |-> -1, rule |-> Null]
        ELSE [rc |-> 0, rule |-> first]

\* facemgr_cfg_get_override(): the first rule of the set, in Cmp order,
\* whose name is NULL or the device's; a typed rule matches the device
\* type on Android and is an error elsewhere
GetOverride(nd, ndt) ==
    LET named  == {q \in ruleSet : rules[q].name \in {NoName, nd}}
        cands  == IF Android THEN {q \in named : rules[q].type \in {Undefined, ndt}}
                  ELSE named
        first  == CHOOSE q \in cands : \A p \in cands : Cmp(q, p) <= 0
    IN  IF nd = NoDevice THEN [rc |-> 0, rule |-> Null]
        ELSE IF cands = {} THEN [rc |-> 0, rule |-> Null]
        ELSE IF ~Android /\ rules[first].type # Undefined THEN [rc |-> -1, rule |-> Null]
        ELSE [rc |-> 0, rule |-> first]

\* the pattern of the facemgr_cfg_get_<field>() queries, given the
\* override o found: the rule's value if set, else the global value if
\* set, else the default
Lookup(f, o, default) ==
    IF o.rc < 0 THEN [rc |-> -1, val |-> Unset]
    ELSE IF o.rule # Null /\ rules[o.rule].ov[f] # Unset
         THEN [rc |-> 0, val |-> rules[o.rule].ov[f]]
    ELSE IF global[f] # Unset THEN [rc |-> 0, val |-> global[f]]
    ELSE [rc |-> 0, val |-> default]

GetFaceType(nd, ndt) == Lookup("face_type", GetOverride(nd, ndt), DefaultFaceType)
GetDiscovery(nd, ndt) == Lookup("discovery", GetOverride(nd, ndt), DefaultDiscovery)
GetIpv4(nd, ndt) == Lookup("ipv4", GetOverride(nd, ndt), DefaultIpv4)
GetIpv6(nd, ndt) == Lookup("ipv6", GetOverride(nd, ndt), DefaultIpv6)

\* facemgr_cfg_get_ignore(), given the override o found for device nd:
\* with no rule value only "lo" is ignored (the global value is asserted
\* unset)
IgnoreLookup(o, nd) ==
    IF o.rc < 0 THEN [rc |-> -1, val |-> Unset]
    ELSE IF o.rule # Null /\ rules[o.rule].ov.ignore # Unset
         THEN [rc |-> 0, val |-> rules[o.rule].ov.ignore]
    ELSE [rc |-> 0, val |-> (nd # NoDevice /\ nd = LoName)]

GetIgnore(nd, ndt) == IgnoreLookup(GetOverride(nd, ndt), nd)

\* the pattern of the facemgr_cfg_get_overlay_<field>() queries, given the
\* override o found: the rule's overlay of the family if it sets the
\* field, else the global overlay's, else the default; AF_UNSPEC gives
\* the default and another family an error
OverlayLookup(f, o, fam, default) ==
    LET s      == Slot(fam)
        ruleOv == IF o.rule = Null THEN Null ELSE rules[o.rule].ov[s]
    IN  IF o.rc < 0 \/ fam = "other" THEN [rc |-> -1, val |-> Unset]
        ELSE IF fam = "unspec" THEN [rc |-> 0, val |-> default]
        ELSE IF ruleOv # Null /\ overlays[ruleOv][f] # Unset
             THEN [rc |-> 0, val |-> overlays[ruleOv][f]]
        ELSE IF global[s] # Null /\ overlays[global[s]][f] # Unset
             THEN [rc |-> 0, val |-> overlays[global[s]][f]]
        ELSE [rc |-> 0, val |-> default]

GetOverlayLocalAddr(nd, ndt, fam) ==
    OverlayLookup("local_addr", GetOverride(nd, ndt), fam, EmptyAddr)
GetOverlayLocalPort(nd, ndt, fam) ==
    OverlayLookup("local_port", GetOverride(nd, ndt), fam, DefaultPort)
GetOverlayRemoteAddr(nd, ndt, fam) ==
    OverlayLookup("remote_addr", GetOverride(nd, ndt), fam, EmptyAddr)
GetOverlayRemotePort(nd, ndt, fam) ==
    OverlayLookup("remote_port", GetOverride(nd, ndt), fam, DefaultPort)

\* facemgr_cfg_get_rule(): the rule of the set with this exact match
GetRule(n, t) ==
    LET found == {q \in ruleSet : rules[q].name = n /\ rules[q].type = t}
    IN  IF found = {} THEN Null ELSE CHOOSE q \in found : TRUE

-----------------------------------------------------------------------------
(* The configuration after facemgr_cfg_create(): its global override is   *)
(* initialised, the rule set is empty, no rule or overlay is allocated.   *)

Init ==
    /\ global \in {EmptyOverride(u4, u6) : u4, u6 \in Uninit}
    /\ rules = [r \in RuleIds |-> EmptyRule(Unset, Unset)]
    /\ ruleLive = {}
    /\ ruleSet = {}
    /\ overlays = [o \in OverlayIds |-> EmptyOverlay]
    /\ ovLive = {}

-----------------------------------------------------------------------------
(* Calls that change the configuration or the heap *)

\* facemgr_cfg_rule_create(): a fresh cell, initialised by
\* facemgr_cfg_rule_initialize()
RuleCreate(r) ==
    /\ r \notin ruleLive
    /\ \E u4, u6 \in Uninit : rules' = [rules EXCEPT ![r] = EmptyRule(u4, u6)]
    /\ ruleLive' = ruleLive \cup {r}
    /\ UNCHANGED <<global, ruleSet, overlays, ovLive>>

\* facemgr_cfg_rule_free(): facemgr_cfg_rule_finalize() frees the rule's
\* overlays; a rule of cfg->rule_set belongs to the configuration and is
\* not freed by a client
RuleFree(r) ==
    /\ r \in ruleLive \ ruleSet
    /\ ovLive' = ovLive \ Refs(rules[r].ov)
    /\ rules' = [rules EXCEPT ![r].ov = Cleared(@, "unspec")]
    /\ ruleLive' = ruleLive \ {r}
    /\ UNCHANGED <<global, ruleSet, overlays>>

\* facemgr_cfg_rule_set_match(): set before the rule joins a set, whose
\* order its key decides
RuleSetMatch(r, n, t) ==
    /\ r \in ruleLive \ ruleSet
    /\ rules' = [rules EXCEPT ![r].name = n, ![r].type = t]
    /\ UNCHANGED <<global, ruleLive, ruleSet, overlays, ovLive>>

\* facemgr_cfg_rule_set_<field>() with a value v, or
\* facemgr_cfg_rule_unset_<field>() with v = Unset
RuleSetOverride(r, f, v) ==
    /\ r \in ruleLive
    /\ rules' = [rules EXCEPT ![r].ov[f] = v]
    /\ UNCHANGED <<global, ruleLive, ruleSet, overlays, ovLive>>

\* facemgr_cfg_set_face_type() / facemgr_cfg_set_discovery() and their
\* unset_ forms: the only global fields the API writes
CfgSetOverride(f, v) ==
    /\ f \in {"face_type", "discovery"}
    /\ global' = [global EXCEPT ![f] = v]
    /\ UNCHANGED <<rules, ruleLive, ruleSet, overlays, ovLive>>

\* a fresh overlay cell o filled with the call's arguments; the target's
\* pointer for the family is overwritten, whatever it pointed to
SetOverlay(o, la, lp, ra, rp) ==
    /\ o \notin ovLive
    /\ ovLive' = ovLive \cup {o}
    /\ overlays' = [overlays EXCEPT ![o] = NewOverlay(la, lp, ra, rp)]

\* facemgr_cfg_rule_set_overlay() for AF_INET or AF_INET6 (any other
\* family returns -1 before allocating)
RuleSetOverlay(r, fam, o, la, lp, ra, rp) ==
    /\ r \in ruleLive
    /\ SetOverlay(o, la, lp, ra, rp)
    /\ rules' = [rules EXCEPT ![r].ov[Slot(fam)] = o]
    /\ UNCHANGED <<global, ruleLive, ruleSet>>

\* facemgr_cfg_set_overlay(), the same for the global override
CfgSetOverlay(fam, o, la, lp, ra, rp) ==
    /\ SetOverlay(o, la, lp, ra, rp)
    /\ global' = [global EXCEPT ![Slot(fam)] = o]
    /\ UNCHANGED <<rules, ruleLive, ruleSet>>

\* facemgr_rule_unset_overlay() for AF_INET, AF_INET6 or AF_UNSPEC
RuleUnsetOverlay(r, fam) ==
    /\ r \in ruleLive
    /\ ovLive' = ovLive \ Dropped(rules[r].ov, fam)
    /\ rules' = [rules EXCEPT ![r].ov = Cleared(@, fam)]
    /\ UNCHANGED <<global, ruleLive, ruleSet, overlays>>

\* facemgr_cfg_unset_overlay(), the same for the global override
CfgUnsetOverlay(fam) ==
    /\ ovLive' = ovLive \ Dropped(global, fam)
    /\ global' = Cleared(global, fam)
    /\ UNCHANGED <<rules, ruleLive, ruleSet, overlays>>

\* facemgr_cfg_add_rule(): the set refuses a rule whose key it holds
AddRule(r) ==
    /\ r \in ruleLive
    /\ ruleSet' = IF \E q \in ruleSet : Cmp(q, r) = 0 THEN ruleSet
                  ELSE ruleSet \cup {r}
    /\ UNCHANGED <<global, rules, ruleLive, overlays, ovLive>>

\* facemgr_cfg_del_rule(): the set removes its rule with r's key, which
\* stays allocated
DelRule(r) ==
    /\ r \in ruleLive
    /\ ruleSet' = {q \in ruleSet : Cmp(q, r) # 0}
    /\ UNCHANGED <<global, rules, ruleLive, overlays, ovLive>>

Families == {"inet", "inet6"}

Next ==
    \/ \E r \in RuleIds : RuleCreate(r) \/ RuleFree(r) \/ AddRule(r) \/ DelRule(r)
    \/ \E r \in RuleIds, n \in {NoName} \cup IfNames, t \in NetTypes :
          RuleSetMatch(r, n, t)
    \/ \E r \in RuleIds, f \in Fields : \E v \in {Unset} \cup FieldValues(f) :
          RuleSetOverride(r, f, v)
    \/ \E f \in Fields : \E v \in {Unset} \cup FieldValues(f) : CfgSetOverride(f, v)
    \/ \E fam \in Families, o \in OverlayIds, a \in OverlayArgs :
          \/ \E r \in RuleIds : RuleSetOverlay(r, fam, o, a[1], a[2], a[3], a[4])
          \/ CfgSetOverlay(fam, o, a[1], a[2], a[3], a[4])
    \/ \E fam \in Families \cup {"unspec"} :
          \/ \E r \in RuleIds : RuleUnsetOverlay(r, fam)
          \/ CfgUnsetOverlay(fam)

Spec == Init /\ [][Next]_vars

-----------------------------------------------------------------------------
(* The abstract configuration of FacemgrRules: the rule set read as a     *)
(* dictionary from match keys to overrides, overlays read through their   *)
(* pointers.                                                               *)

\* the match key of a rule; facemgr_cfg_rule_cmp() is 0 exactly on equal keys
Key(q) == <<rules[q].name, rules[q].type>>

\* an override with its overlays read from the heap
Deref(ov) ==
    [ov EXCEPT !.v4 = IF @ = Null THEN Null ELSE overlays[@],
               !.v6 = IF @ = Null THEN Null ELSE overlays[@]]

RuleTable ==
    [k \in ({NoName} \cup IfNames) \X NetTypes |->
       IF \E q \in ruleSet : Key(q) = k
       THEN Deref(rules[CHOOSE q \in ruleSet : Key(q) = k].ov)
       ELSE Null]

Rules == INSTANCE FacemgrRules WITH gcfg <- Deref(global), table <- RuleTable

\* NULL, the empty pointer and the missing rule, is no override value, no
\* overlay value and no rule cell
ASSUME NullAssumption ==
    /\ Null \notin Rules!Overrides
    /\ Null \notin Rules!Overlays
    /\ Null \notin RuleIds

-----------------------------------------------------------------------------
(* Properties *)

OverrideType ==
    [face_type : {Unset} \cup FaceTypes, ignore : {Unset} \cup BOOLEAN,
     discovery : {Unset} \cup BOOLEAN, ipv4 : {Unset} \cup BOOLEAN,
     ipv6 : {Unset} \cup BOOLEAN, v4 : {Null} \cup OverlayIds,
     v6 : {Null} \cup OverlayIds]

ValidPorts == {p \in Ports : ValidPort(p)}

\* Type correctness; an overlay stores only valid ports.
TypeOK ==
    /\ global \in OverrideType
    /\ rules \in [RuleIds -> [name : {NoName} \cup IfNames, type : NetTypes,
                              ov : OverrideType]]
    /\ ruleLive \subseteq RuleIds
    /\ ruleSet \subseteq ruleLive
    /\ overlays \in [OverlayIds -> [local_addr : {Unset} \cup Addrs,
                                    local_port : {Unset} \cup ValidPorts,
                                    remote_addr : {Unset} \cup Addrs,
                                    remote_port : {Unset} \cup ValidPorts]]
    /\ ovLive \subseteq OverlayIds

\* Overlay ownership: every overlay an override points to is allocated (no
\* query of facemgr_cfg_get_overlay_*() reads freed memory), and no two
\* pointers share one (facemgr_cfg_override_finalize() and the unset_overlay
\* calls never free an overlay twice).
OverlayOwnership ==
    /\ \A t \in Targets : Refs(OverrideOf(t)) \subseteq ovLive
    /\ \A t \in Targets : OverrideOf(t).v4 = OverrideOf(t).v6 => OverrideOf(t).v4 = Null
    /\ \A t1, t2 \in Targets : t1 # t2 => Refs(OverrideOf(t1)) \cap Refs(OverrideOf(t2)) = {}

\* The rule set holds at most one rule per match key <<interface_name,
\* interface_type>>.  It is no property of cfg.c: it follows from the
\* duplicate refusal of util/set.h (modelled in AddRule) and from the
\* caller never re-keying a rule in the set (RuleSetMatch's guard).  The
\* proofs use it as a conjunct of the inductive invariant of the refinement.
KeysUnique == \A q1, q2 \in ruleSet : Key(q1) = Key(q2) => q1 = q2

\* A rule naming an interface, with no type, wins over every wildcard (NULL
\* name) or typed rule: facemgr_cfg_get_override() finds it without error,
\* because facemgr_cfg_rule_cmp() sorts NULL names last and the untyped
\* rule first among rules of one name.
NamedRuleWins ==
    \A n \in IfNames, t \in NetTypes :
       (\E q \in ruleSet : rules[q].name = n /\ rules[q].type = Undefined) =>
          LET o == GetOverride(n, t)
          IN  o.rc = 0 /\ o.rule # Null /\ rules[o.rule].name = n

\* What every query answers, for every device, device type and family
\* (the override search is shared by the queries of one device)
View ==
    [p \in ({NoDevice} \cup IfNames) \X NetTypes |->
       LET o == GetOverride(p[1], p[2])
       IN  <<[f \in OverrideFields \ {"ignore"} |-> Lookup(f, o, Unset)],
             IgnoreLookup(o, p[1]),
             [q \in (Families \cup {"unspec", "other"}) \X OverlayFields |->
                OverlayLookup(q[2], o, q[1], Unset)]>>]

\* Refinement: the configuration behaves as a dictionary of overrides.
\* add_rule puts a new key, an edit of a rule in the set (its fields or
\* overlays) edits one key, del_rule removes one, the global setters
\* change the global override but never its ignore, ipv4 or ipv6 fields;
\* every other call (on rules outside the set, on freed or fresh
\* overlays) changes nothing a client can see.  It fails when a freed
\* overlay stays pointed to and its cell is reused.
RulesSpec == Rules!Spec

\* The sorted scan of facemgr_cfg_get_override() over facemgr_cfg_rule_cmp()
\* order, and every facemgr_cfg_get_ query built on it, answer what the
\* precedence of the abstract configuration answers: the device's own
\* rule before the wildcard, the untyped rule before typed ones.
ViewRefined == View = Rules!View

\* No overlay leaks: every allocated overlay is pointed to by the global
\* override or by an allocated rule, so facemgr_cfg_override_finalize()
\* or an unset_overlay call can still free it.
NoOverlayLeak ==
    \A o \in ovLive : \E t \in Targets : o \in Refs(OverrideOf(t))

\* The getter's fallback: a device no rule overrides gets
\* FACEMGR_CFG_DEFAULT_IPV4 from facemgr_cfg_get_ipv4() unless the global
\* ipv4 was set, and the API has no call that sets it.
Ipv4Default ==
    \A d \in IfNames, t \in NetTypes :
       GetOverride(d, t) = [rc |-> 0, rule |-> Null] =>
          GetIpv4(d, t) = [rc |-> 0, val |-> DefaultIpv4]

=============================================================================
