-------------------------- MODULE FacemgrViewProofs --------------------------
(***************************************************************************)
(* The queries of cfg.c answer what the dictionary of FacemgrRules         *)
(* answers: the first rule of the sorted scan of                          *)
(* facemgr_cfg_get_override() has the most specific matching key, and     *)
(* every facemgr_cfg_get_ query read through it and through the overlay   *)
(* pointers gives the abstract Field, Ignore and OverlayField.            *)
(***************************************************************************)
EXTENDS FacemgrRulesProofs, WellFoundedInduction

\* the candidates of facemgr_cfg_get_override() and the first of them in
\* facemgr_cfg_rule_cmp() order, as GetOverride names them
Named(nd) == {q \in ruleSet : rules[q].name \in {NoName, nd}}

Cands(nd, ndt) ==
    IF Android THEN {q \in Named(nd) : rules[q].type \in {Undefined, ndt}}
    ELSE Named(nd)

First(nd, ndt) == CHOOSE q \in Cands(nd, ndt) : \A p \in Cands(nd, ndt) : Cmp(q, p) <= 0

\* the matching keys of the dictionary and the most specific of them, as
\* Rules!Override names them
Matching(nd, ndt) ==
    {k \in Rules!Keys : /\ RuleTable[k] # Null
                        /\ k[1] \in {NoName, nd}
                        /\ Android => k[2] \in {Undefined, ndt}}

Best(nd, ndt) ==
    CHOOSE k \in Matching(nd, ndt) : \A j \in Matching(nd, ndt) \ {k} : Rules!Before(k, j)

-----------------------------------------------------------------------------
(* Least elements *)

\* a non-empty set of naturals has a least element
LEMMA LeastNat ==
    ASSUME NEW S \in SUBSET Nat, S # {}
    PROVE  \E m \in S : \A k \in S : m <= k
<1>1. \E x \in S : \A y \in S : ~(<<y, x>> \in OpToRel(<, Nat))
  BY NatLessThanWellFounded, WFMin
<1>2. \A x, y \in Nat : y < x => <<y, x>> \in OpToRel(<, Nat)
  BY Zenon DEF OpToRel
<1>3. PICK x \in S : \A y \in S : ~(<<y, x>> \in OpToRel(<, Nat))
  BY <1>1
<1>4. \A y \in S : ~(y < x)
  BY <1>2, <1>3, Zenon
<1> QED BY <1>4

\* facemgr_cfg_rule_cmp() on two rules of one name compares their types
LEMMA CmpSameName ==
    ASSUME NEW f \in RuleIds, NEW p \in RuleIds, rules[f].name = rules[p].name
    PROVE  Cmp(f, p) = rules[f].type - rules[p].type
BY DEF Cmp

\* ... and sorts a named rule before a NULL-named one
LEMMA CmpNamedFirst ==
    ASSUME NEW f \in RuleIds, NEW p \in RuleIds,
           rules[f].name # NoName, rules[p].name = NoName
    PROVE  Cmp(f, p) = -1
BY DEF Cmp

\* ... and a NULL-named rule after a named one
LEMMA CmpNullLast ==
    ASSUME NEW f \in RuleIds, NEW p \in RuleIds,
           rules[f].name = NoName, rules[p].name # NoName
    PROVE  Cmp(f, p) = 1
BY DEF Cmp

\* a non-empty set of rules named nd or NULL has a facemgr_cfg_rule_cmp()
\* least element: the named rule of least type, else the NULL-named rule
\* of least type
LEMMA LeastRule ==
    ASSUME TypeOK, NEW nd \in IfNames, NEW C \in SUBSET RuleIds, C # {},
           \A q \in C : rules[q].name \in {NoName, nd}
    PROVE  \E f \in C : \A p \in C : Cmp(f, p) <= 0
<1>0. nd \in Nat \ {0} /\ \A q \in C : rules[q].name \in Nat /\ rules[q].type \in Nat
  BY CfgAssumption, MatchRanks
<1>1. CASE \E q \in C : rules[q].name = nd
  <2> DEFINE T == {rules[q].type : q \in {q \in C : rules[q].name = nd}}
  <2>1. T \in SUBSET Nat /\ T # {}
    BY <1>0, <1>1
  <2>2. PICK m \in T : \A k \in T : m <= k
    BY <2>1, LeastNat
  <2>3. PICK f \in C : rules[f].name = nd /\ rules[f].type = m
    BY <2>2
  <2>4. \A p \in C : Cmp(f, p) <= 0
    <3> SUFFICES ASSUME NEW p \in C PROVE Cmp(f, p) <= 0
      OBVIOUS
    <3>1. CASE rules[p].name = nd
      <4>1. rules[p].type \in T
        BY <3>1
      <4>2. Cmp(f, p) = m - rules[p].type
        BY <2>3, <3>1, CmpSameName
      <4>3. m \in Nat /\ rules[p].type \in Nat /\ m <= rules[p].type
        BY <2>1, <2>2, <4>1
      <4> QED BY <4>2, <4>3
    <3>2. CASE rules[p].name = NoName
      BY <1>0, <2>3, <3>2, CmpNamedFirst DEF NoName
    <3> QED BY <3>1, <3>2
  <2> QED BY <2>4
<1>2. CASE ~\E q \in C : rules[q].name = nd
  <2> DEFINE T == {rules[q].type : q \in C}
  <2>1. T \in SUBSET Nat /\ T # {}
    BY <1>0
  <2>2. PICK m \in T : \A k \in T : m <= k
    BY <2>1, LeastNat
  <2>3. PICK f \in C : rules[f].type = m
    BY <2>2
  <2>4. \A q \in C : rules[q].name = NoName
    BY <1>2
  <2>5. \A p \in C : Cmp(f, p) <= 0
    <3> SUFFICES ASSUME NEW p \in C PROVE Cmp(f, p) <= 0
      OBVIOUS
    <3>1. Cmp(f, p) = m - rules[p].type
      BY <2>3, <2>4, CmpSameName
    <3>2. rules[p].type \in T
      OBVIOUS
    <3>3. m \in Nat /\ rules[p].type \in Nat /\ m <= rules[p].type
      BY <2>1, <2>2, <3>2
    <3> QED BY <3>1, <3>3
  <2> QED BY <2>5
<1> QED BY <1>1, <1>2

-----------------------------------------------------------------------------
(* Cmp order and the precedence of keys *)

\* a rule not above another in facemgr_cfg_rule_cmp() order, both named nd
\* or NULL, has the preferred key of the dictionary
LEMMA BeforeOfCmp ==
    ASSUME TypeOK, NEW nd \in IfNames, NEW f \in RuleIds, NEW p \in RuleIds,
           rules[f].name \in {NoName, nd}, rules[p].name \in {NoName, nd},
           Cmp(f, p) <= 0, Key(f) # Key(p)
    PROVE  Rules!Before(Key(f), Key(p))
<1>0. nd \in Nat \ {0} /\ rules[f].type \in Nat /\ rules[p].type \in Nat
  BY CfgAssumption, MatchRanks
<1>1. CASE rules[f].name = rules[p].name
  <2>1. Cmp(f, p) = rules[f].type - rules[p].type
    BY <1>1, CmpSameName
  <2>2. rules[f].type < rules[p].type
    BY <1>0, <1>1, <2>1 DEF Key
  <2> QED BY <1>1, <2>2 DEF Rules!Before, Key
<1>2. CASE rules[f].name = nd /\ rules[p].name = NoName
  BY <1>0, <1>2 DEF Rules!Before, Key, NoName, Rules!NoName
<1>3. CASE rules[f].name = NoName /\ rules[p].name = nd
  <2>1. Cmp(f, p) = 1
    BY <1>0, <1>3, CmpNullLast DEF NoName
  <2> QED BY <2>1
<1> QED BY <1>1, <1>2, <1>3

\* two keys never precede each other
LEMMA BeforeAsym ==
    ASSUME NEW k \in Nat \X Nat, NEW j \in Nat \X Nat, Rules!Before(k, j)
    PROVE  ~Rules!Before(j, k)
BY DEF Rules!Before, Rules!NoName

\* the keys of the dictionary are pairs of naturals
LEMMA KeysNat == Rules!Keys \subseteq Nat \X Nat
<1>1. 0 \in Nat /\ IfNames \subseteq Nat /\ NetTypes \subseteq Nat
  BY NamesNat
<1> QED BY <1>1 DEF Rules!Keys, Rules!NoName

-----------------------------------------------------------------------------
(* Overrides read through their pointers *)

\* Deref keeps the plain fields and reads each overlay pointer from the
\* heap; a non-NULL pointer reads as a value that is not NULL
LEMMA DerefFields ==
    ASSUME TypeOK, NEW ov \in OverrideType
    PROVE  /\ \A f \in {"face_type", "ignore", "discovery", "ipv4", "ipv6"} :
                 Deref(ov)[f] = ov[f]
           /\ \A s \in {"v4", "v6"} :
                 Deref(ov)[s] = IF ov[s] = Null THEN Null ELSE overlays[ov[s]]
           /\ \A s \in {"v4", "v6"} : ov[s] # Null => overlays[ov[s]] # Null
           /\ Deref(ov) # Null
<1>1. overlays \in [OverlayIds -> CellType]
  BY HeapType
<1>2. CellType \subseteq Rules!Overlays
  BY DEF CellType, ValidPorts, Rules!Overlays
<1>3. \A s \in {"v4", "v6"} : ov[s] # Null => overlays[ov[s]] \in Rules!Overlays
  BY <1>1, <1>2 DEF OverrideType
<1>4. Deref(ov) # Null
  BY <1>1, DerefInType, DerefIsDerefIn
<1> QED BY <1>3, <1>4, NullAssumption DEF Deref, OverrideType

\* a rule of the set gives its key a non-NULL entry of the table
LEMMA TableNonNull ==
    ASSUME TypeOK, KeysUnique, NEW q \in ruleSet
    PROVE  RuleTable[Key(q)] = Deref(rules[q].ov) /\ RuleTable[Key(q)] # Null
<1>1. rules[q].ov \in OverrideType
  BY DEF TypeOK
<1> QED BY <1>1, TableAt, DerefFields

\* the matching keys of the dictionary are the keys of the candidates of
\* the sorted scan
LEMMA MatchingKeys ==
    ASSUME TypeOK, KeysUnique, NEW nd \in IfNames, NEW ndt \in NetTypes
    PROVE  Matching(nd, ndt) = {Key(q) : q \in Cands(nd, ndt)}
<1>1. ASSUME NEW k \in Matching(nd, ndt) PROVE \E q \in Cands(nd, ndt) : Key(q) = k
  <2>1. k \in Rules!Keys /\ RuleTable[k] # Null
    BY DEF Matching
  <2>2. \E q \in ruleSet : Key(q) = k
    BY <2>1, TableNull
  <2>3. PICK q \in ruleSet : Key(q) = k
    BY <2>2
  <2>4. q \in Cands(nd, ndt)
    BY <2>3, CfgAssumption DEF Matching, Cands, Named, Key
  <2> QED BY <2>3, <2>4
<1>2. ASSUME NEW q \in Cands(nd, ndt) PROVE Key(q) \in Matching(nd, ndt)
  <2>1. q \in ruleSet /\ q \in RuleIds
    BY DEF Cands, Named, TypeOK
  <2>2. Key(q) \in Rules!Keys /\ RuleTable[Key(q)] # Null
    BY <2>1, KeyType, TableNonNull
  <2> QED BY <2>1, <2>2, CfgAssumption DEF Matching, Cands, Named, Key
<1> QED BY <1>1, <1>2

-----------------------------------------------------------------------------
(* The override found *)

\* the first candidate of the sorted scan exists and has the most
\* specific matching key
LEMMA FirstBest ==
    ASSUME TypeOK, KeysUnique, NEW nd \in IfNames, NEW ndt \in NetTypes,
           Cands(nd, ndt) # {}
    PROVE  /\ First(nd, ndt) \in Cands(nd, ndt)
           /\ Best(nd, ndt) = Key(First(nd, ndt))
<1> DEFINE C == Cands(nd, ndt)  f == First(nd, ndt)  M == Matching(nd, ndt)
<1>1. C \subseteq RuleIds /\ \A q \in C : rules[q].name \in {NoName, nd}
  BY DEF Cands, Named, TypeOK
<1>2. \E g \in C : \A p \in C : Cmp(g, p) <= 0
  BY <1>1, LeastRule
<1>3. f \in C /\ \A p \in C : Cmp(f, p) <= 0
  BY <1>2 DEF First
<1>4. M = {Key(q) : q \in C}
  BY MatchingKeys
<1>5. Key(f) \in M
  BY <1>3, <1>4
<1>6. \A j \in M \ {Key(f)} : Rules!Before(Key(f), j)
  <2> SUFFICES ASSUME NEW p \in C, Key(p) # Key(f) PROVE Rules!Before(Key(f), Key(p))
    BY <1>4
  <2> QED BY <1>1, <1>3, BeforeOfCmp
<1>7. \A k \in M : (\A j \in M \ {k} : Rules!Before(k, j)) => k = Key(f)
  <2> SUFFICES ASSUME NEW k \in M, \A j \in M \ {k} : Rules!Before(k, j), k # Key(f)
               PROVE  FALSE
    OBVIOUS
  <2>1. Rules!Before(k, Key(f)) /\ Rules!Before(Key(f), k)
    BY <1>5, <1>6
  <2>2. k \in Nat \X Nat /\ Key(f) \in Nat \X Nat
    BY <1>5, KeysNat DEF Matching
  <2> QED BY <2>1, <2>2, BeforeAsym
<1>8. Best(nd, ndt) \in M /\ \A j \in M \ {Best(nd, ndt)} : Rules!Before(Best(nd, ndt), j)
  BY <1>5, <1>6 DEF Best
<1> QED BY <1>3, <1>7, <1>8

\* what facemgr_cfg_get_override() returns and what the dictionary's
\* Override returns agree: the same return code, and the rule found read
\* through its pointers is the override found
LEMMA OverrideCorr ==
    ASSUME TypeOK, KeysUnique, NEW nd \in {NoDevice} \cup IfNames, NEW ndt \in NetTypes
    PROVE  \/ \E rc \in {0, -1} : /\ GetOverride(nd, ndt) = [rc |-> rc, rule |-> Null]
                                 /\ Rules!Override(nd, ndt) = [rc |-> rc, ov |-> Null]
           \/ \E q \in ruleSet : /\ GetOverride(nd, ndt) = [rc |-> 0, rule |-> q]
                                 /\ Rules!Override(nd, ndt) = [rc |-> 0, ov |-> Deref(rules[q].ov)]
<1> DEFINE C == Cands(nd, ndt)  f == First(nd, ndt)  M == Matching(nd, ndt)
<1>0a. GetOverride(nd, ndt) =
           IF nd = NoDevice THEN [rc |-> 0, rule |-> Null]
           ELSE IF C = {} THEN [rc |-> 0, rule |-> Null]
           ELSE IF ~Android /\ rules[f].type # Undefined THEN [rc |-> -1, rule |-> Null]
           ELSE [rc |-> 0, rule |-> f]
  BY DEF GetOverride, Cands, Named, First
<1>0b. Rules!Override(nd, ndt) =
           IF nd = NoDevice THEN [rc |-> 0, ov |-> Null]
           ELSE IF M = {} THEN [rc |-> 0, ov |-> Null]
           ELSE IF ~Android /\ Best(nd, ndt)[2] # Undefined THEN [rc |-> -1, ov |-> Null]
           ELSE [rc |-> 0, ov |-> RuleTable[Best(nd, ndt)]]
  BY DEF Rules!Override, Matching, Best, Rules!NoDevice, Rules!NoName,
         Rules!Undefined, NoDevice, NoName, Undefined
<1>1. CASE nd = NoDevice
  <2>1. GetOverride(nd, ndt) = [rc |-> 0, rule |-> Null]
    BY <1>0a, <1>1
  <2>2. Rules!Override(nd, ndt) = [rc |-> 0, ov |-> Null]
    BY <1>0b, <1>1
  <2> QED BY <2>1, <2>2
<1>2. CASE nd # NoDevice /\ C = {}
  <2>1. nd \in IfNames
    BY <1>2
  <2>2. M = {}
    <3>1. M = {Key(q) : q \in C}
      BY <2>1, MatchingKeys
    <3> QED BY <1>2, <3>1
  <2>3. GetOverride(nd, ndt) = [rc |-> 0, rule |-> Null]
    BY <1>0a, <1>2
  <2>4. Rules!Override(nd, ndt) = [rc |-> 0, ov |-> Null]
    BY <1>0b, <1>2, <2>2
  <2> QED BY <2>3, <2>4
<1>3. CASE nd # NoDevice /\ C # {}
  <2>1. nd \in IfNames
    BY <1>3
  <2>2. f \in C /\ Best(nd, ndt) = Key(f) /\ M # {}
    BY <1>3, <2>1, FirstBest, MatchingKeys
  <2>3. f \in ruleSet /\ Best(nd, ndt)[2] = rules[f].type
    BY <2>2 DEF Cands, Named, Key
  <2>4. RuleTable[Best(nd, ndt)] = Deref(rules[f].ov)
    BY <2>2, <2>3, TableNonNull
  <2>5. CASE ~Android /\ rules[f].type # Undefined
    <3>1. GetOverride(nd, ndt) = [rc |-> -1, rule |-> Null]
      BY <1>0a, <1>3, <2>5
    <3>2. Rules!Override(nd, ndt) = [rc |-> -1, ov |-> Null]
      BY <1>0b, <1>3, <2>2, <2>3, <2>5
    <3> QED BY <3>1, <3>2
  <2>6. CASE ~(~Android /\ rules[f].type # Undefined)
    <3>1. GetOverride(nd, ndt) = [rc |-> 0, rule |-> f]
      BY <1>0a, <1>3, <2>6
    <3>2. Rules!Override(nd, ndt) = [rc |-> 0, ov |-> Deref(rules[f].ov)]
      BY <1>0b, <1>3, <2>2, <2>3, <2>4, <2>6
    <3> QED BY <2>3, <3>1, <3>2
  <2> QED BY <2>5, <2>6
<1> QED BY <1>1, <1>2, <1>3

-----------------------------------------------------------------------------
(* The answers *)

\* the fields a facemgr_cfg_get_<field>() query reads
PlainFields == {"face_type", "discovery", "ipv4", "ipv6"}

\* the global override read through its pointers keeps its plain fields
\* and reads its overlays from the heap
LEMMA GlobalDeref ==
    ASSUME TypeOK
    PROVE  /\ \A f \in PlainFields \cup {"ignore"} : Deref(global)[f] = global[f]
           /\ \A s \in {"v4", "v6"} :
                 /\ Deref(global)[s] = IF global[s] = Null THEN Null ELSE overlays[global[s]]
                 /\ global[s] # Null => overlays[global[s]] # Null
BY DerefFields DEF TypeOK, PlainFields

\* no override found: every query answers from the global override or the
\* default, in cfg.c as in the dictionary
LEMMA NullAnswer ==
    ASSUME TypeOK, NEW rc, NEW nd
    PROVE  LET o == [rc |-> rc, rule |-> Null]
               a == [rc |-> rc, ov |-> Null]
           IN  /\ \A f \in PlainFields : Lookup(f, o, Unset) = Rules!Field(f, a, Unset)
               /\ IgnoreLookup(o, nd) = Rules!Ignore(a, nd)
               /\ \A fam \in {"inet", "inet6", "unspec", "other"}, f \in OverlayFields :
                     OverlayLookup(f, o, fam, Unset) = Rules!OverlayField(f, a, fam, Unset)
<1>1. \A f \in PlainFields : Lookup(f, [rc |-> rc, rule |-> Null], Unset)
                               = Rules!Field(f, [rc |-> rc, ov |-> Null], Unset)
  BY GlobalDeref DEF Lookup, Rules!Field
<1>2. IgnoreLookup([rc |-> rc, rule |-> Null], nd) = Rules!Ignore([rc |-> rc, ov |-> Null], nd)
  BY DEF IgnoreLookup, Rules!Ignore, NoDevice, Rules!NoDevice
<1>3. \A fam \in {"inet", "inet6", "unspec", "other"}, f \in OverlayFields :
         OverlayLookup(f, [rc |-> rc, rule |-> Null], fam, Unset)
           = Rules!OverlayField(f, [rc |-> rc, ov |-> Null], fam, Unset)
  <2> SUFFICES ASSUME NEW fam \in {"inet", "inet6", "unspec", "other"}, NEW f \in OverlayFields
               PROVE  OverlayLookup(f, [rc |-> rc, rule |-> Null], fam, Unset)
                        = Rules!OverlayField(f, [rc |-> rc, ov |-> Null], fam, Unset)
    OBVIOUS
  <2> DEFINE s == Slot(fam)
  <2>1. s \in {"v4", "v6"} /\ s = IF fam = "inet" THEN "v4" ELSE "v6"
    BY DEF Slot
  <2>2. /\ Deref(global)[s] = IF global[s] = Null THEN Null ELSE overlays[global[s]]
        /\ global[s] # Null => overlays[global[s]] # Null
    BY <2>1, GlobalDeref
  <2> QED BY <2>1, <2>2 DEF OverlayLookup, Rules!OverlayField
<1> QED BY <1>1, <1>2, <1>3

\* a rule q found: every query answers from q's override, then the global
\* one, then the default, and q's override read through its pointers is
\* the dictionary's entry
LEMMA RuleAnswer ==
    ASSUME TypeOK, NEW q \in RuleIds, NEW nd
    PROVE  LET o == [rc |-> 0, rule |-> q]
               a == [rc |-> 0, ov |-> Deref(rules[q].ov)]
           IN  /\ \A f \in PlainFields : Lookup(f, o, Unset) = Rules!Field(f, a, Unset)
               /\ IgnoreLookup(o, nd) = Rules!Ignore(a, nd)
               /\ \A fam \in {"inet", "inet6", "unspec", "other"}, f \in OverlayFields :
                     OverlayLookup(f, o, fam, Unset) = Rules!OverlayField(f, a, fam, Unset)
<1> DEFINE ov == rules[q].ov  o == [rc |-> 0, rule |-> q]  a == [rc |-> 0, ov |-> Deref(ov)]
<1>0. ov \in OverrideType /\ q # Null
  BY NullAssumption DEF TypeOK
<1>1. /\ \A f \in PlainFields \cup {"ignore"} : Deref(ov)[f] = ov[f]
      /\ \A s \in {"v4", "v6"} :
            /\ Deref(ov)[s] = IF ov[s] = Null THEN Null ELSE overlays[ov[s]]
            /\ ov[s] # Null => overlays[ov[s]] # Null
      /\ Deref(ov) # Null
  BY <1>0, DerefFields DEF PlainFields
<1>2. \A f \in PlainFields : Lookup(f, o, Unset) = Rules!Field(f, a, Unset)
  BY <1>0, <1>1, GlobalDeref DEF Lookup, Rules!Field
<1>3. IgnoreLookup(o, nd) = Rules!Ignore(a, nd)
  BY <1>0, <1>1 DEF IgnoreLookup, Rules!Ignore, NoDevice, Rules!NoDevice
<1>4. \A fam \in {"inet", "inet6", "unspec", "other"}, f \in OverlayFields :
         OverlayLookup(f, o, fam, Unset) = Rules!OverlayField(f, a, fam, Unset)
  <2> SUFFICES ASSUME NEW fam \in {"inet", "inet6", "unspec", "other"}, NEW f \in OverlayFields
               PROVE  OverlayLookup(f, o, fam, Unset) = Rules!OverlayField(f, a, fam, Unset)
    OBVIOUS
  <2> DEFINE s == Slot(fam)
  <2>1. s \in {"v4", "v6"} /\ s = IF fam = "inet" THEN "v4" ELSE "v6"
    BY DEF Slot
  <2>2. /\ Deref(global)[s] = IF global[s] = Null THEN Null ELSE overlays[global[s]]
        /\ global[s] # Null => overlays[global[s]] # Null
    BY <2>1, GlobalDeref
  <2>3. /\ Deref(ov)[s] = IF ov[s] = Null THEN Null ELSE overlays[ov[s]]
        /\ ov[s] # Null => overlays[ov[s]] # Null
    BY <1>1, <2>1
  <2> QED BY <1>0, <1>1, <2>1, <2>2, <2>3 DEF OverlayLookup, Rules!OverlayField
<1> QED BY <1>2, <1>3, <1>4

\* the answers of cfg.c and of the dictionary for one device and type
Answers(d, t) ==
    LET o == GetOverride(d, t)
    IN  <<[f \in OverrideFields \ {"ignore"} |-> Lookup(f, o, Unset)],
          IgnoreLookup(o, d),
          [q \in (Families \cup {"unspec", "other"}) \X OverlayFields |->
             OverlayLookup(q[2], o, q[1], Unset)]>>

RulesAnswers(d, t) ==
    LET a == Rules!Override(d, t)
    IN  <<[f \in {"face_type", "discovery", "ipv4", "ipv6"} |-> Rules!Field(f, a, Unset)],
          Rules!Ignore(a, d),
          [q \in {"inet", "inet6", "unspec", "other"} \X Rules!OverlayFields |->
             Rules!OverlayField(q[2], a, q[1], Unset)]>>

\* answers that agree field by field give the same tuple of answers
LEMMA TupleAgree ==
    ASSUME NEW o, NEW a, NEW d,
           \A f \in PlainFields : Lookup(f, o, Unset) = Rules!Field(f, a, Unset),
           IgnoreLookup(o, d) = Rules!Ignore(a, d),
           \A fam \in {"inet", "inet6", "unspec", "other"}, f \in OverlayFields :
              OverlayLookup(f, o, fam, Unset) = Rules!OverlayField(f, a, fam, Unset)
    PROVE  <<[f \in OverrideFields \ {"ignore"} |-> Lookup(f, o, Unset)],
             IgnoreLookup(o, d),
             [q \in (Families \cup {"unspec", "other"}) \X OverlayFields |->
                OverlayLookup(q[2], o, q[1], Unset)]>>
           = <<[f \in {"face_type", "discovery", "ipv4", "ipv6"} |-> Rules!Field(f, a, Unset)],
               Rules!Ignore(a, d),
               [q \in {"inet", "inet6", "unspec", "other"} \X Rules!OverlayFields |->
                  Rules!OverlayField(q[2], a, q[1], Unset)]>>
<1>1. OverrideFields \ {"ignore"} = {"face_type", "discovery", "ipv4", "ipv6"}
  BY DEF OverrideFields
<1>2. Families \cup {"unspec", "other"} = {"inet", "inet6", "unspec", "other"}
  BY DEF Families
<1>3. Rules!OverlayFields = OverlayFields
  BY DEF Rules!OverlayFields, OverlayFields
<1>4. [f \in OverrideFields \ {"ignore"} |-> Lookup(f, o, Unset)]
      = [f \in {"face_type", "discovery", "ipv4", "ipv6"} |-> Rules!Field(f, a, Unset)]
  BY <1>1 DEF PlainFields
<1>5. [q \in (Families \cup {"unspec", "other"}) \X OverlayFields |->
         OverlayLookup(q[2], o, q[1], Unset)]
      = [q \in {"inet", "inet6", "unspec", "other"} \X Rules!OverlayFields |->
           Rules!OverlayField(q[2], a, q[1], Unset)]
  BY <1>2, <1>3
<1> QED BY <1>4, <1>5

\* for every device and type, every query of cfg.c answers what the
\* dictionary answers
LEMMA AnswersAgree ==
    ASSUME TypeOK, KeysUnique, NEW d \in {NoDevice} \cup IfNames, NEW t \in NetTypes
    PROVE  Answers(d, t) = RulesAnswers(d, t)
<1> DEFINE Tup(o) ==
           <<[f \in OverrideFields \ {"ignore"} |-> Lookup(f, o, Unset)],
             IgnoreLookup(o, d),
             [q \in (Families \cup {"unspec", "other"}) \X OverlayFields |->
                OverlayLookup(q[2], o, q[1], Unset)]>>
          RTup(a) ==
           <<[f \in {"face_type", "discovery", "ipv4", "ipv6"} |-> Rules!Field(f, a, Unset)],
             Rules!Ignore(a, d),
             [q \in {"inet", "inet6", "unspec", "other"} \X Rules!OverlayFields |->
                Rules!OverlayField(q[2], a, q[1], Unset)]>>
<1>1. /\ Answers(d, t) = Tup(GetOverride(d, t))
      /\ RulesAnswers(d, t) = RTup(Rules!Override(d, t))
  BY DEF Answers, RulesAnswers
<1>2. CASE \E rc \in {0, -1} : /\ GetOverride(d, t) = [rc |-> rc, rule |-> Null]
                               /\ Rules!Override(d, t) = [rc |-> rc, ov |-> Null]
  <2>1. PICK rc \in {0, -1} : /\ GetOverride(d, t) = [rc |-> rc, rule |-> Null]
                              /\ Rules!Override(d, t) = [rc |-> rc, ov |-> Null]
    BY <1>2
  <2>2. Tup([rc |-> rc, rule |-> Null]) = RTup([rc |-> rc, ov |-> Null])
    <3>1. /\ \A f \in PlainFields :
                Lookup(f, [rc |-> rc, rule |-> Null], Unset)
                = Rules!Field(f, [rc |-> rc, ov |-> Null], Unset)
          /\ IgnoreLookup([rc |-> rc, rule |-> Null], d)
             = Rules!Ignore([rc |-> rc, ov |-> Null], d)
          /\ \A fam \in {"inet", "inet6", "unspec", "other"}, f \in OverlayFields :
                OverlayLookup(f, [rc |-> rc, rule |-> Null], fam, Unset)
                = Rules!OverlayField(f, [rc |-> rc, ov |-> Null], fam, Unset)
      BY NullAnswer
    <3> QED BY <3>1, TupleAgree
  <2> QED BY <1>1, <2>1, <2>2
<1>3. CASE \E q \in ruleSet : /\ GetOverride(d, t) = [rc |-> 0, rule |-> q]
                              /\ Rules!Override(d, t) = [rc |-> 0, ov |-> Deref(rules[q].ov)]
  <2>1. PICK q \in ruleSet : /\ GetOverride(d, t) = [rc |-> 0, rule |-> q]
                             /\ Rules!Override(d, t) = [rc |-> 0, ov |-> Deref(rules[q].ov)]
    BY <1>3
  <2>2. q \in RuleIds
    BY DEF TypeOK
  <2>3. Tup([rc |-> 0, rule |-> q]) = RTup([rc |-> 0, ov |-> Deref(rules[q].ov)])
    <3>1. /\ \A f \in PlainFields :
                Lookup(f, [rc |-> 0, rule |-> q], Unset)
                = Rules!Field(f, [rc |-> 0, ov |-> Deref(rules[q].ov)], Unset)
          /\ IgnoreLookup([rc |-> 0, rule |-> q], d)
             = Rules!Ignore([rc |-> 0, ov |-> Deref(rules[q].ov)], d)
          /\ \A fam \in {"inet", "inet6", "unspec", "other"}, f \in OverlayFields :
                OverlayLookup(f, [rc |-> 0, rule |-> q], fam, Unset)
                = Rules!OverlayField(f, [rc |-> 0, ov |-> Deref(rules[q].ov)], fam, Unset)
      BY <2>2, RuleAnswer
    <3> QED BY <3>1, TupleAgree
  <2> QED BY <1>1, <2>1, <2>3
<1> QED BY <1>2, <1>3, OverrideCorr

\* ViewRefined follows from the invariant of the refinement
LEMMA InvViewRefined == TypeOK /\ KeysUnique => ViewRefined
<1> SUFFICES ASSUME TypeOK, KeysUnique PROVE View = Rules!View
  BY DEF ViewRefined
<1>1. View = [p \in ({NoDevice} \cup IfNames) \X NetTypes |-> Answers(p[1], p[2])]
  BY DEF View, Answers
<1>2. Rules!View = [p \in ({NoDevice} \cup IfNames) \X NetTypes |-> RulesAnswers(p[1], p[2])]
  BY DEF Rules!View, RulesAnswers, Rules!NoDevice, NoDevice
<1>3. \A p \in ({NoDevice} \cup IfNames) \X NetTypes : Answers(p[1], p[2]) = RulesAnswers(p[1], p[2])
  BY AnswersAgree
<1> QED BY <1>1, <1>2, <1>3

\* In every reachable configuration, every facemgr_cfg_get_ query (face
\* type, discovery, ipv4, ipv6, ignore and the four overlay fields of each
\* family) answers, for every device and device type, what the dictionary
\* of FacemgrRules answers: the sorted scan of facemgr_cfg_get_override()
\* over facemgr_cfg_rule_cmp() order finds the rule of the most specific
\* matching key, and its override read through the overlay pointers,
\* falling back on the global override, gives the abstract answer
THEOREM ViewRefinedSafety == Spec => []ViewRefined
<1>1. IInv => ViewRefined
  BY InvViewRefined DEF IInv, Inv
<1>2. Spec => []IInv
  <2>1. Init => IInv
    BY InitStep
  <2>2. IInv /\ [Next]_vars => IInv'
    BY NextStep
  <2> QED BY <2>1, <2>2, PTL DEF Spec
<1> QED BY <1>1, <1>2, PTL

=============================================================================
