------------------------- MODULE FacemgrRulesProofs -------------------------
(***************************************************************************)
(* The facemgr configuration of cfg.c, as modelled by FacemgrCfg,         *)
(* implements the dictionary of FacemgrRules under the mapping            *)
(* gcfg <- Deref(global), table <- RuleTable, for every value of the      *)
(* constants that satisfies CfgAssumption and NullAssumption.             *)
(***************************************************************************)
EXTENDS FacemgrCfgProofs

\* the arithmetic facts of CfgAssumption that the proofs use
LEMMA NamesNat == IfNames \subseteq Nat /\ NetTypes \subseteq Nat
BY CfgAssumption

\* the invariant the refinement rests on
IInv == Inv /\ KeysUnique

\* the type of an overlay cell
CellType ==
    [local_addr : {Unset} \cup Addrs, local_port : {Unset} \cup ValidPorts,
     remote_addr : {Unset} \cup Addrs, remote_port : {Unset} \cup ValidPorts]

\* Deref with the heap given as an argument
DerefIn(ov, ovs) ==
    [ov EXCEPT !.v4 = IF @ = Null THEN Null ELSE ovs[@],
               !.v6 = IF @ = Null THEN Null ELSE ovs[@]]

-----------------------------------------------------------------------------
(* Lemmas about keys and the mapped override *)

\* facemgr_cfg_rule_cmp() returns 0 exactly for rules of one key
LEMMA CmpZero ==
    ASSUME TypeOK, NEW q \in RuleIds, NEW r \in RuleIds
    PROVE  Cmp(q, r) = 0 <=> Key(q) = Key(r)
<1> DEFINE na == rules[q].name  nb == rules[r].name
           ta == rules[q].type  tb == rules[r].type
<1>0. rules[q] \in RuleType /\ rules[r] \in RuleType
  BY DEF TypeOK, RuleType
<1>1. na \in Nat /\ nb \in Nat /\ ta \in Nat /\ tb \in Nat
  <2>1. na \in {NoName} \cup IfNames /\ nb \in {NoName} \cup IfNames
        /\ ta \in NetTypes /\ tb \in NetTypes
    BY <1>0 DEF RuleType, na, nb, ta, tb
  <2>2. 0 \in Nat /\ IfNames \subseteq Nat /\ NetTypes \subseteq Nat
    BY NamesNat
  <2> QED BY <2>1, <2>2, Zenon DEF NoName
<1>2. Key(q) = Key(r) <=> na = nb /\ ta = tb
  BY DEF Key
<1>3. Cmp(q, r) = IF na = 0 /\ nb # 0 THEN 1
                  ELSE IF na # 0 /\ nb = 0 THEN -1
                  ELSE IF na # nb THEN na - nb
                  ELSE ta - tb
  BY DEF Cmp, NoName
<1>4. (IF na = 0 /\ nb # 0 THEN 1
       ELSE IF na # 0 /\ nb = 0 THEN -1
       ELSE IF na # nb THEN na - nb
       ELSE ta - tb) = 0 <=> na = nb /\ ta = tb
  BY <1>1
<1> QED BY <1>2, <1>3, <1>4

LEMMA DerefIsDerefIn ==
    ASSUME NEW ov
    PROVE  /\ Deref(ov) = DerefIn(ov, overlays)
           /\ Deref(ov)' = DerefIn(ov', overlays')
BY DEF Deref, DerefIn

\* a dereferenced override is an override of the dictionary, with the
\* fields of the pointer-holding one
LEMMA DerefInType ==
    ASSUME NEW ov \in OverrideType, NEW ovs \in [OverlayIds -> CellType]
    PROVE  /\ DerefIn(ov, ovs) \in Rules!Overrides
           /\ DerefIn(ov, ovs) # Null
           /\ DerefIn(ov, ovs).ignore = ov.ignore
           /\ DerefIn(ov, ovs).ipv4 = ov.ipv4
           /\ DerefIn(ov, ovs).ipv6 = ov.ipv6
<1> DEFINE P(p) == IF p = Null THEN Null ELSE ovs[p]
<1>1. DerefIn(ov, ovs) = [[ov EXCEPT !.v4 = P(ov.v4)] EXCEPT !.v6 = P(ov.v6)]
  BY DEF DerefIn, P
<1>2. CellType \subseteq Rules!Overlays
  BY DEF CellType, ValidPorts, Rules!Overlays
<1>3. P(ov.v4) \in {Null} \cup Rules!Overlays /\ P(ov.v6) \in {Null} \cup Rules!Overlays
  BY <1>2 DEF OverrideType, P
<1>4. DerefIn(ov, ovs) \in Rules!Overrides
  BY <1>1, <1>3 DEF OverrideType, Rules!Overrides
<1> QED BY <1>1, <1>4, NullAssumption

\* the heap cells an override does not point to do not change its value
LEMMA DerefInFresh ==
    ASSUME NEW ov \in OverrideType, NEW ovs \in [OverlayIds -> CellType],
           NEW o \in OverlayIds, NEW x,
           o \notin Refs(ov)
    PROVE  DerefIn(ov, [ovs EXCEPT ![o] = x]) = DerefIn(ov, ovs)
BY DEF DerefIn, OverrideType, Refs

\* the override a rule cell gets after an EXCEPT on its ov keeps its key
LEMMA RuleOvKey ==
    ASSUME NEW rs \in [RuleIds -> RuleType], NEW r \in RuleIds, NEW ov
    PROVE  /\ [rs EXCEPT ![r].ov = ov][r].name = rs[r].name
           /\ [rs EXCEPT ![r].ov = ov][r].type = rs[r].type
           /\ \A q \in RuleIds \ {r} : [rs EXCEPT ![r].ov = ov][q] = rs[q]
BY DEF RuleType

-----------------------------------------------------------------------------
(* The mapped table *)

\* the key of a rule of the set is a key of the dictionary
LEMMA KeyType ==
    ASSUME TypeOK, NEW q \in RuleIds
    PROVE  Key(q) \in Rules!Keys
BY DEF TypeOK, Key, Rules!Keys, NoName, Rules!NoName

LEMMA KeyTypePrime ==
    ASSUME TypeOK', NEW q \in RuleIds
    PROVE  Key(q)' \in Rules!Keys
BY DEF TypeOK, Key, Rules!Keys, NoName, Rules!NoName

\* the table maps the key of a rule of the set to the rule's override
LEMMA TableAt ==
    ASSUME TypeOK, KeysUnique, NEW q \in ruleSet
    PROVE  RuleTable[Key(q)] = Deref(rules[q].ov)
<1>1. Key(q) \in Rules!Keys
  BY KeyType DEF TypeOK
<1>2. (CHOOSE p \in ruleSet : Key(p) = Key(q)) = q
  BY DEF KeysUnique
<1> QED BY <1>1, <1>2 DEF RuleTable, Rules!Keys, Rules!NoName, NoName

LEMMA TableAtPrime ==
    ASSUME TypeOK', KeysUnique', NEW q \in ruleSet'
    PROVE  RuleTable'[Key(q)'] = Deref(rules[q].ov)'
<1>1. Key(q)' \in Rules!Keys
  BY KeyTypePrime DEF TypeOK
<1>2. (CHOOSE p \in ruleSet' : Key(p)' = Key(q)') = q
  BY DEF KeysUnique
<1> QED BY <1>1, <1>2 DEF RuleTable, Rules!Keys, Rules!NoName, NoName

\* a key no rule of the set has maps to Null
LEMMA TableNull ==
    ASSUME NEW k \in Rules!Keys, ~\E q \in ruleSet : Key(q) = k
    PROVE  RuleTable[k] = Null
BY DEF RuleTable, Rules!Keys, Rules!NoName, NoName

LEMMA TableNullPrime ==
    ASSUME NEW k \in Rules!Keys, ~\E q \in ruleSet' : Key(q)' = k
    PROVE  RuleTable'[k] = Null
BY DEF RuleTable, Rules!Keys, Rules!NoName, NoName

\* the table changes at key k at most when every rule of another key
\* stays in the set with its key and its dereferenced override
LEMMA TableOnlyAt ==
    ASSUME TypeOK, TypeOK', KeysUnique, KeysUnique', NEW k,
           \A q \in ruleSet : Key(q) # k =>
              q \in ruleSet' /\ Key(q)' = Key(q) /\ Deref(rules[q].ov)' = Deref(rules[q].ov),
           \A q \in ruleSet' : Key(q)' # k =>
              q \in ruleSet /\ Key(q)' = Key(q) /\ Deref(rules[q].ov)' = Deref(rules[q].ov)
    PROVE  \A j \in Rules!Keys \ {k} : RuleTable'[j] = RuleTable[j]
<1> SUFFICES ASSUME NEW j \in Rules!Keys \ {k} PROVE RuleTable'[j] = RuleTable[j]
  OBVIOUS
<1>1. CASE \E q \in ruleSet : Key(q) = j
  <2>1. PICK q \in ruleSet : Key(q) = j
    BY <1>1
  <2>2. q \in ruleSet' /\ Key(q)' = j /\ Deref(rules[q].ov)' = Deref(rules[q].ov)
    BY <2>1
  <2> QED BY <2>1, <2>2, TableAt, TableAtPrime
<1>2. CASE \E q \in ruleSet' : Key(q)' = j
  <2>1. PICK q \in ruleSet' : Key(q)' = j
    BY <1>2
  <2>2. q \in ruleSet /\ Key(q) = j /\ Deref(rules[q].ov)' = Deref(rules[q].ov)
    BY <2>1
  <2> QED BY <2>1, <2>2, TableAt, TableAtPrime
<1>3. CASE (~\E q \in ruleSet : Key(q) = j) /\ ~\E q \in ruleSet' : Key(q)' = j
  BY <1>3, TableNull, TableNullPrime
<1> QED BY <1>1, <1>2, <1>3

\* a step that keeps the set, its keys and their overrides keeps the table
LEMMA TableSame ==
    ASSUME TypeOK, TypeOK', KeysUnique, KeysUnique', ruleSet' = ruleSet,
           \A q \in ruleSet : Key(q)' = Key(q) /\ Deref(rules[q].ov)' = Deref(rules[q].ov)
    PROVE  RuleTable' = RuleTable
<1>1. \A j \in Rules!Keys : RuleTable'[j] = RuleTable[j]
  <2> SUFFICES ASSUME NEW j \in Rules!Keys PROVE RuleTable'[j] = RuleTable[j]
    OBVIOUS
  <2>1. CASE \E q \in ruleSet : Key(q) = j
    BY <2>1, TableAt, TableAtPrime
  <2>2. CASE ~\E q \in ruleSet : Key(q) = j
    BY <2>2, TableNull, TableNullPrime
  <2> QED BY <2>1, <2>2
<1>2. /\ RuleTable = [j \in Rules!Keys |-> RuleTable[j]]
      /\ RuleTable' = [j \in Rules!Keys |-> RuleTable'[j]]
  BY DEF RuleTable, Rules!Keys, Rules!NoName, NoName
<1> QED BY <1>1, <1>2

-----------------------------------------------------------------------------
(* Three shapes of step *)

\* the heap of a well-typed state holds overlay cells
LEMMA HeapType ==
    /\ TypeOK => overlays \in [OverlayIds -> CellType]
    /\ TypeOK' => overlays' \in [OverlayIds -> CellType]
BY DEF TypeOK, CellType

\* a step on a rule outside the set, with the global override and the
\* heap unchanged, is a stutter of the dictionary
LEMMA OutsideStep ==
    ASSUME IInv, Inv', NEW r \in RuleIds, r \notin ruleSet,
           ruleSet' = ruleSet, global' = global, overlays' = overlays,
           \A q \in RuleIds \ {r} : rules'[q] = rules[q]
    PROVE  KeysUnique' /\ UNCHANGED Rules!avars
<1>1. \A q \in ruleSet : rules'[q] = rules[q]
  BY DEF IInv, Inv, TypeOK
<1>2. \A q \in ruleSet : Key(q)' = Key(q) /\ Deref(rules[q].ov)' = Deref(rules[q].ov)
  BY <1>1 DEF Key, Deref
<1>3. KeysUnique'
  BY <1>2 DEF IInv, KeysUnique
<1>4. RuleTable' = RuleTable
  BY <1>2, <1>3, TableSame DEF IInv, Inv
<1>5. Deref(global)' = Deref(global)
  BY DEF Deref
<1> QED BY <1>3, <1>4, <1>5 DEF Rules!avars

\* a step that changes the override of rule r only, keeping the set, the
\* global override and what every other override dereferences to, is an
\* edit of r's key when r is in the set and a stutter otherwise
LEMMA EditStep ==
    ASSUME IInv, Inv', NEW r \in RuleIds, NEW x \in OverrideType,
           ruleSet' = ruleSet, global' = global,
           rules' = [rules EXCEPT ![r].ov = x],
           Deref(global)' = Deref(global),
           \A q \in ruleSet \ {r} : Deref(rules[q].ov)' = Deref(rules[q].ov)
    PROVE  KeysUnique' /\ [Rules!Next]_Rules!avars
<1>1. rules \in [RuleIds -> RuleType]
  BY DEF IInv, Inv, TypeOK, RuleType
<1>2. \A q \in RuleIds : Key(q)' = Key(q)
  BY <1>1, RuleOvKey DEF Key
<1>3. KeysUnique'
  BY <1>2 DEF IInv, KeysUnique, Inv, TypeOK
<1>4. TypeOK /\ TypeOK' /\ KeysUnique
  BY DEF IInv, Inv
<1>5. CASE r \notin ruleSet
  <2>1. \A q \in ruleSet : Key(q)' = Key(q) /\ Deref(rules[q].ov)' = Deref(rules[q].ov)
    BY <1>2, <1>4, <1>5 DEF TypeOK
  <2>2. RuleTable' = RuleTable
    BY <1>3, <1>4, <2>1, TableSame
  <2>3. UNCHANGED Rules!avars
    BY <2>2 DEF Rules!avars
  <2> QED BY <1>3, <2>3
<1>6. CASE r \in ruleSet
  <2> DEFINE k == Key(r)
  <2>1. k \in Rules!Keys
    BY <1>4, KeyType
  <2>2. RuleTable[k] = Deref(rules[r].ov) /\ RuleTable'[k] = Deref(rules[r].ov)'
    BY <1>2, <1>3, <1>4, <1>6, TableAt, TableAtPrime
  <2>3. rules[r].ov \in OverrideType /\ rules'[r].ov = x
    BY <1>1 DEF RuleType
  <2>4. Deref(rules[r].ov) = DerefIn(rules[r].ov, overlays)
        /\ Deref(rules[r].ov)' = DerefIn(rules'[r].ov, overlays')
    BY DEF Deref, DerefIn
  <2>5. RuleTable[k] # Null /\ RuleTable'[k] \in Rules!Overrides
    <3>1. overlays \in [OverlayIds -> CellType] /\ overlays' \in [OverlayIds -> CellType]
      BY <1>4, HeapType
    <3> QED BY <2>2, <2>3, <2>4, <3>1, DerefInType
  <2>6. \A q \in ruleSet : Key(q) # k =>
           q \in ruleSet' /\ Key(q)' = Key(q) /\ Deref(rules[q].ov)' = Deref(rules[q].ov)
    BY <1>2, <1>4 DEF TypeOK
  <2>7. \A q \in ruleSet' : Key(q)' # k =>
           q \in ruleSet /\ Key(q)' = Key(q) /\ Deref(rules[q].ov)' = Deref(rules[q].ov)
    BY <1>2, <1>4 DEF TypeOK
  <2>9. \A j \in Rules!Keys \ {k} : RuleTable'[j] = RuleTable[j]
    BY <1>3, <1>4, <2>6, <2>7, TableOnlyAt
  <2>8. Rules!Edit(k)
    BY <2>5, <2>9 DEF Rules!Edit, Rules!OnlyAt
  <2> QED BY <1>3, <2>1, <2>8 DEF Rules!Next
<1> QED BY <1>3, <1>5, <1>6

\* a step that changes the global override only, keeping ignore, ipv4
\* and ipv6, and what every rule of the set dereferences to, is a change
\* of the global override of the dictionary
LEMMA GlobalStep ==
    ASSUME IInv, Inv', rules' = rules, ruleSet' = ruleSet,
           global'.ignore = global.ignore, global'.ipv4 = global.ipv4,
           global'.ipv6 = global.ipv6,
           \A q \in ruleSet : Deref(rules[q].ov)' = Deref(rules[q].ov)
    PROVE  KeysUnique' /\ [Rules!Next]_Rules!avars
<1>1. TypeOK /\ TypeOK' /\ KeysUnique
  BY DEF IInv, Inv
<1>2. \A q \in ruleSet : Key(q)' = Key(q) /\ Deref(rules[q].ov)' = Deref(rules[q].ov)
  BY DEF Key
<1>3. KeysUnique'
  BY <1>1, <1>2 DEF KeysUnique
<1>4. RuleTable' = RuleTable
  BY <1>1, <1>2, <1>3, TableSame
<1>5. global' \in OverrideType /\ global \in OverrideType
  BY <1>1 DEF TypeOK
<1>6. Deref(global)' = DerefIn(global', overlays') /\ Deref(global) = DerefIn(global, overlays)
  BY DEF Deref, DerefIn
<1>7. /\ Deref(global)' \in Rules!Overrides
      /\ Deref(global)'.ignore = Deref(global).ignore
      /\ Deref(global)'.ipv4 = Deref(global).ipv4
      /\ Deref(global)'.ipv6 = Deref(global).ipv6
  BY <1>1, <1>5, <1>6, HeapType, DerefInType
<1>8. Rules!SetGlobal
  BY <1>4, <1>7 DEF Rules!SetGlobal
<1> QED BY <1>3, <1>8 DEF Rules!Next

-----------------------------------------------------------------------------
(* Each call is a step of the dictionary or a stutter *)

\* rule_create(), rule_free() and rule_set_match() touch a rule outside
\* the set only: the dictionary does not see them
LEMMA RuleCreateStep ==
    ASSUME IInv, NEW r \in RuleIds, RuleCreate(r)
    PROVE  KeysUnique' /\ [Rules!Next]_Rules!avars
<1>1. Inv'
  BY RuleCreateInv DEF IInv
<1>2. r \notin ruleSet
  BY DEF RuleCreate, IInv, Inv, TypeOK
<1>3. PICK u4, u6 \in Uninit : rules' = [rules EXCEPT ![r] = EmptyRule(u4, u6)]
  BY DEF RuleCreate
<1>4. \A q \in RuleIds \ {r} : rules'[q] = rules[q]
  BY <1>3 DEF IInv, Inv, TypeOK
<1> QED BY <1>1, <1>2, <1>4, OutsideStep DEF RuleCreate

LEMMA RuleFreeStep ==
    ASSUME IInv, NEW r \in RuleIds, RuleFree(r)
    PROVE  KeysUnique' /\ [Rules!Next]_Rules!avars
<1>1. Inv'
  BY RuleFreeInv DEF IInv
<1>2. \A q \in RuleIds \ {r} : rules'[q] = rules[q]
  BY DEF RuleFree, IInv, Inv, TypeOK
<1> QED BY <1>1, <1>2, OutsideStep DEF RuleFree

LEMMA RuleSetMatchStep ==
    ASSUME IInv, NEW r \in RuleIds, NEW n \in {NoName} \cup IfNames, NEW tp \in NetTypes,
           RuleSetMatch(r, n, tp)
    PROVE  KeysUnique' /\ [Rules!Next]_Rules!avars
<1>1. Inv'
  BY RuleSetMatchInv DEF IInv
<1>2. \A q \in RuleIds \ {r} : rules'[q] = rules[q]
  BY DEF RuleSetMatch, IInv, Inv, TypeOK
<1> QED BY <1>1, <1>2, OutsideStep DEF RuleSetMatch

\* rule_set_<field>() and rule_unset_<field>() edit one rule's override
LEMMA RuleSetOverrideStep ==
    ASSUME IInv, NEW r \in RuleIds, NEW f \in Fields, NEW v \in {Unset} \cup FieldValues(f),
           RuleSetOverride(r, f, v)
    PROVE  KeysUnique' /\ [Rules!Next]_Rules!avars
<1>1. Inv'
  BY RuleSetOverrideInv DEF IInv
<1>2. rules[r].ov \in OverrideType /\ rules \in [RuleIds -> RuleType]
  BY DEF IInv, Inv, TypeOK, RuleType
<1>3. [rules[r].ov EXCEPT ![f] = v] \in OverrideType
  BY <1>2, SetFieldEffect
<1>4. rules' = [rules EXCEPT ![r].ov = [rules[r].ov EXCEPT ![f] = v]]
  BY DEF RuleSetOverride
<1>5. \A q \in ruleSet \ {r} : Deref(rules[q].ov)' = Deref(rules[q].ov)
  BY <1>2, <1>4 DEF RuleSetOverride, Deref, IInv, Inv, TypeOK
<1>6. Deref(global)' = Deref(global)
  BY DEF RuleSetOverride, Deref
<1> QED BY <1>1, <1>3, <1>4, <1>5, <1>6, EditStep DEF RuleSetOverride

\* rule_unset_overlay() edits one rule's override
LEMMA RuleUnsetOverlayStep ==
    ASSUME IInv, NEW r \in RuleIds, NEW fam \in Families \cup {"unspec"},
           RuleUnsetOverlay(r, fam)
    PROVE  KeysUnique' /\ [Rules!Next]_Rules!avars
<1>1. Inv'
  BY RuleUnsetOverlayInv DEF IInv
<1>2. rules[r].ov \in OverrideType /\ rules \in [RuleIds -> RuleType] /\ r \in Targets
  BY DEF RuleUnsetOverlay, IInv, Inv, TypeOK, RuleType, Targets
<1>3. rules[r].ov.v4 = rules[r].ov.v6 => rules[r].ov.v4 = Null
  BY <1>2, CfgAssumption DEF IInv, Inv, OverlayOwnership, OverrideOf
<1>4. Cleared(rules[r].ov, fam) \in OverrideType
  BY <1>2, <1>3, ClearedEffect DEF Families
<1>5. rules' = [rules EXCEPT ![r].ov = Cleared(rules[r].ov, fam)]
  BY DEF RuleUnsetOverlay
<1>6. \A q \in ruleSet \ {r} : Deref(rules[q].ov)' = Deref(rules[q].ov)
  BY <1>2, <1>5 DEF RuleUnsetOverlay, Deref, IInv, Inv, TypeOK
<1>7. Deref(global)' = Deref(global)
  BY DEF RuleUnsetOverlay, Deref
<1> QED BY <1>1, <1>4, <1>5, <1>6, <1>7, EditStep DEF RuleUnsetOverlay

\* set_overlay() fills a cell no override points to: every override
\* dereferences as before
LEMMA FreshDeref ==
    ASSUME Inv, NEW o \in OverlayIds, o \notin ovLive, NEW n, NEW t \in Targets
    PROVE  DerefIn(OverrideOf(t), [overlays EXCEPT ![o] = n]) = DerefIn(OverrideOf(t), overlays)
<1>1. OverrideOf(t) \in OverrideType
  BY DEF Inv, TypeOK, Targets, OverrideOf
<1>2. o \notin Refs(OverrideOf(t))
  BY DEF Inv, OverlayOwnership
<1> QED BY <1>1, <1>2, HeapType, DerefInFresh DEF Inv

\* rule_set_overlay() edits one rule's override and fills a fresh cell
LEMMA RuleSetOverlayStep ==
    ASSUME IInv, NEW r \in RuleIds, NEW fam \in Families, NEW o \in OverlayIds,
           NEW a \in OverlayArgs, RuleSetOverlay(r, fam, o, a[1], a[2], a[3], a[4])
    PROVE  KeysUnique' /\ [Rules!Next]_Rules!avars
<1>1. Inv' /\ Inv
  BY RuleSetOverlayInv DEF IInv
<1>2. rules[r].ov \in OverrideType /\ rules \in [RuleIds -> RuleType]
  BY DEF IInv, Inv, TypeOK, RuleType
<1> DEFINE x == [rules[r].ov EXCEPT ![Slot(fam)] = o]
           n == NewOverlay(a[1], a[2], a[3], a[4])
<1>3. x \in OverrideType
  BY <1>2, PointEffect
<1>4. rules' = [rules EXCEPT ![r].ov = x]
  BY DEF RuleSetOverlay
<1>5. o \notin ovLive /\ overlays' = [overlays EXCEPT ![o] = n] /\ global' = global
  BY DEF RuleSetOverlay, SetOverlay
<1>6. \A q \in ruleSet \ {r} : Deref(rules[q].ov)' = Deref(rules[q].ov)
  <2> SUFFICES ASSUME NEW q \in ruleSet \ {r}
               PROVE  Deref(rules[q].ov)' = Deref(rules[q].ov)
    OBVIOUS
  <2>1. rules'[q] = rules[q] /\ q \in Targets /\ OverrideOf(q) = rules[q].ov
    BY <1>4, CfgAssumption DEF IInv, Inv, TypeOK, Targets, OverrideOf
  <2>2. Deref(rules[q].ov)' = DerefIn(rules[q].ov, overlays')
    BY <2>1 DEF Deref, DerefIn
  <2>3. Deref(rules[q].ov) = DerefIn(rules[q].ov, overlays)
    BY DEF Deref, DerefIn
  <2> QED BY <1>1, <1>5, <2>1, <2>2, <2>3, FreshDeref
<1>7. Deref(global)' = Deref(global)
  <2>1. "global" \in Targets /\ OverrideOf("global") = global
    BY DEF Targets, OverrideOf
  <2>2. Deref(global)' = DerefIn(global, overlays') /\ Deref(global) = DerefIn(global, overlays)
    BY <1>5 DEF Deref, DerefIn
  <2> QED BY <1>1, <1>5, <2>1, <2>2, FreshDeref
<1> QED BY <1>1, <1>3, <1>4, <1>5, <1>6, <1>7, EditStep DEF RuleSetOverlay

\* the global setters change the global override of the dictionary
LEMMA CfgSetOverrideStep ==
    ASSUME IInv, NEW f \in Fields, NEW v \in {Unset} \cup FieldValues(f),
           CfgSetOverride(f, v)
    PROVE  KeysUnique' /\ [Rules!Next]_Rules!avars
<1>1. Inv'
  BY CfgSetOverrideInv DEF IInv
<1>2. global \in OverrideType /\ f \in {"face_type", "discovery"}
  BY DEF IInv, Inv, TypeOK, CfgSetOverride
<1>3. global'.ignore = global.ignore /\ global'.ipv4 = global.ipv4 /\ global'.ipv6 = global.ipv6
  BY <1>2 DEF CfgSetOverride, OverrideType
<1>4. \A q \in ruleSet : Deref(rules[q].ov)' = Deref(rules[q].ov)
  BY DEF CfgSetOverride, Deref
<1> QED BY <1>1, <1>3, <1>4, GlobalStep DEF CfgSetOverride

LEMMA CfgSetOverlayStep ==
    ASSUME IInv, NEW fam \in Families, NEW o \in OverlayIds,
           NEW a \in OverlayArgs, CfgSetOverlay(fam, o, a[1], a[2], a[3], a[4])
    PROVE  KeysUnique' /\ [Rules!Next]_Rules!avars
<1>1. Inv' /\ Inv
  BY CfgSetOverlayInv DEF IInv
<1>2. global \in OverrideType
  BY DEF IInv, Inv, TypeOK
<1>3. global'.ignore = global.ignore /\ global'.ipv4 = global.ipv4 /\ global'.ipv6 = global.ipv6
  BY <1>2 DEF CfgSetOverlay, OverrideType, Slot, Families
<1> DEFINE n == NewOverlay(a[1], a[2], a[3], a[4])
<1>5. o \notin ovLive /\ overlays' = [overlays EXCEPT ![o] = n] /\ rules' = rules
  BY DEF CfgSetOverlay, SetOverlay
<1>6. \A q \in ruleSet : Deref(rules[q].ov)' = Deref(rules[q].ov)
  <2> SUFFICES ASSUME NEW q \in ruleSet
               PROVE  Deref(rules[q].ov)' = Deref(rules[q].ov)
    OBVIOUS
  <2>1. q \in Targets /\ OverrideOf(q) = rules[q].ov
    BY CfgAssumption DEF IInv, Inv, TypeOK, Targets, OverrideOf
  <2>2. Deref(rules[q].ov)' = DerefIn(rules[q].ov, overlays')
    BY <1>5 DEF Deref, DerefIn
  <2>3. Deref(rules[q].ov) = DerefIn(rules[q].ov, overlays)
    BY DEF Deref, DerefIn
  <2> QED BY <1>1, <1>5, <2>1, <2>2, <2>3, FreshDeref
<1> QED BY <1>1, <1>3, <1>5, <1>6, GlobalStep DEF CfgSetOverlay

LEMMA CfgUnsetOverlayStep ==
    ASSUME IInv, NEW fam \in Families \cup {"unspec"}, CfgUnsetOverlay(fam)
    PROVE  KeysUnique' /\ [Rules!Next]_Rules!avars
<1>1. Inv'
  BY CfgUnsetOverlayInv DEF IInv
<1>2. global \in OverrideType
  BY DEF IInv, Inv, TypeOK
<1>3. global'.ignore = global.ignore /\ global'.ipv4 = global.ipv4 /\ global'.ipv6 = global.ipv6
  BY <1>2 DEF CfgUnsetOverlay, Cleared, OverrideType
<1>4. \A q \in ruleSet : Deref(rules[q].ov)' = Deref(rules[q].ov)
  BY DEF CfgUnsetOverlay, Deref
<1> QED BY <1>1, <1>3, <1>4, GlobalStep DEF CfgUnsetOverlay

\* add_rule() and del_rule() change the set only; rules and heap stay
LEMMA SetOnlyFacts ==
    ASSUME rules' = rules, global' = global, overlays' = overlays
    PROVE  /\ \A q \in RuleIds : Key(q)' = Key(q) /\ Deref(rules[q].ov)' = Deref(rules[q].ov)
           /\ Deref(global)' = Deref(global)
BY DEF Key, Deref

\* add_rule() puts a new key, or refuses the rule and changes nothing
LEMMA AddRuleStep ==
    ASSUME IInv, NEW r \in RuleIds, AddRule(r)
    PROVE  KeysUnique' /\ [Rules!Next]_Rules!avars
<1>1. TypeOK /\ TypeOK' /\ KeysUnique /\ ruleSet \subseteq RuleIds
  BY AddRuleInv DEF IInv, Inv, TypeOK
<1>2. /\ \A q \in RuleIds : Key(q)' = Key(q) /\ Deref(rules[q].ov)' = Deref(rules[q].ov)
      /\ Deref(global)' = Deref(global)
  BY SetOnlyFacts DEF AddRule
<1>3. CASE \E q \in ruleSet : Cmp(q, r) = 0
  <2>1. ruleSet' = ruleSet
    BY <1>3 DEF AddRule
  <2>2. KeysUnique'
    BY <1>1, <1>2, <2>1 DEF KeysUnique
  <2>3. RuleTable' = RuleTable
    BY <1>1, <1>2, <2>1, <2>2, TableSame
  <2> QED BY <1>2, <2>2, <2>3 DEF Rules!avars
<1>4. CASE ~\E q \in ruleSet : Cmp(q, r) = 0
  <2> DEFINE k == Key(r)
  <2>1. ruleSet' = ruleSet \cup {r}
    BY <1>4 DEF AddRule
  <2>2. \A q \in ruleSet : Key(q) # k
    BY <1>1, <1>4, CmpZero
  <2>3. KeysUnique'
    BY <1>1, <1>2, <2>1, <2>2 DEF KeysUnique
  <2>4. k \in Rules!Keys /\ RuleTable[k] = Null
    BY <1>1, <2>2, KeyType, TableNull
  <2>5. RuleTable'[k] \in Rules!Overrides
    <3>1. RuleTable'[k] = Deref(rules[r].ov)'
      BY <1>1, <1>2, <2>1, <2>3, TableAtPrime
    <3>2. Deref(rules[r].ov)' = DerefIn(rules[r].ov, overlays)
      BY DEF AddRule, Deref, DerefIn
    <3>3. rules[r].ov \in OverrideType
      BY <1>1 DEF TypeOK
    <3> QED BY <1>1, <3>1, <3>2, <3>3, HeapType, DerefInType
  <2>6. \A j \in Rules!Keys \ {k} : RuleTable'[j] = RuleTable[j]
    <3>1. \A q \in ruleSet : Key(q) # k =>
             q \in ruleSet' /\ Key(q)' = Key(q) /\ Deref(rules[q].ov)' = Deref(rules[q].ov)
      BY <1>1, <1>2, <2>1
    <3>2. \A q \in ruleSet' : Key(q)' # k =>
             q \in ruleSet /\ Key(q)' = Key(q) /\ Deref(rules[q].ov)' = Deref(rules[q].ov)
      BY <1>1, <1>2, <2>1
    <3> QED BY <1>1, <2>3, <3>1, <3>2, TableOnlyAt
  <2>7. Rules!Put(k)
    BY <1>2, <2>4, <2>5, <2>6 DEF Rules!Put, Rules!OnlyAt
  <2> QED BY <2>3, <2>4, <2>7 DEF Rules!Next
<1> QED BY <1>3, <1>4

\* del_rule() removes the key of r, or finds no rule with it and changes
\* nothing
LEMMA DelRuleStep ==
    ASSUME IInv, NEW r \in RuleIds, DelRule(r)
    PROVE  KeysUnique' /\ [Rules!Next]_Rules!avars
<1>1. TypeOK /\ TypeOK' /\ KeysUnique /\ ruleSet \subseteq RuleIds
  BY DelRuleInv DEF IInv, Inv, TypeOK
<1>2. /\ \A q \in RuleIds : Key(q)' = Key(q) /\ Deref(rules[q].ov)' = Deref(rules[q].ov)
      /\ Deref(global)' = Deref(global)
  BY SetOnlyFacts DEF DelRule
<1> DEFINE k == Key(r)
<1>3. ruleSet' = {q \in ruleSet : Key(q) # k}
  <2>1. \A q \in ruleSet : Cmp(q, r) # 0 <=> Key(q) # k
    BY <1>1, CmpZero
  <2> QED BY <2>1 DEF DelRule
<1>4. KeysUnique'
  BY <1>1, <1>2, <1>3 DEF KeysUnique
<1>5. \A j \in Rules!Keys \ {k} : RuleTable'[j] = RuleTable[j]
  <2>1. \A q \in ruleSet : Key(q) # k =>
           q \in ruleSet' /\ Key(q)' = Key(q) /\ Deref(rules[q].ov)' = Deref(rules[q].ov)
    BY <1>1, <1>2, <1>3
  <2>2. \A q \in ruleSet' : Key(q)' # k =>
           q \in ruleSet /\ Key(q)' = Key(q) /\ Deref(rules[q].ov)' = Deref(rules[q].ov)
    BY <1>1, <1>2, <1>3
  <2> QED BY <1>1, <1>4, <2>1, <2>2, TableOnlyAt
<1>6. k \in Rules!Keys /\ RuleTable'[k] = Null
  <2>1. ~\E q \in ruleSet' : Key(q)' = k
    BY <1>1, <1>2, <1>3
  <2> QED BY <1>1, <2>1, KeyType, TableNullPrime
<1>7. CASE \E q \in ruleSet : Key(q) = k
  <2>1. PICK q0 \in ruleSet : Key(q0) = k
    BY <1>7
  <2>2. RuleTable[k] = DerefIn(rules[q0].ov, overlays)
    BY <1>1, <2>1, TableAt DEF Deref, DerefIn
  <2>3. rules[q0].ov \in OverrideType
    BY <1>1 DEF TypeOK
  <2>4. RuleTable[k] # Null
    BY <1>1, <2>2, <2>3, HeapType, DerefInType
  <2>5. Rules!Remove(k)
    BY <1>2, <1>5, <1>6, <2>4 DEF Rules!Remove, Rules!OnlyAt
  <2> QED BY <1>4, <1>6, <2>5 DEF Rules!Next
<1>8. CASE ~\E q \in ruleSet : Key(q) = k
  <2>1. ruleSet' = ruleSet
    BY <1>3, <1>8
  <2>2. RuleTable' = RuleTable
    BY <1>1, <1>2, <1>4, <2>1, TableSame
  <2> QED BY <1>2, <1>4, <2>2 DEF Rules!avars
<1> QED BY <1>7, <1>8

-----------------------------------------------------------------------------
(* The override search *)

\* the ranks of a rule cell's match: names and types are naturals, and a
\* named rule's name is not the NULL rank 0
LEMMA MatchRanks ==
    ASSUME TypeOK, NEW q \in RuleIds
    PROVE  /\ rules[q].name \in {NoName} \cup IfNames
           /\ rules[q].name \in Nat /\ rules[q].type \in Nat
<1>1. rules[q].name \in {NoName} \cup IfNames /\ rules[q].type \in NetTypes
  BY DEF TypeOK
<1>2. 0 \in Nat /\ IfNames \subseteq Nat /\ NetTypes \subseteq Nat
  BY NamesNat
<1> QED BY <1>1, <1>2, Zenon DEF NoName

\* a candidate not above the untyped rule of name n, in
\* facemgr_cfg_rule_cmp() order, is an untyped rule of name n
LEMMA CmpBelowUntyped ==
    ASSUME TypeOK, NEW n \in Nat \ {0}, NEW q0 \in RuleIds, NEW f \in RuleIds,
           rules[q0].name = n, rules[q0].type = Undefined,
           rules[f].name \in {0, n}, Cmp(f, q0) <= 0
    PROVE  rules[f].name = n /\ rules[f].type = Undefined
<1>1. rules[f].type \in Nat
  BY MatchRanks
<1>2. rules[f].name # 0
  <2> SUFFICES ASSUME rules[f].name = 0 PROVE FALSE
    OBVIOUS
  <2>1. Cmp(f, q0) = 1
    BY DEF Cmp, NoName
  <2> QED BY <2>1
<1>3. Cmp(f, q0) = rules[f].type
  BY <1>1, <1>2 DEF Cmp, NoName, Undefined
<1> QED BY <1>1, <1>2, <1>3 DEF Undefined

\* facemgr_cfg_get_override() for an interface n that a rule of the set
\* names with NETDEVICE_TYPE_UNDEFINED: that rule is facemgr_cfg_rule_cmp()
\* least among the candidates (named before NULL, type 0 first), so the
\* first candidate of the sorted scan is a rule of name n and type 0
LEMMA UntypedNamedFirst ==
    ASSUME TypeOK, NEW n \in IfNames, NEW t \in NetTypes, NEW q0 \in ruleSet,
           rules[q0].name = n, rules[q0].type = Undefined
    PROVE  LET o == GetOverride(n, t)
           IN  o.rc = 0 /\ o.rule # Null /\ rules[o.rule].name = n
<1> DEFINE named == {q \in ruleSet : rules[q].name \in {NoName, n}}
           cands == IF Android THEN {q \in named : rules[q].type \in {Undefined, t}}
                    ELSE named
           first == CHOOSE q \in cands : \A p \in cands : Cmp(q, p) <= 0
<1>1. ruleSet \subseteq RuleIds /\ n \in Nat \ {0} /\ Android \in BOOLEAN
  BY CfgAssumption DEF TypeOK
<1>2. q0 \in cands
  BY <1>1 DEF Undefined, NoName
<1>3. \A p \in cands : Cmp(q0, p) <= 0
  <2> SUFFICES ASSUME NEW p \in cands PROVE Cmp(q0, p) <= 0
    OBVIOUS
  <2>1. p \in RuleIds /\ rules[p].name \in {0, n} /\ rules[p].type \in Nat
    BY <1>1, MatchRanks DEF NoName
  <2> QED BY <1>1, <2>1 DEF Cmp, NoName, Undefined
<1>4. first \in cands /\ \A p \in cands : Cmp(first, p) <= 0
  BY <1>2, <1>3
<1>5. rules[first].name = n /\ rules[first].type = Undefined
  <2>1. first \in RuleIds /\ rules[first].name \in {0, n} /\ Cmp(first, q0) <= 0
    BY <1>1, <1>2, <1>4, MatchRanks DEF NoName
  <2> QED BY <1>1, <2>1, CmpBelowUntyped
<1>6. first \in RuleIds /\ first # Null
  BY <1>1, <1>4, NullAssumption
<1>7. GetOverride(n, t) = [rc |-> 0, rule |-> first]
  BY <1>1, <1>2, <1>5 DEF GetOverride, NoDevice, Undefined
<1> QED BY <1>5, <1>6, <1>7

\* NamedRuleWins follows from the types alone: it is a fact of the
\* facemgr_cfg_rule_cmp() order, not of the order of the calls
LEMMA TypeNamedRuleWins == TypeOK => NamedRuleWins
BY UntypedNamedFirst DEF NamedRuleWins

\* In every reachable configuration, a device whose interface a rule of the
\* set names with no type gets that rule's override, without error, from
\* facemgr_cfg_get_override() and every facemgr_cfg_get_ query built on
\* it: facemgr_cfg_rule_cmp() sorts NULL names after named ones and type 0
\* first, so neither a wildcard nor a typed rule can shadow it
THEOREM NamedRuleWinsSafety == Spec => []NamedRuleWins
<1>1. TypeOK => NamedRuleWins
  BY TypeNamedRuleWins
<1> QED BY <1>1, TypeSafety, PTL

-----------------------------------------------------------------------------
(* The refinement *)

\* facemgr_cfg_create() gives the empty dictionary and an unset global
\* override
LEMMA InitStep == Init => IInv /\ Rules!Init
<1> SUFFICES ASSUME Init PROVE IInv /\ Rules!Init
  OBVIOUS
<1>1. IInv
  BY InitInv DEF Init, IInv, KeysUnique
<1>2. PICK u4 \in Uninit, u6 \in Uninit : global = EmptyOverride(u4, u6)
  BY DEF Init
<1>3. Deref(global) = [face_type |-> Unset, ignore |-> Unset, discovery |-> Unset,
                       ipv4 |-> u4, ipv6 |-> u6, v4 |-> Null, v6 |-> Null]
  BY <1>2 DEF Deref, EmptyOverride
<1>4. RuleTable = [k \in Rules!Keys |-> Null]
  BY DEF Init, RuleTable, Rules!Keys, Rules!NoName, NoName
<1> QED BY <1>1, <1>3, <1>4 DEF Rules!Init

\* every step of the configuration keeps the invariant and is a step of
\* the dictionary or a stutter
LEMMA NextStep == IInv /\ [Next]_vars => IInv' /\ [Rules!Next]_Rules!avars
<1> SUFFICES ASSUME IInv, [Next]_vars PROVE IInv' /\ [Rules!Next]_Rules!avars
  OBVIOUS
<1>1. Inv'
  BY NextInv DEF IInv
<1>2. KeysUnique' /\ [Rules!Next]_Rules!avars
  <2>1. CASE \E r \in RuleIds : RuleCreate(r) \/ RuleFree(r) \/ AddRule(r) \/ DelRule(r)
    BY <2>1, RuleCreateStep, RuleFreeStep, AddRuleStep, DelRuleStep
  <2>2. CASE \E r \in RuleIds, n \in {NoName} \cup IfNames, t \in NetTypes :
               RuleSetMatch(r, n, t)
    BY <2>2, RuleSetMatchStep
  <2>3. CASE \E r \in RuleIds, f \in Fields : \E v \in {Unset} \cup FieldValues(f) :
               RuleSetOverride(r, f, v)
    BY <2>3, RuleSetOverrideStep
  <2>4. CASE \E f \in Fields : \E v \in {Unset} \cup FieldValues(f) : CfgSetOverride(f, v)
    BY <2>4, CfgSetOverrideStep
  <2>5. CASE \E fam \in Families, o \in OverlayIds, a \in OverlayArgs :
               \/ \E r \in RuleIds : RuleSetOverlay(r, fam, o, a[1], a[2], a[3], a[4])
               \/ CfgSetOverlay(fam, o, a[1], a[2], a[3], a[4])
    BY <2>5, RuleSetOverlayStep, CfgSetOverlayStep
  <2>6. CASE \E fam \in Families \cup {"unspec"} :
               \/ \E r \in RuleIds : RuleUnsetOverlay(r, fam)
               \/ CfgUnsetOverlay(fam)
    BY <2>6, RuleUnsetOverlayStep, CfgUnsetOverlayStep
  <2>7. CASE UNCHANGED vars
    <3>1. KeysUnique'
      BY <2>7 DEF IInv, KeysUnique, Key, vars
    <3>2. UNCHANGED Rules!avars
      BY <2>7 DEF vars, Rules!avars, RuleTable, Deref, Key
    <3> QED BY <3>1, <3>2
  <2> QED BY <2>1, <2>2, <2>3, <2>4, <2>5, <2>6, <2>7 DEF Next
<1> QED BY <1>1, <1>2 DEF IInv

\* Every behaviour of the configuration of cfg.c (rule and overlay
\* allocation, the per-rule and global setters, add_rule and del_rule on
\* the sorted rule set) is, read through the rule set's keys and the
\* overlay pointers, a behaviour of the dictionary of FacemgrRules: a
\* call adds, edits or removes one key's override or changes the global
\* face type, discovery or overlays, and never anything else
THEOREM Refinement == Spec => RulesSpec
<1>1. Init => IInv /\ Rules!Init
  BY InitStep
<1>2. IInv /\ [Next]_vars => IInv' /\ [Rules!Next]_Rules!avars
  BY NextStep
<1> QED BY <1>1, <1>2, PTL DEF Spec, RulesSpec, Rules!Spec

=============================================================================
