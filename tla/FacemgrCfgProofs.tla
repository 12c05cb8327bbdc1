-------------------------- MODULE FacemgrCfgProofs --------------------------
(***************************************************************************)
(* Proofs about the facemgr configuration model FacemgrCfg, for every      *)
(* value of the constants that satisfies CfgAssumption.                    *)
(***************************************************************************)
EXTENDS FacemgrCfg, TLAPS

USE CfgAssumption

\* the invariant the proofs carry: types and overlay ownership
Inv == TypeOK /\ OverlayOwnership

-----------------------------------------------------------------------------
(* Lemmas about the helpers *)

\* a fresh overlay has the type of the heap cells
LEMMA NewOverlayType ==
    ASSUME NEW a \in OverlayArgs
    PROVE  NewOverlay(a[1], a[2], a[3], a[4]) \in
              [local_addr : {Unset} \cup Addrs, local_port : {Unset} \cup ValidPorts,
               remote_addr : {Unset} \cup Addrs, remote_port : {Unset} \cup ValidPorts]
BY DEF NewOverlay, ValidPorts

\* overlay_initialize() gives the type of the heap cells
LEMMA EmptyOverlayType ==
    EmptyOverlay \in
        [local_addr : {Unset} \cup Addrs, local_port : {Unset} \cup ValidPorts,
         remote_addr : {Unset} \cup Addrs, remote_port : {Unset} \cup ValidPorts]
BY DEF EmptyOverlay, OverlayFields

\* an initialised override points to no overlay
LEMMA EmptyOverrideType ==
    ASSUME NEW u4 \in Uninit, NEW u6 \in Uninit
    PROVE  /\ EmptyOverride(u4, u6) \in OverrideType
           /\ Refs(EmptyOverride(u4, u6)) = {}
BY DEF EmptyOverride, OverrideType, Refs

\* replacing the overlay pointers of an override keeps its type
LEMMA PointersType ==
    ASSUME NEW ov \in OverrideType, NEW a \in {Null} \cup OverlayIds,
           NEW b \in {Null} \cup OverlayIds
    PROVE  [ov EXCEPT !.v4 = a, !.v6 = b] \in OverrideType
BY DEF OverrideType

\* the pointers unset_overlay() frees for each family
LEMMA DroppedValue ==
    ASSUME NEW ov
    PROVE  /\ Dropped(ov, "inet") = {ov.v4} \ {Null}
           /\ Dropped(ov, "inet6") = {ov.v6} \ {Null}
           /\ Dropped(ov, "unspec") = {ov.v4, ov.v6} \ {Null}
<1>1. {g \in {"inet", "inet6"} : "inet" \in {g, "unspec"}} = {"inet"}
  OBVIOUS
<1>2. {g \in {"inet", "inet6"} : "inet6" \in {g, "unspec"}} = {"inet6"}
  OBVIOUS
<1>3. {g \in {"inet", "inet6"} : "unspec" \in {g, "unspec"}} = {"inet", "inet6"}
  OBVIOUS
<1> QED BY <1>1, <1>2, <1>3 DEF Dropped, Slot

\* unset_overlay() NULLs exactly the pointers it frees, and keeps the type
LEMMA ClearedEffect ==
    ASSUME NEW ov \in OverrideType, NEW fam \in {"inet", "inet6", "unspec"},
           ov.v4 = ov.v6 => ov.v4 = Null
    PROVE  /\ Cleared(ov, fam) \in OverrideType
           /\ Refs(Cleared(ov, fam)) = Refs(ov) \ Dropped(ov, fam)
           /\ Dropped(ov, fam) \subseteq Refs(ov)
           /\ Cleared(ov, fam).v4 = Cleared(ov, fam).v6 => Cleared(ov, fam).v4 = Null
<1>1. Cleared(ov, fam) \in OverrideType
  <2>1. /\ (IF fam \in {"inet", "unspec"} THEN Null ELSE ov.v4) \in {Null} \cup OverlayIds
        /\ (IF fam \in {"inet6", "unspec"} THEN Null ELSE ov.v6) \in {Null} \cup OverlayIds
    BY DEF OverrideType
  <2> QED BY <2>1, PointersType DEF Cleared
<1>2. CASE fam = "inet"
  BY <1>1, <1>2, DroppedValue DEF Cleared, Refs, OverrideType
<1>3. CASE fam = "inet6"
  BY <1>1, <1>3, DroppedValue DEF Cleared, Refs, OverrideType
<1>4. CASE fam = "unspec"
  BY <1>1, <1>4, DroppedValue DEF Cleared, Refs, OverrideType
<1> QED BY <1>2, <1>3, <1>4

\* set_overlay() stores a fresh pointer in one slot, and keeps the type
LEMMA PointEffect ==
    ASSUME NEW ov \in OverrideType, NEW fam \in Families, NEW o \in OverlayIds
    PROVE  /\ [ov EXCEPT ![Slot(fam)] = o] \in OverrideType
           /\ Refs([ov EXCEPT ![Slot(fam)] = o]) \subseteq Refs(ov) \cup {o}
           /\ LET nv == [ov EXCEPT ![Slot(fam)] = o]
              IN  nv.v4 = nv.v6 => (ov.v4 = o \/ ov.v6 = o)
BY DEF Slot, Families, Refs, OverrideType

-----------------------------------------------------------------------------
(* The initial state *)

LEMMA InitInv == Init => Inv
<1> SUFFICES ASSUME Init PROVE Inv
  OBVIOUS
<1>1. PICK u4 \in Uninit, u6 \in Uninit : global = EmptyOverride(u4, u6)
  BY DEF Init
<1>2. Unset \in Uninit => EmptyRule(Unset, Unset) \in
        [name : {NoName} \cup IfNames, type : NetTypes, ov : OverrideType]
  BY EmptyOverrideType DEF EmptyRule
<1>3. TypeOK
  BY <1>1, EmptyOverrideType, EmptyOverlayType DEF Init, TypeOK, EmptyRule, EmptyOverride, OverrideType
<1>4. OverlayOwnership
  BY <1>1 DEF Init, OverlayOwnership, Targets, OverrideOf, EmptyOverride, Refs
<1> QED BY <1>3, <1>4 DEF Inv

-----------------------------------------------------------------------------
(* Ownership across a step *)

\* the overlay pointers of a target
Ptrs(t) == <<OverrideOf(t).v4, OverrideOf(t).v6>>

\* a step that changes the pointers of one target x at most, frees only
\* overlays x pointed to and allocates only cells that were free, keeps
\* every overlay owned by exactly one target
LEMMA OwnershipOneTarget ==
    ASSUME TypeOK, OverlayOwnership, TypeOK',
           NEW x \in Targets, Targets' = Targets,
           \A t \in Targets \ {x} : Ptrs(t)' = Ptrs(t),
           NEW Gone, NEW New,
           ovLive' = (ovLive \ Gone) \cup New,
           New \cap ovLive = {}, Gone \subseteq Refs(OverrideOf(x)),
           Refs(OverrideOf(x))' \subseteq (Refs(OverrideOf(x)) \ Gone) \cup New,
           OverrideOf(x)'.v4 = OverrideOf(x)'.v6 => OverrideOf(x)'.v4 = Null
    PROVE  OverlayOwnership'
<1>1. \A t \in Targets \ {x} : Refs(OverrideOf(t))' = Refs(OverrideOf(t))
  BY DEF Ptrs, Refs
<1>2. \A t \in Targets \ {x} : Refs(OverrideOf(t)) \cap Gone = {}
  BY DEF OverlayOwnership
<1>3. \A t \in Targets' : Refs(OverrideOf(t))' \subseteq ovLive'
  BY <1>1, <1>2 DEF OverlayOwnership
<1>4. \A t \in Targets' : OverrideOf(t)'.v4 = OverrideOf(t)'.v6 => OverrideOf(t)'.v4 = Null
  BY DEF Ptrs, OverlayOwnership
<1>5. \A t \in Targets \ {x} : Refs(OverrideOf(t)) \subseteq ovLive
  BY DEF OverlayOwnership
<1>6. \A t1, t2 \in Targets' : t1 # t2 =>
         Refs(OverrideOf(t1))' \cap Refs(OverrideOf(t2))' = {}
  BY <1>1, <1>5 DEF OverlayOwnership
<1> QED BY <1>3, <1>4, <1>6 DEF OverlayOwnership

\* the type of a rule cell
RuleType == [name : {NoName} \cup IfNames, type : NetTypes, ov : OverrideType]

\* an initialised rule points to no overlay
LEMMA EmptyRuleType ==
    ASSUME NEW u4 \in Uninit, NEW u6 \in Uninit
    PROVE  /\ EmptyRule(u4, u6) \in RuleType
           /\ Refs(EmptyRule(u4, u6).ov) = {}
BY EmptyOverrideType DEF EmptyRule, RuleType

\* setting or unsetting a field keeps the type and the overlay pointers
LEMMA SetFieldEffect ==
    ASSUME NEW ov \in OverrideType, NEW f \in Fields, NEW v \in {Unset} \cup FieldValues(f)
    PROVE  /\ [ov EXCEPT ![f] = v] \in OverrideType
           /\ [ov EXCEPT ![f] = v].v4 = ov.v4
           /\ [ov EXCEPT ![f] = v].v6 = ov.v6
<1>1. f \in OverrideFields
  OBVIOUS
<1>2. CASE f = "face_type"
  BY <1>2 DEF OverrideType, FieldValues
<1>3. CASE f # "face_type"
  BY <1>1, <1>3 DEF OverrideType, FieldValues, OverrideFields
<1> QED BY <1>2, <1>3

\* writing a rule's override changes that rule only and keeps the type
LEMMA RuleOvUpdate ==
    ASSUME NEW rs \in [RuleIds -> RuleType], NEW r \in RuleIds, NEW ov \in OverrideType
    PROVE  /\ [rs EXCEPT ![r].ov = ov] \in [RuleIds -> RuleType]
           /\ [rs EXCEPT ![r].ov = ov][r].ov = ov
           /\ \A q \in RuleIds \ {r} : [rs EXCEPT ![r].ov = ov][q] = rs[q]
BY DEF RuleType

\* a step that moves no pointer, allocates and frees nothing, and keeps
\* the targets keeps overlay ownership
LEMMA OwnershipSamePtrs ==
    ASSUME OverlayOwnership, Targets' = Targets, ovLive' = ovLive,
           \A t \in Targets : Ptrs(t)' = Ptrs(t)
    PROVE  OverlayOwnership'
<1>1. \A t \in Targets : Refs(OverrideOf(t))' = Refs(OverrideOf(t))
  BY DEF Ptrs, Refs
<1> QED BY <1>1 DEF OverlayOwnership, Ptrs

-----------------------------------------------------------------------------
(* Each call preserves the invariant *)

LEMMA RuleCreateInv ==
    ASSUME Inv, NEW r \in RuleIds, RuleCreate(r)
    PROVE  Inv'
<1>1. PICK u4 \in Uninit, u6 \in Uninit : rules' = [rules EXCEPT ![r] = EmptyRule(u4, u6)]
  BY DEF RuleCreate
<1>2. TypeOK'
  BY <1>1, EmptyRuleType DEF RuleCreate, Inv, TypeOK, RuleType
<1>3. Targets' = Targets \cup {r} /\ r \notin Targets
  BY DEF RuleCreate, Targets, Inv, TypeOK
<1>4. Refs(OverrideOf(r))' = {} /\ OverrideOf(r)'.v4 = Null /\ OverrideOf(r)'.v6 = Null
  BY <1>1, EmptyRuleType DEF OverrideOf, EmptyRule, EmptyOverride, Refs, Inv, TypeOK
<1>5. \A t \in Targets : OverrideOf(t)' = OverrideOf(t)
  BY <1>1, <1>3 DEF RuleCreate, OverrideOf, Targets
<1>6. OverlayOwnership'
  BY <1>3, <1>4, <1>5 DEF RuleCreate, OverlayOwnership, Inv
<1> QED BY <1>2, <1>6 DEF Inv

LEMMA RuleFreeInv ==
    ASSUME Inv, NEW r \in RuleIds, RuleFree(r)
    PROVE  Inv'
<1>1. rules[r].ov \in OverrideType /\ r \in Targets
  BY DEF RuleFree, Inv, TypeOK, Targets
<1>2. rules[r].ov.v4 = rules[r].ov.v6 => rules[r].ov.v4 = Null
  BY <1>1 DEF Inv, OverlayOwnership, OverrideOf
<1>3. Cleared(rules[r].ov, "unspec") \in OverrideType
  BY <1>1, <1>2, ClearedEffect
<1>4. TypeOK'
  BY <1>3 DEF RuleFree, Inv, TypeOK
<1>5. Targets' = Targets \ {r}
  BY DEF RuleFree, Targets
<1>6. \A t \in Targets' : OverrideOf(t)' = OverrideOf(t)
  BY <1>5 DEF RuleFree, OverrideOf, Targets
<1>7. \A t \in Targets' : Refs(OverrideOf(t)) \cap Refs(OverrideOf(r)) = {}
  BY <1>1, <1>5 DEF Inv, OverlayOwnership
<1>8. \A t \in Targets' : Refs(OverrideOf(t))' = Refs(OverrideOf(t))
  BY <1>6 DEF Refs
<1>9. ovLive' = ovLive \ Refs(OverrideOf(r))
  BY <1>1 DEF RuleFree, OverrideOf, Inv, TypeOK
<1>10. \A t \in Targets' : Refs(OverrideOf(t))' \subseteq ovLive'
  BY <1>5, <1>7, <1>8, <1>9 DEF Inv, OverlayOwnership
<1>11. \A t \in Targets' : OverrideOf(t)'.v4 = OverrideOf(t)'.v6 => OverrideOf(t)'.v4 = Null
  BY <1>5, <1>6 DEF Inv, OverlayOwnership
<1>12. \A t1, t2 \in Targets' : t1 # t2 =>
          Refs(OverrideOf(t1))' \cap Refs(OverrideOf(t2))' = {}
  BY <1>5, <1>8 DEF Inv, OverlayOwnership
<1> QED BY <1>4, <1>10, <1>11, <1>12 DEF Inv, OverlayOwnership

LEMMA RuleSetMatchInv ==
    ASSUME Inv, NEW r \in RuleIds, NEW n \in {NoName} \cup IfNames, NEW tp \in NetTypes,
           RuleSetMatch(r, n, tp)
    PROVE  Inv'
<1>1. rules \in [RuleIds -> RuleType]
  BY DEF Inv, TypeOK, RuleType
<1>2. [rules[r] EXCEPT !.name = n, !.type = tp] \in RuleType
  BY <1>1 DEF RuleType
<1>3. rules' = [rules EXCEPT ![r] = [rules[r] EXCEPT !.name = n, !.type = tp]]
  BY DEF RuleSetMatch
<1>4. TypeOK'
  BY <1>1, <1>2, <1>3 DEF RuleSetMatch, Inv, TypeOK, RuleType
<1>5. \A t \in Targets : Ptrs(t)' = Ptrs(t)
  BY <1>1, <1>3 DEF RuleSetMatch, Ptrs, OverrideOf, Targets, Inv, TypeOK
<1>6. OverlayOwnership'
  BY <1>5, OwnershipSamePtrs DEF RuleSetMatch, Inv, Targets
<1> QED BY <1>4, <1>6 DEF Inv

LEMMA RuleSetOverrideInv ==
    ASSUME Inv, NEW r \in RuleIds, NEW f \in Fields, NEW v \in {Unset} \cup FieldValues(f),
           RuleSetOverride(r, f, v)
    PROVE  Inv'
<1>1. rules \in [RuleIds -> RuleType] /\ rules[r].ov \in OverrideType
  BY DEF Inv, TypeOK, RuleType
<1> DEFINE nov == [rules[r].ov EXCEPT ![f] = v]
<1>2. nov \in OverrideType /\ nov.v4 = rules[r].ov.v4 /\ nov.v6 = rules[r].ov.v6
  BY <1>1, SetFieldEffect
<1>3. rules' = [rules EXCEPT ![r].ov = nov]
  BY DEF RuleSetOverride
<1>4. /\ rules' \in [RuleIds -> RuleType]
      /\ rules'[r].ov = nov
      /\ \A q \in RuleIds \ {r} : rules'[q] = rules[q]
  BY <1>1, <1>2, <1>3, RuleOvUpdate
<1>5. TypeOK'
  BY <1>4 DEF RuleSetOverride, Inv, TypeOK, RuleType
<1>6. \A t \in Targets : Ptrs(t)' = Ptrs(t)
  BY <1>2, <1>4 DEF RuleSetOverride, Ptrs, OverrideOf, Targets, Inv, TypeOK
<1>7. OverlayOwnership'
  BY <1>6, OwnershipSamePtrs DEF RuleSetOverride, Inv, Targets
<1> QED BY <1>5, <1>7 DEF Inv

LEMMA CfgSetOverrideInv ==
    ASSUME Inv, NEW f \in Fields, NEW v \in {Unset} \cup FieldValues(f),
           CfgSetOverride(f, v)
    PROVE  Inv'
<1>1. global \in OverrideType
  BY DEF Inv, TypeOK
<1>2. /\ [global EXCEPT ![f] = v] \in OverrideType
      /\ [global EXCEPT ![f] = v].v4 = global.v4
      /\ [global EXCEPT ![f] = v].v6 = global.v6
  BY <1>1, SetFieldEffect
<1>3. TypeOK'
  BY <1>2 DEF CfgSetOverride, Inv, TypeOK
<1>4. \A t \in Targets : Ptrs(t)' = Ptrs(t)
  BY <1>2 DEF CfgSetOverride, Ptrs, OverrideOf, Targets
<1>5. OverlayOwnership'
  BY <1>4, OwnershipSamePtrs DEF CfgSetOverride, Inv, Targets
<1> QED BY <1>3, <1>5 DEF Inv

LEMMA AddRuleInv ==
    ASSUME Inv, NEW r \in RuleIds, AddRule(r)
    PROVE  Inv'
<1>1. TypeOK'
  BY DEF AddRule, Inv, TypeOK
<1>2. OverlayOwnership'
  BY OwnershipSamePtrs DEF AddRule, Inv, Targets, Ptrs, OverrideOf
<1> QED BY <1>1, <1>2 DEF Inv

LEMMA DelRuleInv ==
    ASSUME Inv, NEW r \in RuleIds, DelRule(r)
    PROVE  Inv'
<1>1. TypeOK'
  BY DEF DelRule, Inv, TypeOK
<1>2. OverlayOwnership'
  BY OwnershipSamePtrs DEF DelRule, Inv, Targets, Ptrs, OverrideOf
<1> QED BY <1>1, <1>2 DEF Inv

LEMMA RuleSetOverlayInv ==
    ASSUME Inv, NEW r \in RuleIds, NEW fam \in Families, NEW o \in OverlayIds,
           NEW a \in OverlayArgs, RuleSetOverlay(r, fam, o, a[1], a[2], a[3], a[4])
    PROVE  Inv'
<1>1. /\ rules \in [RuleIds -> RuleType]
      /\ rules[r].ov \in OverrideType
      /\ r \in Targets
  BY DEF RuleSetOverlay, Inv, TypeOK, RuleType, Targets
<1> DEFINE old == rules[r].ov
           nov == [old EXCEPT ![Slot(fam)] = o]
<1>2. /\ nov \in OverrideType
      /\ Refs(nov) \subseteq Refs(old) \cup {o}
      /\ nov.v4 = nov.v6 => (old.v4 = o \/ old.v6 = o)
  BY <1>1, PointEffect
<1>3. rules' = [rules EXCEPT ![r].ov = nov]
  BY DEF RuleSetOverlay
<1>4. /\ rules' \in [RuleIds -> RuleType]
      /\ rules'[r].ov = nov
      /\ \A q \in RuleIds \ {r} : rules'[q] = rules[q]
  BY <1>1, <1>2, <1>3, RuleOvUpdate
<1>5. TypeOK'
  BY <1>4, NewOverlayType DEF RuleSetOverlay, SetOverlay, Inv, TypeOK, RuleType
<1>6. o \notin ovLive /\ ovLive' = (ovLive \ {}) \cup {o}
  BY DEF RuleSetOverlay, SetOverlay
<1>7. Targets' = Targets
  BY DEF RuleSetOverlay, Targets
<1>8. \A t \in Targets \ {r} : Ptrs(t)' = Ptrs(t)
  BY <1>4 DEF RuleSetOverlay, Targets, Ptrs, OverrideOf, Inv, TypeOK
<1>9. OverrideOf(r)' = nov /\ OverrideOf(r) = old
  BY <1>4, CfgAssumption DEF OverrideOf
<1>10. o \notin Refs(old) /\ o # Null
  BY <1>1, <1>6, CfgAssumption DEF Inv, OverlayOwnership, OverrideOf
<1>11. OverrideOf(r)'.v4 = OverrideOf(r)'.v6 => OverrideOf(r)'.v4 = Null
  BY <1>2, <1>9, <1>10 DEF Refs
<1>12. {} \subseteq Refs(OverrideOf(r)) /\ {o} \cap ovLive = {}
  BY <1>6
<1>13. Refs(OverrideOf(r))' \subseteq (Refs(OverrideOf(r)) \ {}) \cup {o}
  BY <1>2, <1>9
<1>14. OverlayOwnership'
  BY <1>1, <1>5, <1>6, <1>7, <1>8, <1>11, <1>12, <1>13, OwnershipOneTarget DEF Inv
<1> QED BY <1>5, <1>14 DEF Inv

LEMMA CfgSetOverlayInv ==
    ASSUME Inv, NEW fam \in Families, NEW o \in OverlayIds,
           NEW a \in OverlayArgs, CfgSetOverlay(fam, o, a[1], a[2], a[3], a[4])
    PROVE  Inv'
<1>1. global \in OverrideType /\ "global" \in Targets
  BY DEF Inv, TypeOK, Targets
<1> DEFINE nov == [global EXCEPT ![Slot(fam)] = o]
<1>2. /\ nov \in OverrideType
      /\ Refs(nov) \subseteq Refs(global) \cup {o}
      /\ nov.v4 = nov.v6 => (global.v4 = o \/ global.v6 = o)
  BY <1>1, PointEffect
<1>5. TypeOK'
  BY <1>2, NewOverlayType DEF CfgSetOverlay, SetOverlay, Inv, TypeOK
<1>6. o \notin ovLive /\ ovLive' = (ovLive \ {}) \cup {o}
  BY DEF CfgSetOverlay, SetOverlay
<1>7. Targets' = Targets
  BY DEF CfgSetOverlay, Targets
<1>8. \A t \in Targets \ {"global"} : Ptrs(t)' = Ptrs(t)
  BY DEF CfgSetOverlay, Targets, Ptrs, OverrideOf
<1>9. OverrideOf("global")' = nov /\ OverrideOf("global") = global
  BY DEF CfgSetOverlay, OverrideOf
<1>10. o \notin Refs(global) /\ o # Null
  BY <1>1, <1>6, CfgAssumption DEF Inv, OverlayOwnership, OverrideOf
<1>11. OverrideOf("global")'.v4 = OverrideOf("global")'.v6 => OverrideOf("global")'.v4 = Null
  BY <1>2, <1>9, <1>10 DEF Refs
<1>12. {} \subseteq Refs(OverrideOf("global")) /\ {o} \cap ovLive = {}
  BY <1>6
<1>13. Refs(OverrideOf("global"))' \subseteq (Refs(OverrideOf("global")) \ {}) \cup {o}
  BY <1>2, <1>9
<1>14. OverlayOwnership'
  BY <1>1, <1>5, <1>6, <1>7, <1>8, <1>11, <1>12, <1>13, OwnershipOneTarget DEF Inv
<1> QED BY <1>5, <1>14 DEF Inv

LEMMA RuleUnsetOverlayInv ==
    ASSUME Inv, NEW r \in RuleIds, NEW fam \in Families \cup {"unspec"},
           RuleUnsetOverlay(r, fam)
    PROVE  Inv'
<1>1. /\ rules \in [RuleIds -> RuleType]
      /\ rules[r].ov \in OverrideType
      /\ r \in Targets
  BY DEF RuleUnsetOverlay, Inv, TypeOK, RuleType, Targets
<1> DEFINE old == rules[r].ov
           nov == Cleared(old, fam)
<1>2. old.v4 = old.v6 => old.v4 = Null
  BY <1>1 DEF Inv, OverlayOwnership, OverrideOf
<1>3. /\ nov \in OverrideType
      /\ Refs(nov) = Refs(old) \ Dropped(old, fam)
      /\ Dropped(old, fam) \subseteq Refs(old)
      /\ nov.v4 = nov.v6 => nov.v4 = Null
  BY <1>1, <1>2, ClearedEffect DEF Families
<1>4. rules' = [rules EXCEPT ![r].ov = nov]
  BY DEF RuleUnsetOverlay
<1>5. /\ rules' \in [RuleIds -> RuleType]
      /\ rules'[r].ov = nov
      /\ \A q \in RuleIds \ {r} : rules'[q] = rules[q]
  BY <1>1, <1>3, <1>4, RuleOvUpdate
<1>6. TypeOK'
  BY <1>5 DEF RuleUnsetOverlay, Inv, TypeOK, RuleType
<1>7. ovLive' = (ovLive \ Dropped(old, fam)) \cup {} /\ {} \cap ovLive = {}
  BY DEF RuleUnsetOverlay
<1>8. Targets' = Targets
  BY DEF RuleUnsetOverlay, Targets
<1>9. \A t \in Targets \ {r} : Ptrs(t)' = Ptrs(t)
  BY <1>5 DEF RuleUnsetOverlay, Targets, Ptrs, OverrideOf, Inv, TypeOK
<1>10. OverrideOf(r)' = nov /\ OverrideOf(r) = old
  BY <1>5, CfgAssumption DEF OverrideOf
<1>11. /\ Dropped(old, fam) \subseteq Refs(OverrideOf(r))
       /\ Refs(OverrideOf(r))' \subseteq (Refs(OverrideOf(r)) \ Dropped(old, fam)) \cup {}
       /\ OverrideOf(r)'.v4 = OverrideOf(r)'.v6 => OverrideOf(r)'.v4 = Null
  BY <1>3, <1>10
<1>12. OverlayOwnership'
  BY <1>1, <1>6, <1>7, <1>8, <1>9, <1>11, OwnershipOneTarget DEF Inv
<1> QED BY <1>6, <1>12 DEF Inv

LEMMA CfgUnsetOverlayInv ==
    ASSUME Inv, NEW fam \in Families \cup {"unspec"}, CfgUnsetOverlay(fam)
    PROVE  Inv'
<1>1. global \in OverrideType /\ "global" \in Targets
  BY DEF Inv, TypeOK, Targets
<1>2. global.v4 = global.v6 => global.v4 = Null
  BY <1>1 DEF Inv, OverlayOwnership, OverrideOf
<1>3. /\ Cleared(global, fam) \in OverrideType
      /\ Refs(Cleared(global, fam)) = Refs(global) \ Dropped(global, fam)
      /\ Dropped(global, fam) \subseteq Refs(global)
      /\ Cleared(global, fam).v4 = Cleared(global, fam).v6 => Cleared(global, fam).v4 = Null
  BY <1>1, <1>2, ClearedEffect DEF Families
<1>6. TypeOK'
  BY <1>3 DEF CfgUnsetOverlay, Inv, TypeOK
<1>7. ovLive' = (ovLive \ Dropped(global, fam)) \cup {} /\ {} \cap ovLive = {}
  BY DEF CfgUnsetOverlay
<1>8. Targets' = Targets
  BY DEF CfgUnsetOverlay, Targets
<1>9. \A t \in Targets \ {"global"} : Ptrs(t)' = Ptrs(t)
  BY DEF CfgUnsetOverlay, Targets, Ptrs, OverrideOf
<1>10. OverrideOf("global")' = Cleared(global, fam) /\ OverrideOf("global") = global
  BY DEF CfgUnsetOverlay, OverrideOf
<1>11. /\ Dropped(global, fam) \subseteq Refs(OverrideOf("global"))
       /\ Refs(OverrideOf("global"))' \subseteq
            (Refs(OverrideOf("global")) \ Dropped(global, fam)) \cup {}
       /\ OverrideOf("global")'.v4 = OverrideOf("global")'.v6 => OverrideOf("global")'.v4 = Null
  BY <1>3, <1>10
<1>12. OverlayOwnership'
  BY <1>1, <1>6, <1>7, <1>8, <1>9, <1>11, OwnershipOneTarget DEF Inv
<1> QED BY <1>6, <1>12 DEF Inv

-----------------------------------------------------------------------------
(* The invariant *)

LEMMA NextInv == Inv /\ [Next]_vars => Inv'
<1> SUFFICES ASSUME Inv, [Next]_vars PROVE Inv'
  OBVIOUS
<1>1. CASE \E r \in RuleIds : RuleCreate(r) \/ RuleFree(r) \/ AddRule(r) \/ DelRule(r)
  BY <1>1, RuleCreateInv, RuleFreeInv, AddRuleInv, DelRuleInv
<1>2. CASE \E r \in RuleIds, n \in {NoName} \cup IfNames, t \in NetTypes :
             RuleSetMatch(r, n, t)
  BY <1>2, RuleSetMatchInv
<1>3. CASE \E r \in RuleIds, f \in Fields : \E v \in {Unset} \cup FieldValues(f) :
             RuleSetOverride(r, f, v)
  BY <1>3, RuleSetOverrideInv
<1>4. CASE \E f \in Fields : \E v \in {Unset} \cup FieldValues(f) : CfgSetOverride(f, v)
  BY <1>4, CfgSetOverrideInv
<1>5. CASE \E fam \in Families, o \in OverlayIds, a \in OverlayArgs :
             \/ \E r \in RuleIds : RuleSetOverlay(r, fam, o, a[1], a[2], a[3], a[4])
             \/ CfgSetOverlay(fam, o, a[1], a[2], a[3], a[4])
  BY <1>5, RuleSetOverlayInv, CfgSetOverlayInv
<1>6. CASE \E fam \in Families \cup {"unspec"} :
             \/ \E r \in RuleIds : RuleUnsetOverlay(r, fam)
             \/ CfgUnsetOverlay(fam)
  BY <1>6, RuleUnsetOverlayInv, CfgUnsetOverlayInv
<1>7. CASE UNCHANGED vars
  BY <1>7 DEF vars, Inv, TypeOK, OverlayOwnership, Targets, OverrideOf, Refs
<1> QED BY <1>1, <1>2, <1>3, <1>4, <1>5, <1>6, <1>7 DEF Next

\* Overlay ownership holds in every reachable state of the configuration,
\* for any number of rules, overlays, interfaces and arguments: no
\* facemgr_cfg_get_overlay_*() query reads a freed overlay and no
\* unset_overlay() or rule_free() frees one twice.  The leaked overlays of
\* a second set_overlay() are garbage, never a shared pointer.
THEOREM OwnershipSafety == Spec => []OverlayOwnership
<1>1. Init => Inv
  BY InitInv
<1>2. Inv /\ [Next]_vars => Inv'
  BY NextInv
<1>3. Inv => OverlayOwnership
  BY DEF Inv
<1> QED BY <1>1, <1>2, <1>3, PTL DEF Spec


\* Every reachable configuration is well typed: the calls of cfg.c keep
\* rules, overrides and overlay cells within their field ranges and every
\* pointer within the heap, for every choice of the constants
THEOREM TypeSafety == Spec => []TypeOK
<1>1. Init => Inv
  BY InitInv
<1>2. Inv /\ [Next]_vars => Inv'
  BY NextInv
<1>3. Inv => TypeOK
  BY DEF Inv
<1> QED BY <1>1, <1>2, <1>3, PTL DEF Spec

=============================================================================
