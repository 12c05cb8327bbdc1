----------------------- MODULE ConnectionTableProofs -----------------------
(***************************************************************************)
(* Type correctness of the hicn-light connection table model, for every   *)
(* set of slots, pairs and names and every max_size.                      *)
(***************************************************************************)
EXTENDS ConnectionTable, TLAPS

\* _connection_table_create() starts well typed
LEMMA InitTypeOK == Init => TypeOK
BY DEF Init, TypeOK

\* allocation, removal and each iteration of get_random_name() keep the
\* pool's entries records of a pair and a name, and the drawn name a
\* "conn<byte>" name
LEMMA NextTypeOK == TypeOK /\ [Next]_tvars => TypeOK'
<1> SUFFICES ASSUME TypeOK, [Next]_tvars PROVE TypeOK'
  OBVIOUS
<1>1. CASE DropName
  BY <1>1 DEF DropName, TypeOK
<1>2. CASE \E id \in Ids, p \in Pairs, n \in Names : Allocate(id, p, n)
  BY <1>2 DEF Allocate, TypeOK
<1>3. CASE \E id \in Ids : RemoveById(id)
  BY <1>3 DEF RemoveById, TypeOK
<1>4. CASE GetRandomName
  BY <1>4 DEF GetRandomName, TypeOK
<1>5. CASE \E b \in RandomName : Draw(b)
  BY <1>5 DEF Draw, TypeOK, RandomName
<1>6. CASE UNCHANGED tvars
  BY <1>6 DEF tvars, TypeOK
<1> QED BY <1>1, <1>2, <1>3, <1>4, <1>5, <1>6 DEF Next

\* Every reachable state of the table is well typed: a slot holds a
\* connection with an address pair and a name, or is free, and
\* connection_table_get_random_name() only ever returns a "conn<byte>" name
THEOREM TypeSafety == Spec => []TypeOK
<1>1. Init => TypeOK
  BY InitTypeOK
<1>2. TypeOK /\ [Next]_tvars => TypeOK'
  BY NextTypeOK
<1> QED BY <1>1, <1>2, PTL DEF Spec

=============================================================================
