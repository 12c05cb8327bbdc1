--------------------------- MODULE ConnectionTable ---------------------------
(***************************************************************************)
(* The connection table of hicn-light,                                     *)
(* src/hicn-light/src/hicn/core/connection_table.c: a pool of connections  *)
(* indexed by address pair (id_by_pair) and by symbolic name (id_by_name).*)
(*                                                                         *)
(* The pool and its two indices are one function from pool slots to the  *)
(* pair and name of the connection held, or Free.  Allocation and release *)
(* (connection_table_allocate / _deallocate, macros of connection_table.h,*)
(* which is not in the tree) are modelled as the environment that keeps   *)
(* both indices in step with the pool.                                     *)
(*                                                                         *)
(* connection_table_get_random_name() loops over rand() until the name    *)
(* "conn<byte>" is not a key of id_by_name; one iteration is one step, and *)
(* nothing else runs on the forwarder's loop meanwhile.  Auto names are   *)
(* the bytes NameBytes; a user may name a connection with one of them.   *)
(***************************************************************************)
EXTENDS Naturals, FiniteSets

CONSTANTS
    Ids,        \* pool slots (connection ids)
    Pairs,      \* address pairs (local, remote)
    NameBytes,  \* 0 .. 255: the values of RANDBYTE(), "conn<byte>" the names
    UserNames,  \* other symbolic names
    MaxSize,    \* table->max_size
    Free        \* a pool slot holding no connection

ASSUME TableAssumption ==
    /\ MaxSize \in Nat
    /\ NameBytes \subseteq Nat /\ NameBytes # {}
    /\ NameBytes \cap UserNames = {}

Names == NameBytes \cup UserNames

VARIABLES
    table,      \* pool slot -> [pair, name], or Free
    namer,      \* get_random_name(): "idle", "loop", or "done" with its result
    drawn       \* the name get_random_name() returned

tvars == <<table, namer, drawn>>

Live == {id \in Ids : table[id] # Free}

\* the keys of id_by_name and id_by_pair
NamesInUse == {table[id].name : id \in Live}
PairsInUse == {table[id].pair : id \in Live}

\* mutant of RandomName: the & 0xFF is lost, the draw ranges over 9 bits
RandomNameUnmasked == 0 .. (2 * Cardinality(NameBytes) - 1)

\* the names the loop can draw: "conn%u" of RANDBYTE(), rand() & 0xFF
RandomName == NameBytes

-----------------------------------------------------------------------------
(* Lookups *)

NoConn == Free  \* NULL, and CONNECTION_ID_UNDEFINED

\* connection_table_get_by_pair(): the id_by_pair entry, or NULL
GetByPair(p) ==
    IF \E id \in Live : table[id].pair = p
    THEN CHOOSE id \in Live : table[id].pair = p
    ELSE NoConn

\* connection_table_get_id_by_name() / connection_table_get_by_name()
GetIdByName(n) ==
    IF \E id \in Live : table[id].name = n
    THEN CHOOSE id \in Live : table[id].name = n
    ELSE NoConn

GetByName(n) == GetIdByName(n)

-----------------------------------------------------------------------------

\* _connection_table_create(): an empty pool and empty indices
Init ==
    /\ table = [id \in Ids |-> Free]
    /\ namer = "idle"
    /\ drawn = Free

\* connection_table_allocate() by a listener or a command, under a name of
\* its own or the one get_random_name() returned; the pool holds at most
\* max_size connections, and a pair or a name is a key of its index once
Allocate(id, p, n) ==
    /\ namer \in {"idle", "done"}
    /\ table[id] = Free
    /\ Cardinality(Live) < MaxSize
    /\ p \notin PairsInUse
    /\ n \notin NamesInUse
    /\ namer = "done" => n = drawn
    /\ table' = [table EXCEPT ![id] = [pair |-> p, name |-> n]]
    /\ namer' = "idle"
    /\ drawn' = Free

\* connection_table_remove_by_id(): connection_table_deallocate()
RemoveById(id) ==
    /\ namer = "idle"
    /\ id \in Live
    /\ table' = [table EXCEPT ![id] = Free]
    /\ UNCHANGED <<namer, drawn>>

\* connection_table_get_random_name() is called
GetRandomName ==
    /\ namer = "idle"
    /\ namer' = "loop"
    /\ UNCHANGED <<table, drawn>>

\* one iteration of its while (1): break when no connection has the name
Draw(b) ==
    /\ namer = "loop"
    /\ IF b \in NamesInUse
       THEN UNCHANGED <<namer, drawn>>
       ELSE /\ namer' = "done"
            /\ drawn' = b
    /\ UNCHANGED table

\* the caller gives the returned name back (free()) without allocating,
\* as when the table is full
DropName ==
    /\ namer = "done"
    /\ namer' = "idle"
    /\ drawn' = Free
    /\ UNCHANGED table

Next ==
    \/ DropName
    \/ \E id \in Ids, p \in Pairs, n \in Names : Allocate(id, p, n)
    \/ \E id \in Ids : RemoveById(id)
    \/ GetRandomName
    \/ \E b \in RandomName : Draw(b)

\* rand() yields every low byte over its period: a value that can be drawn
\* on every iteration is drawn eventually
Fairness == \A b \in RandomName : WF_tvars(Draw(b))

Spec == Init /\ [][Next]_tvars /\ Fairness

-----------------------------------------------------------------------------
(* Properties *)

\* Type correctness; get_random_name() returns one of the "conn<byte>" names
TypeOK ==
    /\ table \in [Ids -> [pair : Pairs, name : Names] \cup {Free}]
    /\ namer \in {"idle", "loop", "done"}
    /\ drawn \in NameBytes \cup {Free}

\* get_random_name() returns: whenever the forwarder enters the while (1)
\* loop, it eventually draws a name no connection holds and leaves it (the
\* comment of the loop: "Return if connection name does not already exist").
\* Nothing bounds max_size below the 256 "conn<byte>" names, and a user may
\* also take one of them, so every one of them may be held.
RandomNameReturns == namer = "loop" ~> namer = "done"

=============================================================================
