------------------------------ MODULE Universe ------------------------------
(***************************************************************************)
(* The directory of keyspaces (universe/src) and the three readings of a   *)
(* base key range: the oracle's of the coordinator, the warden's and that  *)
(* of the range server.                                                    *)
(*                                                                         *)
(* A keyspace is known by its namespace and name, sequences of letters. A  *)
(* key has a rank in the order of byte strings; bound 0 is the empty byte  *)
(* string, which comes before every key.  The uuids a creation draws are   *)
(* the keyspace itself and its ranges' positions: a row is written once.   *)
(***************************************************************************)
EXTENDS Naturals, Sequences

CONSTANTS Key, Rank,     \* keys and their order
          PublicCloud,   \* the clouds that have a name of their own in the protocol
          Creation,      \* requests to create a keyspace
          None

ASSUME UniverseAssumption == Rank \in [Key -> Nat \ {0}] /\ None \notin Nat

VARIABLES keyspaces,     \* rows of atomix.keyspaces
          acknowledged   \* history: the creation a client was told has succeeded

universeVars == <<keyspaces, acknowledged>>

UniverseInit == keyspaces = << >> /\ acknowledged = << >>

(* A map after an insert                                                   *)
insert(map, k, v) == [x \in DOMAIN map \cup {k} |-> IF x = k THEN v ELSE map[x]]

---------------------------------------------------------------------------
(* KeyRange: a bound is a rank, or None when there is none                 *)

KeyRange(lower, upper) == [lower_bound_inclusive |-> lower, upper_bound_exclusive |-> upper]

includes(range, key) ==
    /\ range.lower_bound_inclusive # None => Rank[key] >= range.lower_bound_inclusive
    /\ range.upper_bound_exclusive # None => Rank[key] < range.upper_bound_exclusive

(* Faulty variant: the upper bound is not looked at.                       *)
fromProtoNoUpper(r) == KeyRange(r.lower, None)

(* The oracle takes both bounds as they come.                              *)
fromProto(r) == KeyRange(r.lower, r.upper)

(* The warden, and from its rows the range server, take an empty bound for *)
(* no bound.                                                               *)
fromEmptyAsUnbounded(r) ==
    KeyRange(IF r.lower = 0 THEN None ELSE r.lower, IF r.upper = 0 THEN None ELSE r.upper)

---------------------------------------------------------------------------
(* The cloud of a region, written to and read from a row by its name       *)

Public(cloud) == [kind |-> "public", name |-> cloud]
Other(name) == [kind |-> "other", name |-> name]

ASSUME CloudAssumption ==
    \A r \in Creation :
       \/ r.cloud = None
       \/ /\ r.cloud.name # None
          /\ \/ r.cloud.name \in PublicCloud /\ r.cloud = Public(r.cloud.name)
             \/ r.cloud = Other(r.cloud.name)

cloudToRow(cloud) == IF cloud = None THEN None ELSE cloud.name

cloudFromRow(name) ==
    IF name = None THEN None ELSE IF name \in PublicCloud THEN Public(name) ELSE Other(name)

(* construct_from_parts, as create_keyspace calls it: every range gets an  *)
(* id; no ranges stand for one with empty bounds.                          *)
baseKeyRanges(layout) == IF layout = << >> THEN << [lower |-> 0, upper |-> 0] >> ELSE layout

constructFromParts(request) ==
    [keyspace_id |-> request.keyspace,
     cloud |-> cloudToRow(request.cloud),
     base_key_ranges |-> baseKeyRanges(request.base_key_ranges)]

intoKeyspaceInfo(row) == [row EXCEPT !.cloud = cloudFromRow(@)]

---------------------------------------------------------------------------
(* create_keyspace: INSERT ... IF NOT EXISTS.  A request for a keyspace    *)
(* that exists is refused.  One that times out in the database may have    *)
(* taken effect all the same: it is then not acknowledged.                 *)

(* Faulty variant: a second creation replaces the row.                     *)
createKeyspaceUnconditionally(request, acked) ==
    LET ks == request.keyspace
    IN  /\ keyspaces' = insert(keyspaces, ks, constructFromParts(request))
        /\ acknowledged' = IF acked /\ ks \notin DOMAIN acknowledged
                           THEN insert(acknowledged, ks, request) ELSE acknowledged

createKeyspace(request, acked) ==
    LET ks == request.keyspace
    IN  /\ ks \notin DOMAIN keyspaces
        /\ keyspaces' = insert(keyspaces, ks, constructFromParts(request))
        /\ acknowledged' = IF acked THEN insert(acknowledged, ks, request) ELSE acknowledged

getKeyspaceInfo(ks) == intoKeyspaceInfo(keyspaces[ks])

(* With a region to filter by, here its cloud                              *)
listKeyspaces(cloud) == {ks \in DOMAIN keyspaces : getKeyspaceInfo(ks).cloud = cloud}
=============================================================================
