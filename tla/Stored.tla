-------------------------------- MODULE Stored --------------------------------
(***************************************************************************)
(* Map<K, V> and Item<V> (crates/app/sdk/collections/src/map.rs, item.rs): *)
(* an account's storage under one prefix, a function from the keys that    *)
(* are present to their values.  An Item is a Map with one key.            *)
(***************************************************************************)

Empty == [k \in {} |-> {}]

(* Map::set *)
Put(m, key, value) == [k \in DOMAIN m \cup {key} |-> IF k = key THEN value ELSE m[k]]

(* Map::remove *)
Del(m, key) == [k \in DOMAIN m \ {key} |-> m[k]]
=============================================================================
