-------------------------------- MODULE Maps ---------------------------------
(* The operations of std::map, std::unordered_map and TMap that the modules *)
(* use, on functions whose domain is the set of keys present.               *)
EXTENDS Functions

Put(map, key, value) ==
    [k \in DOMAIN map \union {key} |-> IF k = key THEN value ELSE map[k]]

Erase(map, keys) == Restrict(map, DOMAIN map \ keys)

=============================================================================
