---------------------------- MODULE MCKeyStore ----------------------------
(* Small instances of KeyStore for TLC. *)
EXTENDS KeyStore, TLC

CONSTANTS k1, k2, r1, r2

OneKey  == {k1}
TwoKeys == {k1, k2}

Config(g1, g2, plain, ok) ==
    [grant |-> [k \in Keys |-> IF k = k1 THEN g1 ELSE g2], plain |-> plain, ok |-> ok]

Default == Config("admin", "off", FALSE, TRUE)

(* A rotation may bring plaintext keys or be refused by reload (with one   *)
(* key) ...                                                                *)
TwoConfigs == {Config("write", "read", TRUE, TRUE), Config("off", "off", FALSE, TRUE)}

(* ... may lower the permission of a key or revoke it (with two).          *)
ThreeConfigs == {Config("write", "read", TRUE, TRUE),
                 Config("read", "off", FALSE, TRUE),
                 Config("off", "admin", FALSE, TRUE)}

OneRequest  == {r1}
TwoRequests == {r1, r2}

Symmetry == Permutations(Requests)
=============================================================================
