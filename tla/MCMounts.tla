------------------------------ MODULE MCMounts ------------------------------
(* Instances of Mounts for TLC: two sandboxes that share the source f1; a   *)
(* mounts a second one after it, or after an edit of its config that alone. *)
EXTENDS Mounts

CONSTANTS a, b, f1, f2, t1, t2

On(t, f) == [target |-> t, source |-> f]

SharedConfigs ==
    [s \in {a, b} |-> IF s = a THEN {<<On(t1, f1), On(t2, f2)>>} ELSE {<<On(t1, f1)>>}]

EditedConfigs ==
    [s \in {a, b} |-> IF s = a THEN {<<On(t1, f1), On(t2, f2)>>, <<On(t1, f2)>>}
                               ELSE {<<On(t1, f1)>>}]
=============================================================================
