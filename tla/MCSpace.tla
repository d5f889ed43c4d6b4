------------------------------- MODULE MCSpace -------------------------------
(***************************************************************************)
(* Instances of Space for TLC: two or three devices with two labels.       *)
(***************************************************************************)
EXTENDS Space, TLC

CONSTANTS x, y, z,      \* devices
          n1, n2        \* labels

AllN1   == [d \in Devices |-> n1]
InStep  == [d \in Devices |-> 0]
XYAhead == [d \in Devices |-> IF d \in {x, y} THEN 1 ELSE 0]
XAhead  == [d \in Devices |-> IF d = x THEN 1 ELSE 0]

\* Who does what in which run.
Do(f) == [d \in Devices |-> f[d]]
Pairers   == Do(x :> {"invite", "revoke", "send"} @@ y :> {"send"}
                @@ z :> {"join", "revoke"})
Departing == Do(x :> {"leave", "restart"} @@ y :> {"abandon", "rename"}
                @@ z :> {"send", "offline"})
Renaming  == Do(x :> {"invite", "revoke", "send"} @@ y :> {"join", "rename"} @@ z :> {"send"})
XYHost    == Do(x :> {"revoke", "send"} @@ y :> {"invite", "send"} @@ z :> {"join"})
XHosts    == Do(x :> {"invite", "revoke", "send"} @@ y :> {"send"} @@ z :> {"join"})
XRemoves  == Do(x :> {"revoke", "check"} @@ y :> {} @@ z :> {"check"})
XGoes     == Do(x :> {"abandon"} @@ y :> {"check"} @@ z :> {"check"})
XYRename  == Do(x :> {"rename", "check"} @@ y :> {"check"} @@ z :> {})
=============================================================================
