------------------------------ MODULE MCConfig ------------------------------
(***************************************************************************)
(* Inputs for the model-checking run of Config.                            *)
(***************************************************************************)
EXTENDS Config

MCNames == {"baseline", "fast", "alias"}

(* "lib" has both kinds of plugin "fast" and files named "alias" whose     *)
(* descriptors say "fast" too; the only file of "old" is broken.           *)
MCDescriptor(kind, path, name) ==
    IF path = "lib" /\ name \in {"fast", "alias"} THEN "fast"
    ELSE IF path = "old" /\ name = "fast" THEN "broken"
    ELSE "missing"

DeviceOf(d, estimator, policy) ==
    [device |-> d, plugin |-> [k \in Kinds |-> IF k = "estimator" THEN estimator
                                               ELSE policy]]

ConfigOf(devs, dirs) ==
    [valid |-> TRUE, devices |-> devs, paths |-> [k \in Kinds |-> dirs]]

MCConfigs ==
    {ConfigOf(<<>>, <<"old">>),
     ConfigOf(<<DeviceOf(1, "none", "fast")>>, <<"lib">>),
     ConfigOf(<<DeviceOf(1, "fast", "alias"), DeviceOf(2, "baseline", "fast")>>,
              <<"old", "lib">>),
     ConfigOf(<<DeviceOf(2, "fast", "fast")>>, <<>>),
     [ConfigOf(<<>>, <<>>) EXCEPT !.valid = FALSE]}

\* No step depends on what the last call returned.
StateView == <<devices, heap, plugins, paths, active, load>>
=============================================================================
