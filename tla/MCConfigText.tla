---------------------------- MODULE MCConfigText ----------------------------
(***************************************************************************)
(* Documents for the model-checking runs of ConfigText, with 2-bit and     *)
(* 3-bit words.                                                            *)
(***************************************************************************)
EXTENDS ConfigText

Number(n) == [number |-> TRUE, text |-> n]

(* Two numbers, one that does not fit 32 bits, one that does not fit 64, *)
(* and a word.                                                             *)
MCValues ==
    {Number(1), Number(2), Number(4), Number(8),
     [number |-> FALSE, text |-> 0]}

(* Scalars of the device, of a nested mapping and of options, a key that   *)
(* no section knows, one that only the device knows, and an option named   *)
(* like a section.                                                         *)
MCScalars ==
    {<<"DEVICES", "device_id">>, <<"DEVICES", "max_qubits">>,
     <<"RATE", "device_rate">>, <<"RATE", "vendor">>,
     <<"POLICY", "name">>, <<"POLICY_OPTIONS", "rate_slice">>,
     <<"POLICY_OPTIONS", "credit">>, <<"ESTIMATOR", "name">>,
     <<"ESTIMATOR", "max_qubits">>, <<"ESTIMATOR_OPTIONS", "rate_slice">>}

MCPaths == {"/opt/a"}

(* Well-formed numbers, in any order of keys.                              *)
PlainValues == {Number(1)}
=============================================================================
