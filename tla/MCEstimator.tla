---------------------------- MODULE MCEstimator ----------------------------
(***************************************************************************)
(* Inputs for the model-checking run of Estimator, with 6-bit words.       *)
(***************************************************************************)
EXTENDS Estimator, TLC

Circuit(count, shots, one_q, two_q, measurements) ==
    [count |-> count, shots |-> shots, one_q |-> one_q, two_q |-> two_q,
     measurements |-> measurements, qubits |-> 1]

Timing(gate, measure, transfer, overhead) ==
    [f \in TimingFields |->
        CASE f \in {"one_q_gate_ns", "two_q_gate_ns"} -> gate
          [] f = "measurement_ns" -> measure
          [] f \in {"one_q_gate_transfer_ns", "two_q_gate_transfer_ns",
                    "measurement_transfer_ns"} -> transfer
          [] OTHER -> overhead]

Device(timing, baseline, credits, rate, span) ==
    [timing |-> timing, baseline |-> baseline, credits |-> credits,
     rate |-> rate, span |-> span, max_qubits |-> 2, max_shots |-> 4,
     jobs |-> 2]

(* A device whose capacity is derived, from a baseline that does not divide *)
(* its span; one with overheads and explicit totals; one whose baseline     *)
(* takes more than a word can hold.                                         *)
MCDevices ==
    {Device(Timing(1, 1, 0, 0), Circuit(0, 1, 2, 0, 1), 0, 0, 11),
     Device(Timing(1, 2, 1, 1), Circuit(0, 1, 0, 1, 1), 4, 9, 10),
     Device(Timing(1, 40, 0, 0), Circuit(0, 2, 0, 0, 1), 0, 4, 8)}

Plain == [f \in {} |-> 0]

Class(shape, metadata) == [shape |-> shape, metadata |-> metadata]

(* Classes that take less than a baseline, more than one, no time at all,   *)
(* and more than a word, in a product or only in the sum; more qubits or    *)
(* shots than the device has; a timing override that is not a number.       *)
MCClasses ==
    {Class(Circuit(1, 1, 1, 0, 1), Plain),
     Class(Circuit(1, 2, 1, 1, 1), Plain),
     Class(Circuit(1, 1, 1, 0, 0), "one_q_gate_ns" :> 0),
     Class(Circuit(2, 1, 1, 0, 0), "compile_ns" :> 20),
     Class(Circuit(4, 4, 4, 1, 4), Plain),
     Class([Circuit(1, 1, 1, 0, 1) EXCEPT !.qubits = 3], Plain),
     Class(Circuit(1, 5, 1, 0, 1), Plain),
     Class(Circuit(1, 1, 1, 0, 1), "measurement_ns" :> NotANumber)}

(* Credit policies with and without overcommit, and the rate policy.        *)
MCInstances ==
    {[kind |-> "credit", over |-> over, ppm |-> 0, slice |-> 0, ttl |-> 0]
        : over \in {0, 1}}
    \cup {[kind |-> "rate", over |-> 0, ppm |-> 0, slice |-> slice, ttl |-> 0]
            : slice \in {0, 1}}

MCBudgets == {3, 20}
=============================================================================
