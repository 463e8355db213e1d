---------------------------- MODULE MCLifecycle ----------------------------
(* The three processes: the sidecar, the proxy in full and in standalone mode. *)
EXTENDS Lifecycle

CONSTANTS serve, mint, downstream

MCPrograms ==
    {[servers |-> {serve, mint}, upstream |-> FALSE],
     [servers |-> {downstream}, upstream |-> TRUE],
     [servers |-> {downstream}, upstream |-> FALSE]}

=============================================================================
