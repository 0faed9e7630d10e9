------------------------------ MODULE OMXComponent ------------------------------
(***************************************************************************)
(* What a client of an OpenMAX component is promised: the states it goes   *)
(* through, and whose the buffers of its two ports are.                    *)
(***************************************************************************)
EXTENDS Integers

CONSTANTS InBuffers, OutBuffers  \* the buffers of the two ports

VARIABLES state,       \* of the component
          enabled,     \* [Ports -> BOOLEAN]
          registered,  \* the buffers the client has brought
          lent         \* [buffer -> 1 if the component has it, 0 if not]

vars == <<state, enabled, registered, lent>>

Ports == {"in", "out"}
Buffers == InBuffers \cup OutBuffers
Of(p) == IF p = "in" THEN InBuffers ELSE OutBuffers

Init == /\ state = "Loaded"
        /\ enabled = [p \in Ports |-> TRUE]
        /\ registered = {}
        /\ lent = [b \in Buffers |-> 0]

Held == {b \in Buffers : lent[b] = 1}

\* The buffers of S go back to the client.
Return(S) == /\ S \subseteq Held
             /\ lent' = [b \in Buffers |-> IF b \in S THEN 0 ELSE lent[b]]

Register(b) == /\ b \notin registered
               /\ registered' = registered \cup {b}
               /\ UNCHANGED <<state, enabled, lent>>

\* Only a buffer the component does not have is freed.
Unregister(b) == /\ b \in registered \ Held
                 /\ registered' = registered \ {b}
                 /\ UNCHANGED <<state, enabled, lent>>

\* EmptyThisBuffer, FillThisBuffer.
Give(b) == /\ state # "Loaded"
           /\ b \in registered \ Held
           /\ lent' = [lent EXCEPT ![b] = 1]
           /\ UNCHANGED <<state, enabled, registered>>

\* EmptyBufferDone, FillBufferDone, and a flush.
Done(S) == Return(S) /\ UNCHANGED <<state, enabled, registered>>

\* A port that is disabled has returned its buffers.
Disable(P) == /\ P \subseteq Ports
              /\ enabled' = [p \in Ports |-> enabled[p] /\ p \notin P]
              /\ \E S \in SUBSET Held : Return(S)
              /\ \A p \in P : \A b \in Of(p) : lent'[b] = 0
              /\ UNCHANGED <<state, registered>>

Enable(P) == /\ P \subseteq Ports
             /\ enabled' = [p \in Ports |-> enabled[p] \/ p \in P]
             /\ UNCHANGED <<state, registered, lent>>

\* OMX_EventPortSettingsChanged: the component disables the output port; the
\* input that says so goes back.
SettingsChanged(b) == /\ enabled' = [enabled EXCEPT !["out"] = FALSE]
                      /\ b \in InBuffers /\ Return({b})
                      /\ UNCHANGED <<state, registered>>

\* Out of Loaded with all buffers of the enabled ports, back into it without,
\* and in Idle the component has no buffer of the client.
Change(from, to) ==
    /\ state = from /\ state' = to
    /\ <<from, to>> \in {<<"Loaded", "Idle">>, <<"Idle", "Loaded">>, <<"Idle", "Executing">>,
                         <<"Executing", "Idle">>, <<"Idle", "Pause">>, <<"Pause", "Idle">>,
                         <<"Executing", "Pause">>, <<"Pause", "Executing">>}
    /\ from = "Loaded" => \A p \in Ports : enabled[p] => Of(p) \subseteq registered
    /\ to = "Loaded" => \A p \in Ports : enabled[p] => Of(p) \cap registered = {}
    /\ to = "Idle" => Held = {}
    /\ UNCHANGED <<enabled, registered, lent>>

States == {"Loaded", "Idle", "Executing", "Pause"}

Next == \/ \E b \in Buffers : Register(b) \/ Unregister(b) \/ Give(b) \/ SettingsChanged(b)
        \/ \E S \in SUBSET Held : Done(S)
        \/ \E P \in SUBSET Ports : Disable(P) \/ Enable(P)
        \/ \E from, to \in States : Change(from, to)

Spec == Init /\ [][Next]_vars
===============================================================================
