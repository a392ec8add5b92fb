----------------------------- MODULE KeycodeFlow -----------------------------
(***************************************************************************)
(* What an AlamedaService says of its keycode, as the state flow of the    *)
(* keycode controller promises it: the keycode that is applied, the state  *)
(* of its registration, and that a keycode is Done only when it is         *)
(* registered.  Keycode is the controller that keeps the promise.          *)
(***************************************************************************)
CONSTANTS
    Codes,      \* keycodes
    NoCode      \* "no keycode"

VARIABLES
    code,       \* status.keycodeStatus.codeNumber
    state,      \* status.keycodeStatus.state
    activated   \* keycodes that are registered

vars == <<code, state, activated>>

Default == "Default"
WaitingKeycode == "WaitingKeycode"
Polling == "PollingRegistrationData"
WaitingSignature == "WaitingSignatureData"
Registered == "Done"

Init ==
    /\ code = NoCode /\ state = Default
    /\ activated \subseteq Codes

\* The user fills in a keycode; it is at the repository.
Apply(c) ==
    /\ code' = c /\ state' = Polling
    /\ UNCHANGED activated

\* The user removes the keycode, or it makes room for another.
Remove ==
    /\ code' = NoCode /\ state' = WaitingKeycode
    /\ UNCHANGED activated

\* Registration data is there for the user to send in.
Poll ==
    /\ state = Polling /\ state' = WaitingSignature
    /\ UNCHANGED <<code, activated>>

\* Somebody activates a keycode with the signature data for it.
Activate(c) ==
    /\ activated' = activated \union {c}
    /\ UNCHANGED <<code, state>>

\* The keycode has been found registered, or just been activated.
Complete ==
    /\ state \in {Polling, WaitingSignature} /\ code \in activated
    /\ state' = Registered
    /\ UNCHANGED <<code, activated>>

\* Another AlamedaService, which has said nothing yet.
Reset ==
    /\ code' = NoCode /\ state' = Default
    /\ UNCHANGED activated

Next ==
    \/ \E c \in Codes : Apply(c) \/ Activate(c)
    \/ Remove \/ Poll \/ Complete \/ Reset

Spec == Init /\ [][Next]_vars
=============================================================================
