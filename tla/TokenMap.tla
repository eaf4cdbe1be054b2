------------------------------ MODULE TokenMap ------------------------------
(***************************************************************************)
(* What the token store promises to its callers, whatever caches it uses:  *)
(* tokens stand for the responses that were accepted for them.  Updates    *)
(* are not atomic and reads may be stale, so a token stands for a set of   *)
(* responses at a time and a reader gets any of them, or none; responses   *)
(* may be forgotten at any time (expiry, eviction, overwriting, crashes).  *)
(*                                                                         *)
(* A set only grows by what a writer under way was admitted with: a reader *)
(* adds nothing to it, so a response that has been forgotten everywhere    *)
(* does not come back.                                                     *)
(***************************************************************************)
CONSTANTS
    Proc,        \* callers
    Token,       \* tokens
    Acceptable,  \* the responses that may be admitted
    Form(_),     \* the form a response has in the shared storage
    Absent,      \* the answer for an unknown token
    Idle         \* the state of a caller without a call

VARIABLES
    held,        \* held[t]: the responses that t stands for
    call         \* call[p]: what caller p is doing

vars == <<held, call>>

State(name, t, r) == [pc |-> name, token |-> t, resp |-> r]

Init ==
    /\ held = [t \in Token |-> {}]
    /\ call = [p \in Proc |-> Idle]

\* Nothing is held that was not held before.
OnlyForgets == \A t \in Token : held'[t] \subseteq held[t]

\* A writer is admitted.
Accept(p, t, r) ==
    /\ call[p] = Idle
    /\ r \in Acceptable
    /\ call' = [call EXCEPT ![p] = State("write", t, r)]
    /\ UNCHANGED held

\* A step of an admitted writer, which may be its last.
Write(p) ==
    /\ call[p].pc = "write"
    /\ \A t \in Token :
          held'[t] \subseteq held[t] \cup
              (IF t = call[p].token THEN {call[p].resp, Form(call[p].resp)} ELSE {})
    /\ call' \in {call, [call EXCEPT ![p] = Idle]}

Ask(p, t) ==
    /\ call[p] = Idle
    /\ call' = [call EXCEPT ![p] = State("read", t, Absent)]
    /\ UNCHANGED held

Reply(p, r) ==
    /\ call[p].pc = "read"
    /\ r \in held[call[p].token] \cup {Absent}
    /\ call' = [call EXCEPT ![p] = State("answered", call[p].token, r)]
    /\ UNCHANGED held

\* The answer is used, or the read has failed.
Return(p) ==
    /\ call[p].pc \in {"read", "answered"}
    /\ call' = [call EXCEPT ![p] = Idle]
    /\ UNCHANGED held

\* Time passes, or the callers in P die.
Forget(P) ==
    /\ OnlyForgets
    /\ call' = [p \in Proc |-> IF p \in P THEN Idle ELSE call[p]]

Next ==
    \/ \E p \in Proc :
          \/ \E t \in Token : Ask(p, t) \/ \E r \in Acceptable : Accept(p, t, r)
          \/ Write(p) \/ Return(p)
          \/ \E r \in {Absent} \cup UNION {held[t] : t \in Token} : Reply(p, r)
    \/ \E P \in SUBSET Proc : Forget(P)

Spec == Init /\ [][Next]_vars
=============================================================================
