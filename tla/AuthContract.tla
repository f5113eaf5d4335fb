---------------------------- MODULE AuthContract ----------------------------
(***************************************************************************)
(* What the daemon promises to the clients of its socket, whatever queues, *)
(* caches and links lie between them and the user. Challenges are the      *)
(* numbers 1 .. issued. A client is told success only if its request was   *)
(* granted: by an approval of the user's that no other request has used,   *)
(* for a challenge drawn since the request began; or out of the cache,     *)
(* which only an earlier grant can have filled.                            *)
(***************************************************************************)
EXTENDS Integers

CONSTANT Requests

VARIABLES
    issued,     \* challenges drawn
    approved,   \* challenges the user approved
    begun,      \* per request: the challenge drawn for it, 0 before that
    grant,      \* per request: the approval that granted it, 0 for none
    cached,     \* requests granted out of the cache
    reply       \* per request: what its client was told

vars == <<issued, approved, begun, grant, cached, reply>>

Init ==
    /\ issued = 0
    /\ approved = {}
    /\ begun = [r \in Requests |-> 0]
    /\ grant = [r \in Requests |-> 0]
    /\ cached = {}
    /\ reply = [r \in Requests |-> "none"]

\* A challenge is drawn for no request in particular.
Issue ==
    /\ issued' = issued + 1
    /\ UNCHANGED <<approved, begun, grant, cached, reply>>

\* The challenge of r is drawn.
Begin(r) ==
    /\ begun[r] = 0
    /\ issued' = issued + 1
    /\ begun' = [begun EXCEPT ![r] = issued + 1]
    /\ UNCHANGED <<approved, grant, cached, reply>>

Approve(c) ==
    /\ c \notin approved
    /\ approved' = approved \cup {c}
    /\ UNCHANGED <<issued, begun, grant, cached, reply>>

Grant(r, c) ==
    /\ begun[r] # 0 /\ begun[r] <= c
    /\ grant[r] = 0 /\ reply[r] = "none"
    /\ \A q \in Requests : grant[q] # c
    /\ grant' = [grant EXCEPT ![r] = c]
    /\ UNCHANGED <<issued, approved, begun, cached, reply>>

UseCache(r) ==
    /\ begun[r] = 0 /\ reply[r] = "none"
    /\ \E q \in Requests : grant[q] # 0
    /\ cached' = cached \cup {r}
    /\ UNCHANGED <<issued, approved, begun, grant, reply>>

Reply(r, answer) ==
    /\ reply[r] = "none"
    /\ answer = "success" => grant[r] # 0 \/ r \in cached
    /\ reply' = [reply EXCEPT ![r] = answer]
    /\ UNCHANGED <<issued, approved, begun, grant, cached>>

Next ==
    \/ Issue
    \/ \E c \in 1 .. issued : Approve(c)
    \/ \E r \in Requests :
         \/ Begin(r)
         \/ \E c \in approved : Grant(r, c)
         \/ UseCache(r)
         \/ \E answer \in {"success", "failure"} : Reply(r, answer)

Spec == Init /\ [][Next]_vars
=============================================================================
