------------------------------ MODULE RpcCall ------------------------------
(***************************************************************************)
(* What a JSON-RPC end point promises about the calls an application makes *)
(* through it, whatever transport carries them: a call is started once,    *)
(* ends at most once, and how it ended never changes.  An asynchronous     *)
(* call (sendMessage) is answered or abandoned by its owner; a blocking    *)
(* call (sendMessageBlocking) is answered or times out.                    *)
(***************************************************************************)
CONSTANTS Calls,     \* the calls the application makes
          Blocking   \* those made with sendMessageBlocking

VARIABLE call        \* call[c]: what has become of c

Outcomes == {"answered", "timedOut", "abandoned"}

TypeOK == call \in [Calls -> {"idle", "pending"} \cup Outcomes]

Init == call = [c \in Calls |-> "idle"]

Start(c) == /\ call[c] = "idle"
            /\ call' = [call EXCEPT ![c] = "pending"]

Answer(c) == /\ call[c] = "pending"
             /\ call' = [call EXCEPT ![c] = "answered"]

TimeOut(c) == /\ c \in Blocking
              /\ call[c] = "pending"
              /\ call' = [call EXCEPT ![c] = "timedOut"]

Abandon(c) == /\ c \notin Blocking
              /\ call[c] = "pending"
              /\ call' = [call EXCEPT ![c] = "abandoned"]

Next == \E c \in Calls : Start(c) \/ Answer(c) \/ TimeOut(c) \/ Abandon(c)

Spec == Init /\ [][Next]_call
=============================================================================
