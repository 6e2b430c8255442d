-------------------------------- MODULE Calls --------------------------------
(***************************************************************************)
(* What a call of sendMessages promises its caller, whatever it does to    *)
(* keep the promise: it reports success only for a request the server took *)
(* and answered with 2xx, it reports once, and it reports a failure even   *)
(* of a request the server took, if the answer was lost.                   *)
(***************************************************************************)
CONSTANT Caller

VARIABLE call   \* per caller, see CallState

CallState == {"idle",       \* no call in progress
              "unread",     \* no server has read the request
              "accepted",   \* the server took it, its 2xx is on its way
              "read",       \* answered with an error, or the 2xx was lost
              "ok", "failed"}

CallsInit == call = [c \in Caller |-> "idle"]

Move(c, from, to) ==
    /\ call[c] \in from
    /\ call' = [call EXCEPT ![c] = to]

CallsNext ==
    \/ \E c \in Caller :
          \/ Move(c, {"idle"}, "unread")
          \/ Move(c, {"idle"}, "failed")
          \/ Move(c, {"unread", "read"}, "accepted")
          \/ Move(c, {"unread", "accepted"}, "read")
          \/ Move(c, {"accepted"}, "ok")
          \/ Move(c, {"unread", "accepted", "read"}, "failed")
          \/ Move(c, {"ok", "failed"}, "idle")
    \/ call' = [c \in Caller |-> "idle"]    \* the process dies

CallsSpec == CallsInit /\ [][CallsNext]_call
=============================================================================
