---------------------------- MODULE CallService ----------------------------
(***************************************************************************)
(* What a ServerSession promises to the callers of request_client, notify, *)
(* respond and reject (session/connection.rs:981-1176), whatever happens   *)
(* to the connections underneath.                                          *)
(*                                                                         *)
(* A call is transmitted at most Budget(c) times.  The server may execute  *)
(* every transmission once, and may do so after the caller has its answer. *)
(* A call settles once.  The two error answers differ in what a caller may *)
(* conclude: "disconnected" (RpcError Disconnected) says that the call     *)
(* never left the device, "failed" (RpcError SendFailed) says nothing.     *)
(***************************************************************************)
EXTENDS Naturals

CONSTANTS Requests,   \* calls that expect a result: Request, RawRequest
          OneWays     \* calls that only get sent: Notify, Resolve, Reject

Calls == Requests \cup OneWays

\* A request is repeated once after a reconnection, a one-way call never is.
Budget(c) == IF c \in Requests THEN 2 ELSE 1

VARIABLES status,     \* what the caller of c knows
          sends,      \* how often c was put on a connection
          execs       \* how often the server executed c

avars == <<status, sends, execs>>

Answers == {"ok", "refused", "failed", "disconnected"}

AInit ==
  /\ status = [c \in Calls |-> "idle"]
  /\ sends = [c \in Calls |-> 0]
  /\ execs = [c \in Calls |-> 0]

ASubmit(c) ==
  /\ status[c] = "idle"
  /\ status' = [status EXCEPT ![c] = "waiting"]
  /\ UNCHANGED <<sends, execs>>

\* Calls handed to a session that no longer takes them.
AReject(c) ==
  /\ status[c] = "idle"
  /\ status' = [status EXCEPT ![c] = "disconnected"]
  /\ UNCHANGED <<sends, execs>>

ATransmit(c) ==
  /\ c \in Requests
  /\ status[c] = "waiting"
  /\ sends[c] < Budget(c)
  /\ sends' = [sends EXCEPT ![c] = @ + 1]
  /\ UNCHANGED <<status, execs>>

\* A one-way call settles in the step that puts it on the connection.
AFire(c) ==
  /\ c \in OneWays
  /\ status[c] = "waiting"
  /\ sends[c] < Budget(c)
  /\ sends' = [sends EXCEPT ![c] = @ + 1]
  /\ status' = [status EXCEPT ![c] = "ok"]
  /\ UNCHANGED execs

AExecute(c) ==
  /\ execs[c] < sends[c]
  /\ execs' = [execs EXCEPT ![c] = @ + 1]
  /\ UNCHANGED <<status, sends>>

\* The server's answer implies that it executed the call.
AAnswer(c) ==
  /\ c \in Requests
  /\ status[c] = "waiting"
  /\ execs[c] > 0
  /\ \E a \in {"ok", "refused"} : status' = [status EXCEPT ![c] = a]
  /\ UNCHANGED <<sends, execs>>

AFail(c) ==
  /\ status[c] = "waiting"
  /\ status' = [status EXCEPT ![c] = "failed"]
  /\ UNCHANGED <<sends, execs>>

\* A worker that exits drops every call it never took, all at once.
ADrop(D) ==
  /\ D # {}
  /\ \A c \in D : status[c] = "waiting" /\ sends[c] = 0
  /\ status' = [c \in Calls |-> IF c \in D THEN "disconnected" ELSE status[c]]
  /\ UNCHANGED <<sends, execs>>

ANext ==
  \/ \E c \in Calls : \/ ASubmit(c) \/ AReject(c) \/ ATransmit(c) \/ AFire(c)
                      \/ AExecute(c) \/ AAnswer(c) \/ AFail(c)
  \/ \E D \in SUBSET Calls : ADrop(D)

ASpec == AInit /\ [][ANext]_avars
=============================================================================
