---------------------------- MODULE ListenerEvents ---------------------------
(***************************************************************************)
(* What a server_connector promises through its two callbacks              *)
(* (rpc-lib/rpc-lib/internal/connector/server-connector.h): periods of     *)
(* listening, each opened by "started" and closed by "stopped", that do    *)
(* not overlap, and connections, each announced once, in the period that   *)
(* accepted it and in no other.                                            *)
(***************************************************************************)
EXTENDS Naturals

CONSTANTS
  Ids   \* connections

VARIABLES
  listening,  \* the period that is open, 0 when none is
  periods,    \* how many were opened
  given       \* the period in which a connection was announced, 0 before

eventVars == <<listening, periods, given>>

Init ==
  /\ listening = 0
  /\ periods = 0
  /\ given = [c \in Ids |-> 0]

Started ==
  /\ listening = 0
  /\ periods' = periods + 1
  /\ listening' = periods'
  /\ UNCHANGED given

Stopped ==
  /\ listening # 0
  /\ listening' = 0
  /\ UNCHANGED <<periods, given>>

NewConnection(c) ==
  /\ listening # 0
  /\ given[c] = 0
  /\ given' = [given EXCEPT ![c] = listening]
  /\ UNCHANGED <<listening, periods>>

Next == Started \/ Stopped \/ \E c \in Ids : NewConnection(c)

Spec == Init /\ [][Next]_eventVars

=============================================================================
