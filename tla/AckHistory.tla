------------------------------ MODULE AckHistory ------------------------------
(***************************************************************************)
(* AlertCoordinator with two history variables: the alarms the last poll   *)
(* counted as open, and those a Clear (by hand or by timeout) acknowledged *)
(* after the user could see them counted.                                  *)
(***************************************************************************)
EXTENDS AlertCoordinator

VARIABLES
    shown,   \* per category, the alarms counted by the last poll applied
    acked    \* per category, the alarms acknowledged

hvars == <<vars, shown, acked>>

HInit ==
    /\ Init
    /\ shown = NoAnswer
    /\ acked = NoAnswer

Show ==
    /\ PollApply
    /\ shown' = [c \in Category |-> IF cs[c].enabled THEN Counted(c) ELSE {}]
    /\ acked' = acked

Acknowledge ==
    /\ Clearing
    /\ acked' = [c \in Category |->
                    IF cs'[c].last_cleared_at # cs[c].last_cleared_at
                    THEN acked[c] \union shown[c]
                    ELSE acked[c]]
    /\ shown' = shown

\* An acknowledgement that never reached the file is lost with the process.
Forget ==
    /\ Crash
    /\ shown' = NoAnswer
    /\ acked' = [c \in Category |-> {a \in acked[c] : a.received_at <= disk[c].last_cleared_at}]

\* An alarm archived on the controller is gone: its like, raised again, is new.
Rest ==
    /\ Environment \/ Push \/ PollFetch \/ StoreStep
    /\ shown' = [c \in Category |-> shown[c] \intersect alarms'[c]]
    /\ acked' = [c \in Category |-> acked[c] \intersect alarms'[c]]

HNext == Show \/ Acknowledge \/ Forget \/ Rest

HSpec == HInit /\ [][HNext]_hvars

HFairSpec == HSpec /\ Fairness

\* An alarm the user saw counted and cleared stays acknowledged while it stays
\* open on the controller: no later poll counts it or raises Problem for it,
\* although the watermark can move backwards, is rebuilt from what this process
\* has seen, and mixes the stamps of two clocks.
AcknowledgedStaysAcknowledged ==
    \A c \in Category : \A a \in acked[c] :
        a.received_at <= cs[c].last_cleared_at
=============================================================================
