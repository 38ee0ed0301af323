----------------------------- MODULE ByteStream -----------------------------
(***************************************************************************)
(* What the tunnel promises of the data of connections, each of them the   *)
(* source of a stream of chunks: the chunks of a source arrive in the      *)
(* order in which they were sent, each at most once and none that was not  *)
(* sent, and a chunk that does not arrive was given up before a later one  *)
(* arrives.  Nothing is sent again: what is given up leaves a hole.        *)
(*                                                                         *)
(* A chunk arrives with the data it was sent with or, when its source is   *)
(* one of Smearing, with those of a later chunk: the sender may have used  *)
(* the memory again.  Data are named by the chunk they were sent with.     *)
(***************************************************************************)
EXTENDS Integers

CONSTANTS
    Sources,
    Smearing   \* some of them

VARIABLES
    sent,  \* how many chunks each source sent
    last,  \* the chunk of each that arrived last
    data,  \* its data
    lost   \* the chunks of each that were given up

vars == <<sent, last, data, lost>>

Init ==
    /\ sent = [s \in Sources |-> 0]
    /\ last = [s \in Sources |-> 0]
    /\ data = [s \in Sources |-> 0]
    /\ lost = [s \in Sources |-> {}]

Send(s) ==
    /\ sent' = [sent EXCEPT ![s] = @ + 1]
    /\ UNCHANGED <<last, data, lost>>

(* A chunk that is under way is given up.                                   *)
Lose(s, n) ==
    /\ lost' = [lost EXCEPT ![s] = @ \cup {n}]
    /\ UNCHANGED <<sent, last, data>>

Deliver(s, n) ==
    /\ n \notin lost[s]
    /\ (last[s] + 1)..(n - 1) \subseteq lost[s]
    /\ last' = [last EXCEPT ![s] = n]
    /\ \E d \in IF s \in Smearing THEN n..sent[s] ELSE {n} :
            d >= data[s] /\ data' = [data EXCEPT ![s] = d]
    /\ UNCHANGED <<sent, lost>>

Next ==
    \E s \in Sources :
        Send(s) \/ \E n \in (last[s] + 1)..sent[s] : Lose(s, n) \/ Deliver(s, n)

Spec == Init /\ [][Next]_vars
=============================================================================
