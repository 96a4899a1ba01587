---------------------------- MODULE LossyChannel ----------------------------
(***************************************************************************)
(* What the senders over a websocket promise (LogHandler, the push loop of *)
(* WsRobotProcess): messages are delivered in the order they were          *)
(* accepted, none twice, and a connection that closes costs at most one    *)
(* message.  Messages are numbered 1, 2, ... as they are accepted.         *)
(***************************************************************************)
EXTENDS Integers, Sequences, SequencesExt

VARIABLES
  accepted,    \* number of messages accepted
  waiting,     \* accepted, neither delivered nor lost
  delivered,   \* handed to a connection, in order
  lost         \* for each closed connection the message it cost, 0 for none

vars == <<accepted, waiting, delivered, lost>>

Init ==
  /\ accepted = 0
  /\ waiting = <<>>
  /\ delivered = <<>>
  /\ lost = <<>>

Accept ==
  /\ accepted' = accepted + 1
  /\ waiting' = Append(waiting, accepted + 1)
  /\ UNCHANGED <<delivered, lost>>

Deliver ==
  /\ waiting # <<>>
  /\ delivered' = Append(delivered, Head(waiting))
  /\ waiting' = Tail(waiting)
  /\ UNCHANGED <<accepted, lost>>

\* A connection closes with nothing under way ...
Break ==
  /\ lost' = Append(lost, 0)
  /\ UNCHANGED <<accepted, waiting, delivered>>

\* ... or with a message under way.
BreakUnderWay ==
  /\ waiting # <<>>
  /\ lost' = Append(lost, Head(waiting))
  /\ waiting' = Tail(waiting)
  /\ UNCHANGED <<accepted, delivered>>

\* The sender of a closed connection finds out with one more message, which may
\* have overtaken the one under way on the newest connection.
Lose(k, i) ==
  /\ lost[k] = 0
  /\ lost' = [lost EXCEPT ![k] = waiting[i]]
  /\ waiting' = RemoveAt(waiting, i)
  /\ UNCHANGED <<accepted, delivered>>

Next ==
  \/ Accept \/ Deliver \/ Break \/ BreakUnderWay
  \/ \E k \in 1 .. Len(lost), i \in 1 .. Len(waiting) : Lose(k, i)

Spec == Init /\ [][Next]_vars

-----------------------------------------------------------------------------
(* What follows from it *)

TypeOK ==
  /\ accepted \in Nat
  /\ waiting \in Seq(1 .. accepted)
  /\ delivered \in Seq(1 .. accepted)
  /\ lost \in Seq(0 .. accepted)

Increasing(s) == \A i, j \in 1 .. Len(s) : i < j => s[i] < s[j]

\* Messages leave in the order they came, none twice.
InOrder ==
  /\ Increasing(delivered)
  /\ Increasing(waiting)
  /\ \A i \in 1 .. Len(delivered), j \in 1 .. Len(waiting) : delivered[i] < waiting[j]

\* Nothing is lost but what a closed connection cost.
Accounted ==
  \A m \in 1 .. accepted :
    \/ \E i \in 1 .. Len(delivered) : delivered[i] = m
    \/ \E i \in 1 .. Len(waiting) : waiting[i] = m
    \/ \E k \in 1 .. Len(lost) : lost[k] = m
=============================================================================
