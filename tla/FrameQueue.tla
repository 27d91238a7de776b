----------------------------- MODULE FrameQueue -----------------------------
(***************************************************************************)
(* What the transmit half of the network interface promises to lwIP: a     *)
(* bounded first-in first-out queue of whole frames in front of the wire.  *)
(* A call hands over one frame and is answered ERR_OK exactly when the     *)
(* frame has been put in the queue; until then its answer is ERR_BUF.      *)
(***************************************************************************)
EXTENDS Naturals, Sequences

CONSTANTS Frames,     \* the frames lwIP may hand to the interface
          Capacity    \* the number of frames that can wait for the wire

VARIABLES queue,      \* frames accepted and not yet transmitted, oldest first
          wire,       \* the frame that went out last
          arg,        \* the frame of the current call
          result      \* the answer of the current call

vars == <<queue, wire, arg, result>>

Init ==
  /\ queue = <<>>
  /\ wire = <<>>
  /\ arg = <<>>
  /\ result = "ERR_OK"

(* lwIP calls the interface's linkoutput function. *)
Call(f) ==
  /\ arg' = f
  /\ result' = "ERR_BUF"
  /\ UNCHANGED <<queue, wire>>

(* The frame of the call joins the queue: this is the only way to ERR_OK. *)
Accept ==
  /\ result = "ERR_BUF"
  /\ Len(queue) < Capacity
  /\ queue' = Append(queue, arg)
  /\ result' = "ERR_OK"
  /\ UNCHANGED <<wire, arg>>

(* The oldest frame leaves on the wire, whole and unchanged. *)
Transmit ==
  /\ queue # <<>>
  /\ wire' = Head(queue)
  /\ queue' = Tail(queue)
  /\ UNCHANGED <<arg, result>>

Next == (\E f \in Frames : Call(f)) \/ Accept \/ Transmit

Spec == Init /\ [][Next]_vars
=============================================================================
