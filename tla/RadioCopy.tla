----------------------------- MODULE RadioCopy -----------------------------
(***************************************************************************)
(* The whole program over a radio: FileSender on top of                    *)
(* SendBroadcastPacket on every sending station, FileReceiver on top of    *)
(* PushPacketChunk in one receiving process.  The transport is             *)
(* BroadcastLink; each of its stations is a run of the sender.             *)
(*                                                                         *)
(* The radio is direct: a frame is heard or lost before the next one is    *)
(* transmitted, since a transmission takes less than the pause after it    *)
(* and there is no digipeater.  What is left of BroadcastLink's channel is *)
(* the loss of up to MaxLosses copies of each fragment.                    *)
(***************************************************************************)
EXTENDS BroadcastLink

CONSTANTS
  File, Name, TransferIds,                              \* FilePackets
  FileOf, SizeOf, NameOf, MaxChunkSize, Directed, After,
                                                        \* FileSender
  WriteMayFail, Absent                                  \* FileReceiver

VARIABLES
  stage, transfer_id, next,                             \* FileSender
  file_chunks, disk, alive                              \* FileReceiver

Sender == INSTANCE FileSender WITH Runs <- Stations
Receiver == INSTANCE FileReceiver

fileSenderVars == <<stage, transfer_id, next>>
fileReceiverVars == <<file_chunks, disk, alive>>
fileVars == <<fileSenderVars, fileReceiverVars>>
radioVars == <<fileVars, vars>>

\* The packets of a run, in the order of SendBroadcast.
PacketsOf(r) == [k \in 1..(Sender!ChunkCount(r) + 1) |-> <<r, k - 1>>]

\* With a retransmit_count of 0 nothing is ever on the air.
ASSUME RadioAssumption ==
  /\ Packet = Sender!PacketIds
  /\ Outbox = [r \in Stations |-> PacketsOf(r)]
  /\ Noise = {}
  /\ \A r \in Stations : RetransmitCount[r] > 0

\* What FileSender assumes of the files.
ASSUME FilesAssumption ==
  /\ FileOf \in [Stations -> File]
  /\ SizeOf \in [File -> Nat]
  /\ MaxChunkSize \in Nat

RadioInit ==
  /\ Init
  /\ Sender!SenderInit
  /\ Receiver!ReceiverInit

-----------------------------------------------------------------------------
EnterSend(r) ==
  /\ Sender!StartSend(r) \/ Sender!RefuseSend(r)
  /\ UNCHANGED <<fileReceiverVars, vars>>

\* SendBroadcastPacket takes a payload id and enters its loops.
EnterBroadcast(r) ==
  /\ Sender!CallBroadcast(r)
  /\ StartBroadcast(r)
  /\ UNCHANGED fileReceiverVars

TransmitNext(r) ==
  /\ air = {}
  /\ TransmitPiece(r) \/ TransmitLastPiece(r)
  /\ UNCHANGED fileVars

\* The last copy of the last fragment is on the air and the call returns.
LeaveBroadcast(r) ==
  /\ air = {}
  /\ FinishBroadcast(r)
  /\ Sender!BroadcastReturns(r)
  /\ UNCHANGED fileReceiverVars

GiveUp(r) ==
  /\ TransmitFails(r)
  /\ Sender!BroadcastFails(r)
  /\ UNCHANGED fileReceiverVars

SenderStep(r) ==
  \/ EnterSend(r)
  \/ EnterBroadcast(r)
  \/ TransmitNext(r)
  \/ LeaveBroadcast(r)
  \/ GiveUp(r)

-----------------------------------------------------------------------------
\* What ReceiveBroadcastPacket hands over in this step.
HandedOver == {p \in Packet : returned'[p] > returned[p]}

\* A frame is heard; if it completes a packet, Receive handles the packet
\* before the next frame is read.
HearAndReceive(f) ==
  /\ alive
  /\ Hear(f)
  /\ air' = {}
  /\ \/ HandedOver = {} /\ UNCHANGED fileReceiverVars
     \/ \E p \in HandedOver : Receiver!Receive(Sender!PacketOf(p))
  /\ UNCHANGED fileSenderVars

\* Nobody listens: the process has ended.
PassUnheard ==
  /\ air # {}
  /\ ~(alive /\ running)
  /\ air' = {}
  /\ UNCHANGED <<fileVars, receiverVars, senderVars, lost, restarts>>

ListenAndReceive == (\E f \in air : HearAndReceive(f)) \/ PassUnheard

LoseFrame(f) == Lose(f) /\ UNCHANGED fileVars

RestartCopy ==
  /\ RestartReceiver
  /\ Receiver!ReceiverRestart
  /\ UNCHANGED fileSenderVars

RadioNext ==
  \/ \E r \in Stations : SenderStep(r)
  \/ ListenAndReceive
  \/ \E f \in air : LoseFrame(f)
  \/ RestartCopy

RadioSpec == RadioInit /\ [][RadioNext]_radioVars

\* Every process goes on while it can: the receiver reads, and in a sender
\* the calls that Send makes return.
FairSpec ==
  /\ RadioSpec
  /\ WF_radioVars(ListenAndReceive)
  /\ \A r \in Stations : WF_radioVars(SenderStep(r))

-----------------------------------------------------------------------------
\* The copy that FileCopy describes, its link the radio: a packet is sent
\* once it has a payload id.
Copy == INSTANCE FileCopy WITH
  Runs <- Stations,
  sent <- UNION {assigned[id] : id \in PayloadIds},
  delivered <- [p \in Packet |-> returned[p]],
  Order <- "none",
  Strays <- {}

\* Stations, channel and transport together are the link that FileCopy
\* assumes, with the handling of a packet as part of its delivery.
ImplementsFileCopy == Copy!Spec

\* Retransmission and pacing keep the order of sending as long as more
\* copies are sent than lost: Receive is handed a packet only after all
\* earlier ones of its run, so the first chunk finds its header.
ArrivesInOrder ==
  restarts = 0 =>
    \A r \in Stations : \A j, k \in 0..Sender!ChunkCount(r) :
      j < k /\ returned[<<r, k>>] > 0 => returned[<<r, j>>] > 0

\* A run that has started ends, and with the file saved unless Send failed or
\* the receiver was started in the middle of it.
SentFileIsSaved ==
  \A r \in Stations :
    stage[r] = "sending" ~> Copy!Saved(r) \/ stage[r] = "failed" \/ restarts > 0

\* "invalid FileChunks tracker" (file_receiver.cc:74): a tracker always has a
\* header or a chunk.
TrackersHaveIds == Copy!TrackersHaveIds

\* The same of a receiver that was not started in the middle of a transfer.
TrackersHaveIdsFromStart == restarts = 0 => TrackersHaveIds
=============================================================================
