------------------------------- MODULE Video --------------------------------
(***************************************************************************)
(* Video conferencing: the pictures that one player's camera takes, on     *)
(* their way through the server to another player.                         *)
(*                                                                         *)
(* There are two links, "up" from the sender's program to the server and   *)
(* "down" from the server to the recipient's.  On each, a picture is       *)
(* encoded as its difference to the last one that is known to have arrived *)
(* (VideoFrameHistory.cs), which both ends have to keep.  Packets name     *)
(* pictures by numbers of one byte (Ids is 256), and travel on sequenced   *)
(* unreliable channels: any packet may be lost, and one that is overtaken  *)
(* is.  So are the acknowledgements that come back.                        *)
(*                                                                         *)
(* A picture is the number of the camera's shot, and the codec is right: a *)
(* difference decoded with the picture that it was made with gives the     *)
(* picture, one decoded with another picture gives rubbish.                *)
(***************************************************************************)
EXTENDS Naturals, Sequences, SequencesExt

CONSTANTS
  Ids,         \* how many numbers there are, 256
  MaxUnacked,  \* timing: so many pictures after the last known one, at most
  MaxPictures, MaxReturns, MaxJobs   \* bounds

Links == {"up", "down"}
Players == {"sender", "recipient"}

Garbled == MaxPictures + 1    \* decoded with another picture
Missing == MaxPictures + 2    \* decoded with none, though one was needed
NoPicture == 0

ASSUME VideoAssumption ==
  /\ Ids \in Nat \ {0} /\ MaxUnacked \in Nat
  /\ MaxPictures \in Nat /\ MaxReturns \in [Players -> Nat]

VARIABLES
  playersById,    \* who is connected, for the server
  taken,          \* how many pictures the camera has taken
  outbound,       \* outbound[l]: OutboundVideoFrameHistory, where l begins
  inbound,        \* inbound[l]: InboundVideoFrameHistory, where l ends
  frames, acks,   \* what is on its way on each link
  uncompressJobs, compressJobs,   \* RakServer's lists
  shown,          \* the picture that the recipient sees
  returns         \* how often each player has come back

vars == <<playersById, taken, outbound, inbound, frames, acks, uncompressJobs, compressJobs,
          shown, returns>>

NoHistory == [pictures |-> <<>>, acked |-> FALSE]

Init ==
  /\ playersById = Players
  /\ taken = 0
  /\ outbound = [l \in Links |-> NoHistory]
  /\ inbound = [l \in Links |-> <<>>]
  /\ frames = [l \in Links |-> <<>>]
  /\ acks = [l \in Links |-> <<>>]
  /\ uncompressJobs = <<>> /\ compressJobs = <<>>
  /\ shown = NoPicture
  /\ returns = [p \in Players |-> 0]

-----------------------------------------------------------------------------
(* VideoFrameHistory.cs.                                                   *)

NextId(h) == IF h.pictures = <<>> THEN 0 ELSE (Last(h.pictures).id + 1) % Ids

\* OutboundVideoFrameHistory.AddFrame
AddFrame(h, picture) ==
  LET frame == [id |-> NextId(h), picture |-> picture] IN
  IF frame.id = 0 THEN [pictures |-> <<frame>>, acked |-> FALSE]
  ELSE [h EXCEPT !.pictures = Append(@, frame)]

\* OutboundVideoFrameHistory.AckFrame: the first frames go, up to the one named.
AckFrame(h, id) ==
  IF h.pictures # <<>> /\ Last(h.pictures).id >= id
  THEN [pictures |-> SubSeq(h.pictures, SelectInSeq(h.pictures, LAMBDA f : f.id >= id),
                            Len(h.pictures)),
        acked |-> TRUE]
  ELSE h

\* InboundVideoFrameHistory.GetFrameData and ClearHistoryUntilThisFrame
Find(h, id) == SelectInSeq(h, LAMBDA f : f.id = id)
ClearHistoryUntilThisFrame(h, id) == IF Find(h, id) = 0 THEN h ELSE SubSeq(h, Find(h, id), Len(h))

\* The last picture of h, encoded.
Encoded(h) ==
  LET frame == Last(h.pictures)
      reference == IF h.acked THEN Head(h.pictures) ELSE [frame EXCEPT !.picture = NoPicture]
  IN  [id |-> frame.id, ref |-> reference.id, picture |-> frame.picture, base |-> reference.picture]

\* What a packet gives, with the reference that the receiver has.
Decoded(h, packet) ==
  LET base == IF packet.ref = packet.id THEN NoPicture
              ELSE IF Find(h, packet.ref) = 0 THEN Missing ELSE h[Find(h, packet.ref)].picture
  IN  CASE base = Missing -> Missing
        [] base # Missing /\ base # packet.base -> Garbled
        [] base # Missing /\ base = packet.base -> packet.picture

\* Fault: the receiver forgets what is older than the frame, not the reference.
ReceivedForgetting(h, packet) ==
  <<[id |-> packet.id, picture |-> Decoded(h, packet)]>>

\* The receiver's history with the packet.
Received(h, packet) ==
  Append(IF packet.ref = packet.id THEN h ELSE ClearHistoryUntilThisFrame(h, packet.ref),
         [id |-> packet.id, picture |-> Decoded(h, packet)])

-----------------------------------------------------------------------------
(* The links.                                                              *)

\* A picture is sent on link l.  The sender hears in time what has arrived.
Send(l, picture) ==
  LET h == AddFrame(outbound[l], picture) IN
  /\ Len(h.pictures) <= MaxUnacked
  /\ outbound' = [outbound EXCEPT ![l] = h]
  /\ frames' = [frames EXCEPT ![l] = Append(@, Encoded(h))]

\* One of the packets arrives, and those before it never will.
Arrives(channel, l, i) == i \in DOMAIN channel[l]
After(channel, l, i) == [channel EXCEPT ![l] = SubSeq(@, i + 1, Len(@))]

Acknowledge(l, id) == acks' = [acks EXCEPT ![l] = Append(@, id)]

-----------------------------------------------------------------------------
(* The sender's program (RakClient).                                       *)

SendVideoFrame ==
  /\ "sender" \in playersById
  /\ taken < MaxPictures
  /\ taken' = taken + 1
  /\ Send("up", taken + 1)
  /\ UNCHANGED <<playersById, inbound, acks, uncompressJobs, compressJobs, shown, returns>>

OnVideoFrameAckAtSender(i) ==
  /\ Arrives(acks, "up", i)
  /\ acks' = After(acks, "up", i)
  /\ outbound' = [outbound EXCEPT !["up"] = AckFrame(@, acks["up"][i])]
  /\ UNCHANGED <<playersById, taken, inbound, frames, uncompressJobs, compressJobs, shown, returns>>

-----------------------------------------------------------------------------
(* The server (RakServer).                                                 *)

OnVideoFrame(i) ==
  /\ Len(uncompressJobs) < MaxJobs
  /\ Arrives(frames, "up", i)
  /\ frames' = After(frames, "up", i)
  /\ uncompressJobs' = Append(uncompressJobs, frames["up"][i])
  /\ UNCHANGED <<playersById, taken, outbound, inbound, acks, compressJobs, shown, returns>>

OnVideoFrameAck(i) ==
  /\ Arrives(acks, "down", i)
  /\ acks' = After(acks, "down", i)
  /\ outbound' = IF Players \subseteq playersById
                 THEN [outbound EXCEPT !["down"] = AckFrame(@, acks["down"][i])] ELSE outbound
  /\ UNCHANGED <<playersById, taken, inbound, frames, uncompressJobs, compressJobs, shown, returns>>

\* Fault: jobs of the same sender that are less recent remain.
OthersRemain(jobs) == Front(jobs)

\* The most recent job is done; those of the same players are less recent.
WithoutEarlier(jobs) == <<>>

UncompressFrame ==
  /\ uncompressJobs # <<>>
  /\ uncompressJobs' = WithoutEarlier(uncompressJobs)
  /\ IF "sender" \in playersById
     THEN LET h == Received(inbound["up"], Last(uncompressJobs)) IN
          /\ Acknowledge("up", Last(uncompressJobs).id)
          /\ inbound' = [inbound EXCEPT !["up"] = h]
          /\ compressJobs' = IF "recipient" \in playersById
                             THEN Append(compressJobs, Last(h).picture) ELSE compressJobs
     ELSE UNCHANGED <<acks, inbound, compressJobs>>
  /\ UNCHANGED <<playersById, taken, outbound, frames, shown, returns>>

CompressAndSendFrame ==
  /\ uncompressJobs = <<>> /\ compressJobs # <<>>
  /\ compressJobs' = WithoutEarlier(compressJobs)
  /\ IF Players \subseteq playersById THEN Send("down", Last(compressJobs))
     ELSE UNCHANGED <<outbound, frames>>
  /\ UNCHANGED <<playersById, taken, inbound, acks, uncompressJobs, shown, returns>>

-----------------------------------------------------------------------------
(* The recipient's program (RakClient): of the frames that it finds, it    *)
(* takes the most recent one.                                              *)

ProcessVideoFrames(i) ==
  /\ Arrives(frames, "down", i)
  /\ frames' = After(frames, "down", i)
  /\ Acknowledge("down", frames["down"][i].id)
  /\ LET h == Received(inbound["down"], frames["down"][i]) IN
     /\ inbound' = [inbound EXCEPT !["down"] = h]
     /\ shown' = Last(h).picture
  /\ UNCHANGED <<playersById, taken, outbound, uncompressJobs, compressJobs, returns>>

-----------------------------------------------------------------------------
(* Players leave and come back, with the same network id.                  *)

LinkOf(p) == IF p = "sender" THEN "up" ELSE "down"

\* Fault: the server keeps the history of what it has sent to who leaves.
RemoveNoHistory == outbound

\* "remove video history": the server's, and with the sender all that was his.
RemoveHistory == [outbound EXCEPT !["down"] = NoHistory]

OnPlayerDisconnected(p) ==
  /\ p \in playersById
  /\ returns[p] < MaxReturns[p]
  /\ playersById' = playersById \ {p}
  /\ frames' = [frames EXCEPT ![LinkOf(p)] = <<>>]
  /\ acks' = [acks EXCEPT ![LinkOf(p)] = <<>>]
  /\ outbound' = RemoveHistory
  /\ inbound' = IF p = "sender" THEN [inbound EXCEPT !["up"] = <<>>] ELSE inbound
  /\ UNCHANGED <<taken, uncompressJobs, compressJobs, shown, returns>>

\* RakClient.Connect: the program begins with new histories.
Connect(p) ==
  /\ p \notin playersById
  /\ playersById' = playersById \cup {p}
  /\ returns' = [returns EXCEPT ![p] = @ + 1]
  /\ outbound' = IF p = "sender" THEN [outbound EXCEPT !["up"] = NoHistory] ELSE outbound
  /\ inbound' = IF p = "recipient" THEN [inbound EXCEPT !["down"] = <<>>] ELSE inbound
  /\ UNCHANGED <<taken, frames, acks, uncompressJobs, compressJobs, shown>>

Next ==
  \/ SendVideoFrame \/ UncompressFrame \/ CompressAndSendFrame
  \/ \E i \in 1 .. MaxPictures :
       OnVideoFrameAckAtSender(i) \/ OnVideoFrame(i) \/ OnVideoFrameAck(i) \/ ProcessVideoFrames(i)
  \/ \E p \in Players : OnPlayerDisconnected(p) \/ Connect(p)

Spec == Init /\ [][Next]_vars

-----------------------------------------------------------------------------
(* Properties.                                                             *)

Pictures == 0 .. MaxPictures

\* Whatever is lost, whoever looks on is at the picture that the camera took:
\* both ends always decode with the reference that the picture was encoded with,
\* which the receiver still has, and no number stands for another lap's picture.
SeenAsSent ==
  /\ shown \in Pictures
  /\ \A l \in Links : \A f \in ToSet(inbound[l]) : f.picture \in Pictures

\* Nobody sees an older picture after a newer one.
PicturesAdvance == [][shown' >= shown]_vars

\* What the sender takes for arrived has arrived, and is still there: so no
\* decoder is ever without its reference, not even when the numbers begin again
\* in between.  The sender finds it because its own numbers are consecutive.
ReferenceKept ==
  \A l \in Links : LET kept == outbound[l].pictures IN
    /\ \A i \in DOMAIN kept : kept[i].id = Head(kept).id + i - 1 /\ kept[i].id < Ids
    /\ (outbound[l].acked /\ Players \subseteq playersById) => Head(kept) \in ToSet(inbound[l])

=============================================================================
