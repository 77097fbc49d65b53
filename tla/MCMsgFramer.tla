---------------------------- MODULE MCMsgFramer ----------------------------
(* Streams of up to MaxMessages messages with texts of the given lengths.  *)
(* The text of the k-th message is all k, so that texts can be told apart. *)
EXTENDS MsgFramer, SequencesExt

CONSTANTS Lengths, MaxMessages

Text(k, n) == [i \in 1 .. n |-> k]

Sent == UNION {[1 .. m -> Lengths] : m \in 1 .. MaxMessages}

FrameOf(k, n) == Framed(Text(k, n))

StreamOf(lens) == FlattenSeq([k \in DOMAIN lens |-> FrameOf(k, lens[k])])

MCStreams == {StreamOf(lens) : lens \in Sent}

MCData == 1 .. MaxMessages

ASSUME WellFramed

=============================================================================
