----------------------------- MODULE HubLinkProofs -----------------------------
(***************************************************************************)
(* Proofs about HubLink, for any number of sockets, frames, events, breaks *)
(* and failures of the store, and a queue of any length.                   *)
(*                                                                         *)
(* That nothing is lost or taken twice needs only what each side stores.   *)
(* That session frames come in order is about everything on its way: what  *)
(* the hub has obeyed, then what is on each socket, older sockets first,   *)
(* then the client's queue, is one increasing sequence.  The hub reads it  *)
(* from the front because sockets say hello in the order they were opened, *)
(* so the results about order assume ~LateHello.                           *)
(***************************************************************************)
EXTENDS HubLink, SequenceTheorems, TLAPS
LOCAL INSTANCE SequencesExt

\* The numbers of the session frames in a sequence of frames, and that they increase.
Numbers(frames) == {frames[i].n : i \in {i \in DOMAIN frames : frames[i].t = "frame"}}
Below(S, T) == \A x \in S, y \in T : x < y
InOrder(frames) ==
  \A i, j \in DOMAIN frames :
    i < j /\ frames[i].t = "frame" /\ frames[j].t = "frame" => frames[i].n < frames[j].n

\* What each frame is.
LEMMA Frames ==
  /\ \A n \in Nat : /\ SessionFrame(n) \in Frame /\ SessionFrame(n).t = "frame" /\ SessionFrame(n).n = n
                    /\ EventFrame(n) \in SentEvent /\ EventFrame(n).t = "event" /\ EventFrame(n).eventId = n
  /\ HelloFrame \in Frame /\ HbFrame \in Frame /\ HelloFrame.t # "frame" /\ HbFrame.t # "frame"
  /\ \A e \in SentEvent : e \in Frame /\ e.t = "event" /\ e.eventId \in Nat /\ e = EventFrame(e.eventId)
  /\ \A f \in Frame : /\ f.t = "frame" => f.n \in Nat
                      /\ f.t = "event" => f \in SentEvent
BY DEF SessionFrame, EventFrame, HelloFrame, HbFrame, Frame, SentEvent

\* The numbers of a sequence of frames are numbers.
LEMMA NumbersAreNat == ASSUME NEW s \in Seq(Frame) PROVE Numbers(s) \in SUBSET Nat
BY Frames, ElementOfSeq DEF Numbers

\* One frame.
LEMMA OneFrame ==
  ASSUME NEW f \in Frame
  PROVE  /\ <<f>> \in Seq(Frame) /\ InOrder(<<f>>)
         /\ Numbers(<<f>>) = IF f.t = "frame" THEN {f.n} ELSE {}
BY DEF InOrder, Numbers

\* No frame.
LEMMA NoFrame == <<>> \in Seq(Frame) /\ InOrder(<<>>) /\ Numbers(<<>>) = {}
BY DEF InOrder, Numbers

\* Events have no number.
LEMMA EventsUnnumbered ==
  ASSUME NEW s \in Seq(SentEvent)
  PROVE  s \in Seq(Frame) /\ InOrder(s) /\ Numbers(s) = {}
<1>1. \A i \in DOMAIN s : s[i] \in Frame /\ s[i].t = "event"
  BY Frames, ElementOfSeq
<1>2. s \in Seq(Frame)
  BY <1>1
<1> QED BY <1>1, <1>2 DEF InOrder, Numbers

\* Two sequences of frames, one behind the other.
LEMMA ConcatFrames ==
  ASSUME NEW s \in Seq(Frame), NEW u \in Seq(Frame)
  PROVE  /\ s \o u \in Seq(Frame) /\ Numbers(s \o u) = Numbers(s) \cup Numbers(u)
         /\ InOrder(s) /\ InOrder(u) /\ Below(Numbers(s), Numbers(u)) => InOrder(s \o u)
<1>1. /\ s \o u \in Seq(Frame) /\ Len(s \o u) = Len(s) + Len(u)
      /\ \A i \in 1..(Len(s) + Len(u)) : (s \o u)[i] = IF i <= Len(s) THEN s[i] ELSE u[i - Len(s)]
  BY ConcatProperties
<1> DEFINE w == s \o u
<1>2. /\ w \in Seq(Frame) /\ Len(w) = Len(s) + Len(u)
      /\ \A i \in 1..(Len(s) + Len(u)) : w[i] = IF i <= Len(s) THEN s[i] ELSE u[i - Len(s)]
  BY <1>1
<1> HIDE DEF w
<1>3. /\ DOMAIN w = 1..(Len(s) + Len(u)) /\ DOMAIN s = 1..Len(s) /\ DOMAIN u = 1..Len(u)
      /\ Len(s) \in Nat /\ Len(u) \in Nat
  BY <1>2
<1>4. \A i \in DOMAIN s : i \in DOMAIN w /\ w[i] = s[i]
  BY <1>2, <1>3
<1>5. \A i \in DOMAIN w : i \notin DOMAIN s => i - Len(s) \in DOMAIN u /\ w[i] = u[i - Len(s)]
  BY <1>2, <1>3
<1>6. \A i \in DOMAIN u : i + Len(s) \in DOMAIN w /\ w[i + Len(s)] = u[i]
  <2> TAKE i \in DOMAIN u
  <2>1. i \in Nat \ {0} /\ i + Len(s) \in 1..(Len(s) + Len(u)) /\ ~(i + Len(s) <= Len(s))
        /\ (i + Len(s)) - Len(s) = i
    BY <1>3
  <2> QED BY <1>2, <1>3, <2>1
<1>7. Numbers(w) = Numbers(s) \cup Numbers(u)
  <2>1. \A x \in Numbers(w) : x \in Numbers(s) \cup Numbers(u)
    BY <1>3, <1>4, <1>5, <1>6 DEF Numbers
  <2>2. \A x \in Numbers(s) \cup Numbers(u) : x \in Numbers(w)
    BY <1>3, <1>4, <1>5, <1>6 DEF Numbers
  <2> QED BY <2>1, <2>2
<1>8. ASSUME InOrder(s), InOrder(u), Below(Numbers(s), Numbers(u)) PROVE InOrder(w)
  <2> SUFFICES ASSUME NEW i \in DOMAIN w, NEW j \in DOMAIN w, i < j, w[i].t = "frame", w[j].t = "frame"
               PROVE  w[i].n < w[j].n
    BY DEF InOrder
  <2>1. CASE j \in DOMAIN s
    BY <1>3, <1>4, <1>5, <1>6, <1>8, <2>1 DEF InOrder
  <2>2. CASE i \notin DOMAIN s
    <3>1. j \notin DOMAIN s /\ i - Len(s) \in DOMAIN u /\ j - Len(s) \in DOMAIN u /\ i - Len(s) < j - Len(s)
      BY <1>3, <1>4, <1>5, <1>6, <2>2
    <3> QED BY <1>3, <1>4, <1>5, <1>6, <1>8, <2>2, <3>1 DEF InOrder
  <2>3. CASE i \in DOMAIN s /\ j \notin DOMAIN s
    <3>1. w[i].n \in Numbers(s) /\ w[j].n \in Numbers(u)
      BY <1>3, <1>4, <1>5, <1>6, <2>3 DEF Numbers
    <3> QED BY <1>8, <3>1 DEF Below
  <2> QED BY <2>1, <2>2, <2>3
<1> QED BY <1>2, <1>7, <1>8 DEF w

\* A part of a sequence of frames.
LEMMA PartOfFrames ==
  ASSUME NEW s \in Seq(Frame), NEW u \in Seq(Frame), NEW shift \in Nat,
         \A i \in DOMAIN u : i + shift \in DOMAIN s /\ u[i] = s[i + shift]
  PROVE  Numbers(u) \subseteq Numbers(s) /\ (InOrder(s) => InOrder(u))
<1>1. Numbers(u) \subseteq Numbers(s)
  BY DEF Numbers
<1>2. ASSUME InOrder(s) PROVE InOrder(u)
  <2> SUFFICES ASSUME NEW i \in DOMAIN u, NEW j \in DOMAIN u, i < j, u[i].t = "frame", u[j].t = "frame"
               PROVE  u[i].n < u[j].n
    BY DEF InOrder
  <2>1. i + shift < j + shift
    OBVIOUS
  <2> QED BY <1>2, <2>1 DEF InOrder
<1> QED BY <1>1, <1>2

\* The first frame, and the rest.
LEMMA HeadAndTail ==
  ASSUME NEW s \in Seq(Frame), s # <<>>
  PROVE  /\ Head(s) \in Frame /\ Tail(s) \in Seq(Frame)
         /\ Numbers(Tail(s)) \subseteq Numbers(s) /\ (InOrder(s) => InOrder(Tail(s)))
         /\ Head(s).t = "frame" =>
              Head(s).n \in Numbers(s) /\ (InOrder(s) => Below({Head(s).n}, Numbers(Tail(s))))
<1>1. /\ Head(s) \in Frame /\ Tail(s) \in Seq(Frame) /\ Len(Tail(s)) = Len(s) - 1 /\ Len(s) \in Nat \ {0}
      /\ \A i \in 1..Len(Tail(s)) : Tail(s)[i] = s[i + 1]
      /\ Head(s) = s[1]
  BY HeadTailProperties, EmptySeq
<1> DEFINE u == Tail(s)
<1> HIDE DEF u
<1>2. /\ u \in Seq(Frame) /\ 1 \in DOMAIN s
      /\ \A i \in DOMAIN u : i + 1 \in DOMAIN s /\ u[i] = s[i + 1] /\ 1 < i + 1
  BY <1>1 DEF u
<1>3. Numbers(u) \subseteq Numbers(s) /\ (InOrder(s) => InOrder(u))
  BY <1>2, PartOfFrames
<1>4. ASSUME Head(s).t = "frame" PROVE Head(s).n \in Numbers(s) /\ (InOrder(s) => Below({Head(s).n}, Numbers(u)))
  BY <1>1, <1>2, <1>4 DEF Numbers, InOrder, Below
<1> QED BY <1>1, <1>3, <1>4 DEF u

\* The first few frames.
LEMMA PrefixOfFrames ==
  ASSUME NEW s \in Seq(Frame), NEW k \in 0..Len(s)
  PROVE  /\ SubSeq(s, 1, k) \in Seq(Frame) /\ Numbers(SubSeq(s, 1, k)) \subseteq Numbers(s)
         /\ InOrder(s) => InOrder(SubSeq(s, 1, k))
         /\ s = <<>> => SubSeq(s, 1, k) = <<>>
<1> DEFINE u == SubSeq(s, 1, k)
<1>1. /\ u \in Seq(Frame) /\ Len(u) = k
      /\ \A i \in 1..k : u[i] = s[i]
  BY SubSeqProperties
<1> HIDE DEF u
<1>2. \A i \in DOMAIN u : i + 0 \in DOMAIN s /\ u[i] = s[i + 0]
  BY <1>1
<1>3. s = <<>> => u = <<>>
  BY <1>1, EmptySeq
<1> QED BY <1>1, <1>2, <1>3, PartOfFrames DEF u

\* The queue: a newer frame goes behind those that are left.
LEMMA QueuedFrames ==
  ASSUME NEW s \in Seq(Frame), NEW n \in Nat
  PROVE  LET q == Queued(s, SessionFrame(n))
         IN  /\ q \in Seq(Frame) /\ Numbers(q) \subseteq Numbers(s) \cup {n}
             /\ InOrder(s) /\ Below(Numbers(s), {n}) => InOrder(q)
<1> DEFINE left == IF Len(s) < MaxQueued THEN s ELSE Tail(s)
<1>1. left \in Seq(Frame) /\ Numbers(left) \subseteq Numbers(s) /\ (InOrder(s) => InOrder(left))
  <2>1. CASE Len(s) < MaxQueued
    BY <2>1
  <2>2. CASE ~(Len(s) < MaxQueued)
    <3>1. s # <<>>
      BY <2>2, HubClientAssumption
    <3> QED BY <2>2, <3>1, HeadAndTail
  <2> QED BY <2>1, <2>2
<1>2. Queued(s, SessionFrame(n)) = Append(left, SessionFrame(n))
  BY DEF Queued
<1> HIDE DEF left
<1>3. Append(left, SessionFrame(n)) = left \o <<SessionFrame(n)>>
  BY <1>1, Frames, AppendIsConcat
<1>4. /\ <<SessionFrame(n)>> \in Seq(Frame) /\ InOrder(<<SessionFrame(n)>>) /\ Numbers(<<SessionFrame(n)>>) = {n}
  <2>1. SessionFrame(n) \in Frame /\ SessionFrame(n).t = "frame" /\ SessionFrame(n).n = n
    BY Frames
  <2> QED BY <2>1, OneFrame
<1>5. Below(Numbers(s), {n}) => Below(Numbers(left), {n})
  BY <1>1 DEF Below
<1> DEFINE one == <<SessionFrame(n)>>
<1> HIDE DEF one
<1>6. /\ left \o one \in Seq(Frame) /\ Numbers(left \o one) = Numbers(left) \cup {n}
      /\ InOrder(left) /\ Below(Numbers(left), {n}) => InOrder(left \o one)
  BY <1>1, <1>4, ConcatFrames DEF one
<1> QED BY <1>1, <1>2, <1>3, <1>5, <1>6 DEF one

\* Deleting an event from the map of unacknowledged ones leaves the others.
LEMMA DeletedEvents ==
  ASSUME NEW s \in Seq(SentEvent), NEW id \in Nat
  PROVE  /\ Deleted(s, id) \in Seq(SentEvent)
         /\ \A i \in DOMAIN s : s[i].eventId # id =>
              \E j \in DOMAIN Deleted(s, id) : Deleted(s, id)[j] = s[i]
<1> DEFINE at == {i \in DOMAIN s : s[i].eventId = id}
           k == CHOOSE i \in at : TRUE
<1>1. CASE at = {}
  BY <1>1 DEF Deleted
<1>2. CASE at # {}
  <2>1. k \in DOMAIN s /\ s[k].eventId = id
    BY <1>2
  <2>2. Deleted(s, id) = RemoveAt(s, k)
    BY <1>2 DEF Deleted
  <2> HIDE DEF at, k
  <2> DEFINE front == SubSeq(s, 1, k - 1)
             back == SubSeq(s, k + 1, Len(s))
  <2>3. k \in 1..Len(s) /\ Len(s) \in Nat
    BY <2>1
  <2>4. /\ front \in Seq(SentEvent) /\ Len(front) = k - 1
        /\ \A i \in 1..(k - 1) : front[i] = s[i]
    BY <2>3, SubSeqProperties
  <2>5. /\ back \in Seq(SentEvent) /\ Len(back) = Len(s) - k
        /\ \A i \in 1..(Len(s) - k) : back[i] = s[i + k]
    BY <2>3, SubSeqProperties
  <2>6. Deleted(s, id) = front \o back
    BY <2>2 DEF RemoveAt
  <2> HIDE DEF front, back
  <2>7. /\ front \o back \in Seq(SentEvent) /\ Len(front \o back) = Len(s) - 1
        /\ \A i \in 1..(Len(s) - 1) : (front \o back)[i] = IF i <= k - 1 THEN front[i] ELSE back[i - (k - 1)]
    <3>1. /\ front \o back \in Seq(SentEvent) /\ Len(front \o back) = Len(front) + Len(back)
          /\ \A i \in 1..(Len(front) + Len(back)) :
               (front \o back)[i] = IF i <= Len(front) THEN front[i] ELSE back[i - Len(front)]
      BY <2>4, <2>5, ConcatProperties
    <3>2. Len(front) + Len(back) = Len(s) - 1
      BY <2>3, <2>4, <2>5
    <3> QED BY <2>4, <3>1, <3>2
  <2>8. ASSUME NEW i \in DOMAIN s, s[i].eventId # id
        PROVE  \E j \in DOMAIN (front \o back) : (front \o back)[j] = s[i]
    <3> DEFINE j == IF i < k THEN i ELSE i - 1
    <3>1. i # k /\ i \in 1..Len(s)
      BY <2>1, <2>8
    <3>2. j \in 1..(Len(s) - 1) /\ (front \o back)[j] = s[i]
      <4>1. CASE i < k
        <5>1. j = i /\ i \in 1..(k - 1) /\ j \in 1..(Len(s) - 1) /\ j <= k - 1
          BY <2>3, <3>1, <4>1
        <5> QED BY <2>4, <2>7, <5>1
      <4>2. CASE ~(i < k)
        <5>1. /\ j = i - 1 /\ j \in 1..(Len(s) - 1) /\ ~(j <= k - 1)
              /\ j - (k - 1) = i - k /\ i - k \in 1..(Len(s) - k) /\ (i - k) + k = i
          BY <2>3, <3>1, <4>2
        <5> QED BY <2>5, <2>7, <5>1
      <4> QED BY <4>1, <4>2
    <3>3. DOMAIN (front \o back) = 1..(Len(s) - 1)
      BY <2>7
    <3> QED BY <3>2, <3>3
  <2> QED BY <2>6, <2>7, <2>8
<1> QED BY <1>1, <1>2
-------------------------------------------------------------------------------
(***************************************************************************)
(* Types, and that nothing is lost or taken twice.                         *)
(***************************************************************************)

\* The client of the model is the one there is.
LEMMA OneClient == /\ Daemon \in Client /\ \A d \in Client : d = Daemon
                   /\ NoSocket \notin Socket /\ Socket \subseteq Nat
BY HubLinkAssumption, HubClientAssumption

\* Writing frames to a socket, or to none, keeps the types of what is on its way.
LEMMA WriteKeeps ==
  ASSUME LinkTypeOK, NEW frames \in Seq(Frame), Write(Daemon, frames)
  PROVE  up' \in [Socket -> Seq(Frame)]
<1> DEFINE k == socket[Daemon]
<1>1. up' = [up EXCEPT ![k] = up[k] \o frames] /\ up \in [Socket -> Seq(Frame)]
  BY DEF Write, LinkTypeOK
<1> HIDE DEF k
<1>2. k \in Socket => up[k] \o frames \in Seq(Frame)
  BY <1>1, ConcatFrames
<1> QED BY <1>1, <1>2

\* What the hub reads was sent, and the rest stays.
LEMMA ReadsKeeps ==
  ASSUME LinkTypeOK, NEW k \in Socket, Reads(k)
  PROVE  Head(up[k]) \in Frame /\ up' \in [Socket -> Seq(Frame)] /\ up[k] \in Seq(Frame) /\ up[k] # <<>>
         /\ up' = [up EXCEPT ![k] = Tail(up[k])]
<1>1. up[k] \in Seq(Frame) /\ up[k] # <<>> /\ up' = [up EXCEPT ![k] = Tail(up[k])]
      /\ up \in [Socket -> Seq(Frame)]
  BY DEF LinkTypeOK, Reads
<1>2. Head(up[k]) \in Frame /\ Tail(up[k]) \in Seq(Frame)
  BY <1>1, HeadAndTail
<1> QED BY <1>1, <1>2

\* The client's steps keep the types.
LEMMA ClientTypes ==
  ASSUME LinkTypeOK, Produce \/ Emit \/ Beat \/ ReadAck \/ SeeClose \/ Shutdown \/ Cut
  PROVE  LinkTypeOK'
<1>1. /\ Daemon \in Client /\ pending[Daemon] \in Seq(Frame) /\ unacked[Daemon] \in Seq(SentEvent)
      /\ unacked[Daemon] \in Seq(Frame) /\ produced + 1 \in Nat /\ emitted + 1 \in Nat
      /\ NoSocket \notin Socket
  BY OneClient, EventsUnnumbered DEF LinkTypeOK
<1>2. CASE Produce
  <2> DEFINE f == SessionFrame(produced + 1)
  <2>1. f \in Frame /\ f.t = "frame"
    BY <1>1, Frames
  <2>2. ClientSend(Daemon, f) /\ produced' = produced + 1
    BY <1>2 DEF Produce
  <2>3. <<f>> \in Seq(Frame) /\ Queued(pending[Daemon], f) \in Seq(Frame)
    BY <1>1, <2>1, OneFrame, QueuedFrames
  <2> HIDE DEF f
  <2>4. up' \in [Socket -> Seq(Frame)]
    BY <2>2, <2>3, WriteKeeps DEF ClientSend, LinkTypeOK
  <2>5. pending' \in [Client -> Seq(Frame)] /\ UNCHANGED <<unacked, socket, closed>>
    BY <2>1, <2>2, <2>3 DEF ClientSend, LinkTypeOK
  <2> QED BY <1>1, <1>2, <2>2, <2>4, <2>5 DEF Produce, LinkTypeOK, hubSide
<1>3. CASE Emit
  <2> DEFINE f == EventFrame(emitted + 1)
  <2>1. f \in SentEvent /\ f.t = "event" /\ f \in Frame
    BY <1>1, Frames
  <2>2. ClientSend(Daemon, f) /\ emitted' = emitted + 1
    BY <1>3 DEF Emit
  <2>3. <<f>> \in Seq(Frame) /\ Append(unacked[Daemon], f) \in Seq(SentEvent)
    BY <1>1, <2>1, OneFrame, AppendProperties
  <2> HIDE DEF f
  <2>4. up' \in [Socket -> Seq(Frame)]
    BY <2>2, <2>3, WriteKeeps DEF ClientSend, LinkTypeOK
  <2>5. /\ unacked' \in [Client -> Seq(SentEvent)] /\ UNCHANGED <<socket, closed>>
        /\ pending' \in [Client -> Seq(Frame)]
    BY <2>1, <2>2, <2>3 DEF ClientSend, LinkTypeOK
  <2> QED BY <1>1, <1>3, <2>2, <2>4, <2>5 DEF Emit, LinkTypeOK, hubSide
<1>4. CASE Beat
  <2>1. <<HbFrame>> \o unacked[Daemon] \in Seq(Frame)
    BY <1>1, Frames, OneFrame, ConcatFrames
  <2>2. Write(Daemon, <<HbFrame>> \o unacked[Daemon]) /\ UNCHANGED <<socket, closed, pending, unacked>>
    BY <1>4 DEF Beat, ClientHeartbeat
  <2>3. up' \in [Socket -> Seq(Frame)]
    BY <2>1, <2>2, WriteKeeps
  <2> QED BY <1>4, <2>2, <2>3 DEF Beat, LinkTypeOK, hubSide, counts
<1>5. CASE ReadAck
  <2> DEFINE k == socket[Daemon]
  <2>1. /\ k \in Socket /\ acks[k] \in Seq(Nat) /\ acks[k] # <<>>
        /\ acks' = [acks EXCEPT ![k] = Tail(acks[k])]
        /\ unacked' = [unacked EXCEPT ![Daemon] = Deleted(unacked[Daemon], Head(acks[k]))]
        /\ UNCHANGED <<socket, closed, pending, up>>
        /\ UNCHANGED <<ws, conn, got, sourceEvents, inbox, counts>>
    BY <1>1, <1>5 DEF ReadAck, ClientAcked, Connected, LinkTypeOK
  <2> HIDE DEF k
  <2>2. Tail(acks[k]) \in Seq(Nat) /\ Deleted(unacked[Daemon], Head(acks[k])) \in Seq(SentEvent)
    BY <1>1, <2>1, HeadTailProperties, DeletedEvents
  <2> QED BY <2>1, <2>2 DEF LinkTypeOK, counts
<1>6. CASE SeeClose
  <2>1. /\ UNCHANGED <<pending, unacked>> /\ UNCHANGED <<up, hubSide, counts>>
        /\ socket' = [socket EXCEPT ![Daemon] = NoSocket]
        /\ closed' \in [Client -> BOOLEAN]
    BY <1>6 DEF SeeClose, ClientLoses, LinkTypeOK
  <2> QED BY <2>1 DEF LinkTypeOK, hubSide, counts
<1>7. CASE Shutdown
  <2>1. <<>> \in Seq(Frame) /\ <<>> \in Seq(SentEvent)
    OBVIOUS
  <2> QED BY <1>7, <2>1 DEF Shutdown, ClientCloses, LinkTypeOK, hubSide, counts
<1>8. CASE Cut
  <2> DEFINE k == socket[Daemon]
  <2>1. k \in Socket /\ up[k] \in Seq(Frame)
    BY <1>1, <1>8 DEF Cut, Connected, LinkTypeOK
  <2>2. PICK n \in 0..Len(up[k]) : up' = [up EXCEPT ![k] = SubSeq(up[k], 1, n)]
    BY <1>8 DEF Cut
  <2>3. SubSeq(up[k], 1, n) \in Seq(Frame)
    BY <2>1, PrefixOfFrames
  <2> HIDE DEF k
  <2>4. up' \in [Socket -> Seq(Frame)]
    BY <2>1, <2>2, <2>3 DEF LinkTypeOK
  <2>5. /\ UNCHANGED <<pending, unacked>> /\ UNCHANGED <<hubSide, produced, emitted, failures>>
        /\ socket' = [socket EXCEPT ![Daemon] = NoSocket]
        /\ closed' \in [Client -> BOOLEAN]
    BY <1>8 DEF Cut, ClientLoses, LinkTypeOK
  <2>6. cuts' \in Nat
    BY <1>8 DEF Cut, LinkTypeOK
  <2>7. /\ socket' \in [Client -> Socket \cup {NoSocket}]
        /\ pending' \in [Client -> Seq(Frame)] /\ unacked' \in [Client -> Seq(SentEvent)]
    BY <2>5 DEF LinkTypeOK
  <2> QED BY <2>4, <2>5, <2>6, <2>7 DEF LinkTypeOK, hubSide
<1> QED BY <1>2, <1>3, <1>4, <1>5, <1>6, <1>7, <1>8

\* Everyone's steps keep the types.
LEMMA TypeStep == LinkTypeOK /\ [LinkNext]_linkVars => LinkTypeOK'
<1> SUFFICES ASSUME LinkTypeOK, [LinkNext]_linkVars PROVE LinkTypeOK'
  OBVIOUS
<1>1. CASE UNCHANGED linkVars
  BY <1>1 DEF linkVars, clientVars, hubSide, counts, LinkTypeOK
<1>2. ASSUME NEW k \in Socket, Open(k) PROVE LinkTypeOK'
  <2>1. pending[Daemon] \in Seq(Frame) /\ unacked[Daemon] \in Seq(Frame)
    BY OneClient, EventsUnnumbered DEF LinkTypeOK
  <2>2. <<HelloFrame, HbFrame>> \in Seq(Frame)
    BY Frames
  <2>3. <<HelloFrame, HbFrame>> \o pending[Daemon] \o unacked[Daemon] \in Seq(Frame)
    BY <2>1, <2>2, ConcatFrames
  <2>4. up' = [up EXCEPT ![k] = <<HelloFrame, HbFrame>> \o pending[Daemon] \o unacked[Daemon]]
    BY <1>2 DEF Open, ClientOpens
  <2>5. up' \in [Socket -> Seq(Frame)]
    BY <2>3, <2>4 DEF LinkTypeOK
  <2>6. /\ socket' = [socket EXCEPT ![Daemon] = k] /\ pending' = [pending EXCEPT ![Daemon] = <<>>]
        /\ UNCHANGED <<closed, unacked>> /\ ws' = [ws EXCEPT ![k] = "open"]
        /\ UNCHANGED <<conn, acks, got, sourceEvents, inbox, counts>>
    BY <1>2 DEF Open, ClientOpens
  <2>7. <<>> \in Seq(Frame)
    OBVIOUS
  <2> QED BY <2>5, <2>6, <2>7 DEF LinkTypeOK, counts
<1>3. ASSUME NEW k \in Socket, HubReads(k) PROVE LinkTypeOK'
  <2> DEFINE frame == Head(up[k])
  <2>1. frame \in Frame /\ up' \in [Socket -> Seq(Frame)]
    BY <1>3, ReadsKeeps DEF HubReads
  <2>2. UNCHANGED <<socket, closed, pending, unacked, produced, emitted, cuts>>
    BY <1>3 DEF HubReads
  <2>3. CASE frame.t = "hello" /\ Hello(k)
    BY <2>1, <2>2, <2>3 DEF Hello, LinkTypeOK
  <2>4. CASE UNCHANGED <<hubSide, failures>> \/ StoreFails
    <3>1. UNCHANGED hubSide /\ failures' \in Nat
      BY <2>4 DEF StoreFails, LinkTypeOK
    <3> QED BY <2>1, <2>2, <3>1 DEF hubSide, LinkTypeOK
  <2>5. CASE frame.t = "frame" /\ Obey(frame.n)
    <3>1. frame.n \in Nat
      BY <2>1, <2>5, Frames
    <3>2. Append(got, frame.n) \in Seq(Nat)
      BY <3>1, AppendProperties DEF LinkTypeOK
    <3> QED BY <2>1, <2>2, <2>5, <3>2 DEF Obey, LinkTypeOK
  <2>6. CASE frame.t = "event" /\ Commit(k, frame.eventId)
    <3> DEFINE e == frame.eventId
    <3>1. e \in Nat
      BY <2>1, <2>6, Frames
    <3> HIDE DEF e
    <3>2. Append(inbox, e) \in Seq(Nat) /\ Append(acks[k], e) \in Seq(Nat)
      BY <3>1, AppendProperties DEF LinkTypeOK
    <3>3. /\ sourceEvents' = sourceEvents \cup {e} /\ inbox' \in {inbox, Append(inbox, e)}
          /\ acks' = [acks EXCEPT ![k] = Append(acks[k], e)]
          /\ UNCHANGED <<ws, conn, got, failures>>
      BY <2>6 DEF Commit, e
    <3> QED BY <2>1, <2>2, <3>1, <3>2, <3>3 DEF LinkTypeOK
  <2> QED BY <1>3, <2>3, <2>4, <2>5, <2>6 DEF HubReads
<1>4. ASSUME NEW k \in Socket, HubSeesClose(k) PROVE LinkTypeOK'
  BY <1>4 DEF HubSeesClose, clientVars, counts, LinkTypeOK
<1>5. CASE Sweep
  BY <1>5 DEF Sweep, clientVars, LinkTypeOK
<1> QED BY <1>1, <1>2, <1>3, <1>4, <1>5, ClientTypes DEF LinkNext, Work

\* Nothing has happened yet.
LEMMA InitTyped == LinkInit => LinkTypeOK
<1>1. <<>> \in Seq(Frame) /\ <<>> \in Seq(SentEvent) /\ <<>> \in Seq(Nat)
  OBVIOUS
<1> QED BY <1>1, HubLinkAssumption DEF LinkInit, ClientInit, LinkTypeOK

\* An event the client has not been told is committed is still with it, unless it is out of
\* service; the hub acknowledges, and puts into an inbox, what it has a receipt of, once.
Held(e) == \E i \in DOMAIN unacked[Daemon] : unacked[Daemon][i] = EventFrame(e)
EventsValid ==
  /\ \A e \in 1..emitted : e \in sourceEvents \/ closed[Daemon] \/ Held(e)
  /\ \A k \in Socket : \A i \in DOMAIN acks[k] : acks[k][i] \in sourceEvents
  /\ \A i \in DOMAIN inbox : inbox[i] \in sourceEvents
  /\ \A i, j \in DOMAIN inbox : inbox[i] = inbox[j] => i = j

\* The steps that take nothing from either store.
LEMMA EventsStay ==
  ASSUME EventsValid, UNCHANGED <<emitted, unacked, sourceEvents, inbox, acks>>,
         closed[Daemon] => closed'[Daemon]
  PROVE  EventsValid'
BY DEF EventsValid, Held

\* Every step keeps the events.
LEMMA EventsStep == LinkTypeOK /\ EventsValid /\ [LinkNext]_linkVars => EventsValid'
<1> SUFFICES ASSUME LinkTypeOK, EventsValid, [LinkNext]_linkVars PROVE EventsValid'
  OBVIOUS
<1>1. /\ unacked \in [Client -> Seq(SentEvent)] /\ unacked[Daemon] \in Seq(SentEvent) /\ Daemon \in Client
      /\ closed \in [Client -> BOOLEAN] /\ acks \in [Socket -> Seq(Nat)] /\ emitted \in Nat
  BY OneClient DEF LinkTypeOK
<1>2. CASE UNCHANGED linkVars
  BY <1>2, EventsStay DEF linkVars, clientVars, hubSide, counts
<1>3. CASE Produce
  <2>1. SessionFrame(produced').t # "event"
    BY DEF SessionFrame
  <2> QED BY <1>3, <2>1, EventsStay DEF Produce, ClientSend, hubSide
<1>4. CASE Emit
  <2> PICK n \in Nat : n = emitted + 1
    BY <1>1
  <2> DEFINE f == EventFrame(n)
             u == Append(unacked[Daemon], f)
  <2>1. f \in SentEvent /\ f.t = "event"
    BY <1>1, Frames
  <2>2. /\ unacked' = [unacked EXCEPT ![Daemon] = u] /\ emitted' = n
        /\ UNCHANGED closed /\ UNCHANGED hubSide
    BY <1>4, <2>1 DEF Emit, ClientSend
  <2>3. /\ u \in Seq(SentEvent) /\ Len(u) = Len(unacked[Daemon]) + 1
        /\ \A i \in 1..Len(unacked[Daemon]) : u[i] = unacked[Daemon][i]
        /\ u[Len(unacked[Daemon]) + 1] = f
    BY <1>1, <2>1, AppendProperties
  <2> HIDE DEF u
  <2>4. unacked'[Daemon] = u
    BY <1>1, <2>2
  <2>5. \A i \in DOMAIN unacked[Daemon] : i \in DOMAIN u /\ u[i] = unacked[Daemon][i]
    BY <1>1, <2>3
  <2>6. \A e \in 1..emitted : Held(e) => \E i \in DOMAIN u : u[i] = EventFrame(e)
    BY <2>5 DEF Held
  <2>7. \E i \in DOMAIN u : u[i] = EventFrame(n)
    BY <1>1, <2>3
  <2>8. \A e \in 1..n : e \in sourceEvents \/ closed[Daemon] \/ \E i \in DOMAIN u : u[i] = EventFrame(e)
    <3>1. \A e \in 1..n : e \in 1..emitted \/ e = n
      BY <1>1
    <3> QED BY <2>6, <2>7, <3>1 DEF EventsValid
  <2> QED BY <2>2, <2>4, <2>8 DEF EventsValid, hubSide, Held
<1>5. CASE Beat
  BY <1>5, EventsStay DEF Beat, ClientHeartbeat, hubSide, counts
<1>6. CASE ReadAck
  <2> DEFINE k == socket[Daemon]
             id == Head(acks[k])
             u == Deleted(unacked[Daemon], id)
  <2>1. /\ k \in Socket /\ acks[k] \in Seq(Nat) /\ acks[k] # <<>>
        /\ acks' = [acks EXCEPT ![k] = Tail(acks[k])]
        /\ unacked' = [unacked EXCEPT ![Daemon] = u]
        /\ UNCHANGED <<sourceEvents, inbox, closed, emitted>>
    BY <1>1, <1>6, OneClient DEF ReadAck, ClientAcked, Connected, LinkTypeOK, counts
  <2>2. /\ \A i \in DOMAIN unacked[Daemon] : unacked[Daemon][i].eventId # id =>
             \E j \in DOMAIN u : u[j] = unacked[Daemon][i]
    <3> DEFINE s == unacked[Daemon]
    <3> HIDE DEF id, s, k
    <3>1. s \in Seq(SentEvent) /\ id \in Nat
      BY <1>1, <2>1, HeadTailProperties DEF s, id, k
    <3>2. \A i \in DOMAIN s : s[i].eventId # id => \E j \in DOMAIN Deleted(s, id) : Deleted(s, id)[j] = s[i]
      BY <3>1, DeletedEvents
    <3> QED BY <3>2 DEF s
  <2>3. /\ id = acks[k][1] /\ 1 \in DOMAIN acks[k] /\ Tail(acks[k]) \in Seq(Nat)
        /\ \A i \in DOMAIN Tail(acks[k]) : i + 1 \in DOMAIN acks[k] /\ Tail(acks[k])[i] = acks[k][i + 1]
    <3> DEFINE s == acks[k]
    <3> HIDE DEF s, k
    <3>1. /\ s \in Seq(Nat) /\ s # <<>>
      BY <2>1 DEF s
    <3>2. /\ Head(s) = s[1] /\ Tail(s) \in Seq(Nat) /\ Len(Tail(s)) = Len(s) - 1 /\ Len(s) \in Nat \ {0}
          /\ \A i \in 1..Len(Tail(s)) : Tail(s)[i] = s[i + 1]
      BY <3>1, HeadTailProperties, EmptySeq
    <3> QED BY <3>1, <3>2 DEF s
  <2> HIDE DEF k, id, u
  <2>4. id \in sourceEvents
    BY <2>1, <2>3 DEF EventsValid
  <2>5. unacked'[Daemon] = u
    BY <1>1, <2>1
  <2>6. \A e \in 1..emitted : Held(e) /\ e # id => Held(e)'
    <3>1. \A e \in 1..emitted : EventFrame(e).eventId = e
      BY DEF EventFrame
    <3> QED BY <2>2, <2>5, <3>1 DEF Held
  <2>7. \A j \in Socket : \A i \in DOMAIN acks'[j] : acks'[j][i] \in sourceEvents
    <3> TAKE j \in Socket
    <3>1. CASE j = k
      <4>1. acks'[j] = Tail(acks[k])
        BY <1>1, <2>1, <3>1
      <4> QED BY <2>1, <2>3, <4>1 DEF EventsValid
    <3>2. CASE j # k
      <4>1. acks'[j] = acks[j]
        BY <1>1, <2>1, <3>2
      <4> QED BY <4>1 DEF EventsValid
    <3> QED BY <3>1, <3>2
  <2> QED BY <2>1, <2>4, <2>6, <2>7 DEF EventsValid
<1>7. CASE SeeClose
  BY <1>1, <1>7, EventsStay DEF SeeClose, ClientLoses, hubSide, counts
<1>8. CASE Shutdown
  <2>1. closed'[Daemon] /\ UNCHANGED <<hubSide, counts>>
    BY <1>1, <1>8 DEF Shutdown, ClientCloses
  <2> QED BY <2>1 DEF EventsValid, hubSide, counts
<1>9. CASE Cut
  BY <1>1, <1>9, EventsStay DEF Cut, ClientLoses, hubSide
<1>10. ASSUME NEW k \in Socket, Open(k) PROVE EventsValid'
  BY <1>10, EventsStay DEF Open, ClientOpens, counts
<1>11. ASSUME NEW k \in Socket, HubReads(k) PROVE EventsValid'
  <2> DEFINE frame == Head(up[k])
             e == frame.eventId
  <2>1. UNCHANGED <<closed, unacked, emitted>> /\ frame \in Frame
    BY <1>11, ReadsKeeps DEF HubReads
  <2>2. CASE Hello(k) \/ UNCHANGED <<hubSide, failures>> \/ StoreFails \/ Obey(frame.n)
    BY <2>1, <2>2, EventsStay DEF Hello, StoreFails, Obey, hubSide
  <2>3. CASE frame.t = "event" /\ Commit(k, e)
    <3>1. e \in Nat
      BY <2>1, <2>3, Frames
    <3> HIDE DEF e
    <3>2. /\ sourceEvents' = sourceEvents \cup {e}
          /\ inbox' = IF e \in sourceEvents THEN inbox ELSE Append(inbox, e)
          /\ acks' = [acks EXCEPT ![k] = Append(acks[k], e)]
      BY <2>3 DEF Commit
    <3>3. /\ acks[k] \in Seq(Nat) /\ inbox \in Seq(Nat) /\ Len(acks[k]) \in Nat /\ Len(inbox) \in Nat
      BY <1>1 DEF LinkTypeOK
    <3>4. \A i \in DOMAIN Append(acks[k], e) :
            (i \in DOMAIN acks[k] /\ Append(acks[k], e)[i] = acks[k][i]) \/ Append(acks[k], e)[i] = e
      BY <3>1, <3>3, AppendProperties
    <3>5. \A j \in Socket : \A i \in DOMAIN acks'[j] : acks'[j][i] \in sourceEvents'
      BY <1>1, <3>2, <3>4 DEF EventsValid
    <3>6. CASE e \in sourceEvents
      BY <2>1, <3>2, <3>5, <3>6 DEF EventsValid, Held
    <3>7. CASE e \notin sourceEvents
      <4> DEFINE s == Append(inbox, e)
      <4>1. /\ DOMAIN s = 1..(Len(inbox) + 1) /\ DOMAIN inbox = 1..Len(inbox)
            /\ \A i \in DOMAIN inbox : s[i] = inbox[i]
            /\ s[Len(inbox) + 1] = e
        BY <3>1, <3>3, AppendProperties
      <4>2. \A i \in DOMAIN inbox : inbox[i] # e /\ inbox[i] \in sourceEvents
        BY <3>7 DEF EventsValid
      <4>3. inbox' = s
        BY <3>2, <3>7
      <4> HIDE DEF s
      <4>4. \A i \in DOMAIN s : i \in DOMAIN inbox \/ i = Len(inbox) + 1
        BY <3>3, <4>1
      <4>5. \A i \in DOMAIN s : s[i] \in sourceEvents'
        BY <3>2, <4>1, <4>2, <4>4
      <4>6. \A i, j \in DOMAIN s : s[i] = s[j] => i = j
        BY <4>1, <4>2, <4>4 DEF EventsValid
      <4> QED BY <2>1, <3>2, <3>5, <4>3, <4>5, <4>6 DEF EventsValid, Held
    <3> QED BY <3>6, <3>7
  <2> QED BY <1>11, <2>2, <2>3 DEF HubReads
<1>12. ASSUME NEW k \in Socket, HubSeesClose(k) PROVE EventsValid'
  BY <1>12, EventsStay DEF HubSeesClose, clientVars, counts
<1>13. CASE Sweep
  BY <1>13, EventsStay DEF Sweep, clientVars
<1> QED BY <1>2, <1>3, <1>4, <1>5, <1>6, <1>7, <1>8, <1>9, <1>10, <1>11, <1>12, <1>13 DEF LinkNext, Work

\* Nothing was emitted, acknowledged or committed yet.
LEMMA InitEvents == LinkInit => EventsValid
BY DEF LinkInit, EventsValid

\* The client, the hub and what is between them keep their types, over any number of
\* connections.
THEOREM LinkTypeCorrect == LinkSpec => []LinkTypeOK
BY InitTyped, TypeStep, PTL DEF LinkSpec

\* No event is lost between the two stores, and none comes into an inbox twice: whatever is
\* cut, swept, resent or acknowledged late, however often the store fails, and whichever
\* hello comes first (HubClient's #unackedEvents, the receipts of fleet-state.ts).
THEOREM KeptUntilCommittedCorrect == LinkSpec => []KeptUntilCommitted
<1>1. EventsValid => KeptUntilCommitted
  BY DEF EventsValid, Held, KeptUntilCommitted
<1> QED BY <1>1, InitTyped, InitEvents, TypeStep, EventsStep, PTL DEF LinkSpec
-------------------------------------------------------------------------------
(***************************************************************************)
(* Which sockets are whose, and how far.                                   *)
(***************************************************************************)

\* One socket at most is registered; sockets are opened in order, the client's is the
\* newest, and while it has one nothing is queued.
SocketsValid ==
  /\ conn \in Socket => ws[conn] = "agent"
  /\ \A k \in Socket : ws[k] = "agent" => conn = k
  /\ \A j, k \in Socket : j < k /\ ws[k] # "unused" => ws[j] # "unused"
  /\ socket[Daemon] \in Socket => /\ ws[socket[Daemon]] # "unused"
                                  /\ \A k \in Socket : k > socket[Daemon] => ws[k] = "unused"
                                  /\ pending[Daemon] = <<>>
  /\ \A k \in Socket : ws[k] = "unused" => up[k] = <<>>

\* When hellos come in order, an older socket than the registered one has nothing more to
\* say, and the client's socket has not been replaced.
HellosValid ==
  /\ conn \in Socket => \A j \in Socket : j < conn /\ ws[j] = "open" => up[j] = <<>>
  /\ socket[Daemon] \in Socket => ws[socket[Daemon]] # "replaced"

\* The steps that open, register and end no socket.
LEMMA SocketsStay ==
  ASSUME SocketsValid, HellosValid, LinkTypeOK, UNCHANGED <<ws, conn>>,
         socket'[Daemon] \in {socket[Daemon], NoSocket},
         socket'[Daemon] \in Socket => pending'[Daemon] = <<>>,
         \A k \in Socket : up[k] = <<>> /\ k # socket[Daemon] => up'[k] = <<>>
  PROVE  SocketsValid' /\ HellosValid'
<1>1. NoSocket \notin Socket /\ Socket \subseteq Nat
  BY OneClient
<1>2. \A k \in Socket : ws[k] = "unused" => up'[k] = <<>>
  BY DEF SocketsValid
<1>3. SocketsValid'
  BY <1>1, <1>2 DEF SocketsValid
<1>4. ASSUME conn \in Socket, NEW j \in Socket, j < conn, ws[j] = "open" PROVE up'[j] = <<>>
  <2>1. up[j] = <<>>
    BY <1>4 DEF HellosValid
  <2>2. socket[Daemon] \in Socket => ~(conn > socket[Daemon])
    BY <1>4 DEF SocketsValid
  <2>3. j # socket[Daemon]
    BY <1>1, <1>4, <2>2
  <2> QED BY <2>1, <2>3
<1>5. socket'[Daemon] \in Socket => ws[socket'[Daemon]] # "replaced"
  BY <1>1 DEF HellosValid
<1> QED BY <1>3, <1>4, <1>5 DEF HellosValid

\* Frames written to the client's socket leave the other sockets alone.
LEMMA WriteElsewhere ==
  ASSUME LinkTypeOK, NEW frames, Write(Daemon, frames)
  PROVE  \A k \in Socket : k # socket[Daemon] => up'[k] = up[k]
BY DEF Write, LinkTypeOK

\* The client's steps keep the sockets.
LEMMA ClientSockets ==
  ASSUME SocketsValid, HellosValid, LinkTypeOK,
         Produce \/ Emit \/ Beat \/ ReadAck \/ SeeClose \/ Shutdown \/ Cut
  PROVE  SocketsValid' /\ HellosValid'
<1>1. /\ Daemon \in Client /\ NoSocket \notin Socket /\ up \in [Socket -> Seq(Frame)]
      /\ socket \in [Client -> Socket \cup {NoSocket}] /\ pending \in [Client -> Seq(Frame)]
      /\ socket[Daemon] \in Socket => pending[Daemon] = <<>>
  BY OneClient DEF LinkTypeOK, SocketsValid
<1>2. CASE Produce \/ Emit
  <2>1. PICK f : ClientSend(Daemon, f) /\ UNCHANGED hubSide
    BY <1>2 DEF Produce, Emit
  <2>2. \A k \in Socket : k # socket[Daemon] => up'[k] = up[k]
    BY <2>1, WriteElsewhere DEF ClientSend
  <2>3. socket'[Daemon] = socket[Daemon] /\ (socket'[Daemon] \in Socket => pending'[Daemon] = <<>>)
    BY <1>1, <2>1 DEF ClientSend, Connected
  <2> QED BY <2>1, <2>2, <2>3, SocketsStay DEF hubSide
<1>3. CASE Beat
  <2>1. \A k \in Socket : k # socket[Daemon] => up'[k] = up[k]
    BY <1>3, WriteElsewhere DEF Beat, ClientHeartbeat
  <2> QED BY <1>1, <1>3, <2>1, SocketsStay DEF Beat, ClientHeartbeat, hubSide
<1>4. CASE ReadAck
  BY <1>1, <1>4, SocketsStay DEF ReadAck, ClientAcked
<1>5. CASE SeeClose \/ Shutdown
  <2>1. socket'[Daemon] = NoSocket /\ UNCHANGED up /\ UNCHANGED hubSide
    BY <1>1, <1>5 DEF SeeClose, ClientLoses, Shutdown, ClientCloses
  <2> QED BY <1>1, <2>1, SocketsStay DEF hubSide
<1>6. CASE Cut
  <2> DEFINE k == socket[Daemon]
  <2>1. PICK n \in 0..Len(up[k]) : up' = [up EXCEPT ![k] = SubSeq(up[k], 1, n)]
    BY <1>6 DEF Cut
  <2>2. socket'[Daemon] = NoSocket /\ UNCHANGED hubSide
    BY <1>1, <1>6 DEF Cut, ClientLoses
  <2> QED BY <1>1, <2>1, <2>2, SocketsStay DEF hubSide
<1> QED BY <1>2, <1>3, <1>4, <1>5, <1>6

\* Every step keeps the sockets, as long as hellos come in order.
LEMMA SocketsStep ==
  ASSUME ~LateHello, SocketsValid, HellosValid, LinkTypeOK, [LinkNext]_linkVars
  PROVE  SocketsValid' /\ HellosValid'
<1>1. /\ Daemon \in Client /\ NoSocket \notin Socket /\ Socket \subseteq Nat
      /\ up \in [Socket -> Seq(Frame)] /\ conn \in Socket \cup {NoSocket}
      /\ socket \in [Client -> Socket \cup {NoSocket}] /\ pending \in [Client -> Seq(Frame)]
      /\ ws \in [Socket -> {"unused", "open", "agent", "replaced", "closed"}]
      /\ socket[Daemon] \in Socket => pending[Daemon] = <<>>
  BY OneClient DEF LinkTypeOK, SocketsValid
<1>2. CASE UNCHANGED linkVars
  BY <1>1, <1>2, SocketsStay DEF linkVars, clientVars, hubSide
<1>3. ASSUME NEW k \in Socket, Open(k) PROVE SocketsValid' /\ HellosValid'
  <2>1. /\ ws[k] = "unused" /\ \A j \in Socket : j < k => ws[j] # "unused"
        /\ ~Connected(Daemon) /\ socket'[Daemon] = k /\ pending'[Daemon] = <<>>
        /\ ws'[k] = "open" /\ (\A j \in Socket \ {k} : ws'[j] = ws[j] /\ up'[j] = up[j])
        /\ conn' = conn
    BY <1>1, <1>3 DEF Open, ClientOpens
  <2>2. \A j \in Socket : j > k => ws[j] = "unused"
    BY <1>1, <2>1 DEF SocketsValid
  <2>3. conn \in Socket => conn # k /\ ~(k < conn)
    BY <2>1, <2>2 DEF SocketsValid
  <2>4. SocketsValid'
    BY <1>1, <2>1, <2>2, <2>3 DEF SocketsValid
  <2>5. HellosValid'
    BY <1>1, <2>1, <2>3 DEF HellosValid
  <2> QED BY <2>4, <2>5
<1>4. ASSUME NEW k \in Socket, HubReads(k) PROVE SocketsValid' /\ HellosValid'
  <2>1. /\ up[k] # <<>> /\ up' = [up EXCEPT ![k] = Tail(up[k])] /\ UNCHANGED <<socket, pending>>
    BY <1>4 DEF HubReads, Reads
  <2>2. \A j \in Socket : up[j] = <<>> => up'[j] = <<>>
    BY <1>1, <2>1
  <2>3. CASE UNCHANGED <<ws, conn>>
    BY <1>1, <2>1, <2>2, <2>3, SocketsStay
  <2>4. CASE Hello(k)
    <3>1. /\ ws[k] = "open" /\ conn' = k /\ conn # k
          /\ \A j \in Socket : j < k => ws[j] # "open" \/ up[j] = <<>>
      BY <2>4 DEF Hello, SocketsValid
    <3>2. /\ ws'[k] = "agent"
          /\ \A j \in Socket \ {k} : ws'[j] = IF j = conn THEN "replaced" ELSE ws[j]
      BY <1>1, <2>4, <3>1 DEF Hello
    <3>3. conn \in Socket => ws[conn] = "agent"
      BY DEF SocketsValid
    <3>4. \A j \in Socket \ {k} : ws'[j] # "agent"
      BY <3>1, <3>2 DEF SocketsValid
    <3>5. \A j \in Socket : ws'[j] = "unused" <=> ws[j] = "unused"
      BY <1>1, <3>1, <3>2, <3>3
    <3>6. SocketsValid'
      BY <1>1, <2>1, <2>2, <3>1, <3>2, <3>4, <3>5 DEF SocketsValid
    <3>7. \A j \in Socket : j < k /\ ws'[j] = "open" => up'[j] = <<>>
      BY <1>1, <2>1, <2>2, <3>1, <3>2
    <3>8. ASSUME socket[Daemon] \in Socket PROVE ws'[socket[Daemon]] # "replaced"
      <4>1. ~(k > socket[Daemon])
        BY <3>1, <3>8 DEF SocketsValid
      <4>2. conn # socket[Daemon]
        BY <1>1, <2>1, <3>1, <3>8, <4>1 DEF HellosValid
      <4> QED BY <3>2, <3>8, <4>2 DEF HellosValid
    <3> QED BY <2>1, <3>1, <3>6, <3>7, <3>8 DEF HellosValid
  <2> QED BY <1>4, <2>3, <2>4 DEF HubReads, Obey, Commit, StoreFails, hubSide
<1>5. ASSUME NEW k \in Socket, HubSeesClose(k) PROVE SocketsValid' /\ HellosValid'
  <2>1. /\ ws[k] \in {"open", "agent"} /\ ws'[k] = "closed" /\ (\A j \in Socket \ {k} : ws'[j] = ws[j])
        /\ conn' = (IF conn = k THEN NoSocket ELSE conn) /\ UNCHANGED <<socket, pending, up>>
    BY <1>1, <1>5 DEF HubSeesClose, clientVars
  <2>2. \A j \in Socket : ws'[j] = "unused" <=> ws[j] = "unused"
    BY <2>1
  <2>3. SocketsValid'
    BY <1>1, <2>1, <2>2 DEF SocketsValid
  <2>4. HellosValid'
    BY <1>1, <2>1 DEF HellosValid
  <2> QED BY <2>3, <2>4
<1>6. CASE Sweep
  <2>1. /\ conn \in Socket /\ ws'[conn] = "closed" /\ (\A j \in Socket \ {conn} : ws'[j] = ws[j])
        /\ conn' = NoSocket /\ UNCHANGED <<socket, pending, up>> /\ ws[conn] = "agent"
    BY <1>1, <1>6 DEF Sweep, clientVars, SocketsValid
  <2>2. \A j \in Socket : ws'[j] = "unused" <=> ws[j] = "unused"
    BY <2>1
  <2>3. SocketsValid'
    BY <1>1, <2>1, <2>2 DEF SocketsValid
  <2>4. HellosValid'
    BY <1>1, <2>1 DEF HellosValid
  <2> QED BY <2>3, <2>4
<1> QED BY <1>2, <1>3, <1>4, <1>5, <1>6, ClientSockets DEF LinkNext, Work
-------------------------------------------------------------------------------
(***************************************************************************)
(* The order of session frames.                                            *)
(***************************************************************************)

\* A socket the hub may still listen to, and the numbers of what it has obeyed.
Speaks(k) == ws[k] \in {"open", "agent"}
GotNumbers == {got[i] : i \in DOMAIN got}

\* Obeyed frames, then those on the sockets, older sockets first, then the queued ones:
\* every number is larger than those before it, and none is larger than what was produced.
OrderValid ==
  /\ FramesInOrder /\ InOrder(pending[Daemon]) /\ (\A k \in Socket : InOrder(up[k]))
  /\ \A k \in Socket : Speaks(k) => Below(GotNumbers, Numbers(up[k]))
  /\ \A j, k \in Socket : j < k => Below(Numbers(up[j]), Numbers(up[k]))
  /\ \A k \in Socket : Below(Numbers(up[k]), Numbers(pending[Daemon]))
  /\ Below(GotNumbers, Numbers(pending[Daemon]))
  /\ \A k \in Socket : Numbers(up[k]) \subseteq 1..produced
  /\ GotNumbers \subseteq 1..produced /\ Numbers(pending[Daemon]) \subseteq 1..produced

\* The steps that lose frames at most.
LEMMA OrderStays ==
  ASSUME OrderValid, UNCHANGED got, produced \in Nat, produced' \in Nat, produced <= produced',
         InOrder(pending'[Daemon]), Numbers(pending'[Daemon]) \subseteq Numbers(pending[Daemon]),
         \A k \in Socket : InOrder(up'[k]) /\ Numbers(up'[k]) \subseteq Numbers(up[k]),
         \A k \in Socket : Speaks(k)' => Speaks(k) \/ Numbers(up'[k]) = {}
  PROVE  OrderValid'
<1>1. \A n \in 1..produced : n \in 1..produced'
  OBVIOUS
<1>2. GotNumbers' = GotNumbers /\ FramesInOrder'
  BY DEF GotNumbers, OrderValid, FramesInOrder
<1>3. \A k \in Socket : Speaks(k)' => Below(GotNumbers, Numbers(up'[k]))
  BY DEF OrderValid, Below
<1>4. /\ \A j, k \in Socket : j < k => Below(Numbers(up'[j]), Numbers(up'[k]))
      /\ \A k \in Socket : Below(Numbers(up'[k]), Numbers(pending'[Daemon]))
      /\ Below(GotNumbers, Numbers(pending'[Daemon]))
  BY DEF OrderValid, Below
<1>5. /\ \A k \in Socket : Numbers(up'[k]) \subseteq 1..produced'
      /\ GotNumbers \subseteq 1..produced' /\ Numbers(pending'[Daemon]) \subseteq 1..produced'
  BY <1>1 DEF OrderValid
<1> QED BY <1>2, <1>3, <1>4, <1>5 DEF OrderValid

\* A new session frame goes to the end of all, or is dropped.
LEMMA ProduceOrder ==
  ASSUME OrderValid, SocketsValid, LinkTypeOK, Produce
  PROVE  OrderValid'
<1> PICK n \in Nat : n = produced + 1
  BY DEF LinkTypeOK
<1> DEFINE f == SessionFrame(n)
<1>1. /\ Daemon \in Client /\ NoSocket \notin Socket /\ Socket \subseteq Nat /\ produced \in Nat
      /\ up \in [Socket -> Seq(Frame)] /\ pending \in [Client -> Seq(Frame)]
      /\ socket[Daemon] \in Socket \cup {NoSocket} /\ pending[Daemon] \in Seq(Frame)
  BY OneClient DEF LinkTypeOK
<1>2. f \in Frame /\ f.t = "frame" /\ f.n = n
  BY Frames
<1>3. ClientSend(Daemon, f) /\ produced' = n /\ UNCHANGED <<ws, got>>
  BY DEF Produce, hubSide
<1>4. \A k \in Socket : Speaks(k)' <=> Speaks(k)
  BY <1>3 DEF Speaks
<1>5. GotNumbers' = GotNumbers /\ FramesInOrder'
  BY <1>3 DEF GotNumbers, OrderValid, FramesInOrder
<1> HIDE DEF f
<1>6. CASE closed[Daemon]
  <2>1. UNCHANGED <<pending, up>>
    BY <1>3, <1>6 DEF ClientSend
  <2> QED BY <1>1, <1>3, <1>4, <2>1, OrderStays DEF OrderValid
<1>7. CASE ~closed[Daemon] /\ Connected(Daemon)
  <2> DEFINE k == socket[Daemon]
  <2>1. k \in Socket /\ up' = [up EXCEPT ![k] = up[k] \o <<f>>] /\ UNCHANGED pending
    BY <1>1, <1>3, <1>7 DEF ClientSend, Connected, Write
  <2>2. pending[Daemon] = <<>> /\ \A j \in Socket : j > k => up[j] = <<>>
    BY <2>1 DEF SocketsValid
  <2> HIDE DEF k
  <2>3. Numbers(pending[Daemon]) = {} /\ \A j \in Socket : j > k => Numbers(up[j]) = {}
    BY <2>2, NoFrame
  <2>4. <<f>> \in Seq(Frame) /\ InOrder(<<f>>) /\ Numbers(<<f>>) = {n}
    BY <1>2, OneFrame
  <2>5. Below(Numbers(up[k]), {n})
    BY <1>1, <2>1 DEF OrderValid, Below
  <2>6. /\ up[k] \in Seq(Frame) /\ InOrder(up[k])
    BY <1>1, <2>1 DEF OrderValid
  <2>7. Numbers(up[k] \o <<f>>) = Numbers(up[k]) \cup {n} /\ InOrder(up[k] \o <<f>>)
    <3> DEFINE one == <<f>>
    <3> HIDE DEF one
    <3>1. Numbers(up[k] \o one) = Numbers(up[k]) \cup {n} /\ InOrder(up[k] \o one)
      BY <2>4, <2>5, <2>6, ConcatFrames DEF one
    <3> QED BY <3>1 DEF one
  <2>8. /\ InOrder(up'[k]) /\ Numbers(up'[k]) = Numbers(up[k]) \cup {n}
        /\ \A j \in Socket \ {k} : up'[j] = up[j]
    BY <1>1, <2>1, <2>7
  <2>9. \A j \in Socket : InOrder(up'[j])
    BY <2>8 DEF OrderValid
  <2>10. \A j \in Socket : Speaks(j) => Below(GotNumbers, Numbers(up'[j]))
    <3>1. Below(GotNumbers, {n})
      BY <1>1 DEF OrderValid, Below
    <3> QED BY <2>8, <3>1 DEF OrderValid, Below
  <2>11. \A i, j \in Socket : i < j => Below(Numbers(up'[i]), Numbers(up'[j]))
    <3>1. \A i \in Socket : Below(Numbers(up[i]), {n})
      BY <1>1 DEF OrderValid, Below
    <3> QED BY <1>1, <2>1, <2>3, <2>8, <3>1 DEF OrderValid, Below
  <2>12. n \in 1..n /\ \A m \in 1..produced : m \in 1..n
    BY <1>1
  <2>13. \A j \in Socket : Numbers(up'[j]) \subseteq 1..n
    <3>1. \A j \in Socket : Numbers(up'[j]) \subseteq Numbers(up[j]) \cup {n}
      BY <2>8
    <3>2. \A j \in Socket : Numbers(up[j]) \subseteq 1..produced
      BY DEF OrderValid
    <3> QED BY <2>12, <3>1, <3>2
  <2>14. UNCHANGED pending /\ (\A j \in Socket : Below(Numbers(up'[j]), {})) /\ Below(GotNumbers, {})
    BY <2>1 DEF Below
  <2> QED BY <1>3, <1>4, <1>5, <2>3, <2>9, <2>10, <2>11, <2>12, <2>13, <2>14 DEF OrderValid
<1>8. CASE ~closed[Daemon] /\ ~Connected(Daemon)
  <2> DEFINE q == Queued(pending[Daemon], f)
  <2>1. UNCHANGED up /\ pending' = [pending EXCEPT ![Daemon] = q]
    BY <1>2, <1>3, <1>8 DEF ClientSend
  <2>2. Below(Numbers(pending[Daemon]), {n})
    BY <1>1 DEF OrderValid, Below
  <2>3. q \in Seq(Frame) /\ Numbers(q) \subseteq Numbers(pending[Daemon]) \cup {n} /\ InOrder(q)
    <3>1. InOrder(pending[Daemon])
      BY DEF OrderValid
    <3> QED BY <1>1, <2>2, <3>1, QueuedFrames DEF f
  <2> HIDE DEF q
  <2>4. pending'[Daemon] = q
    BY <1>1, <2>1
  <2>5. /\ \A j \in Socket : Below(Numbers(up[j]), {n})
        /\ Below(GotNumbers, {n})
    BY <1>1 DEF OrderValid, Below
  <2>6. (\A j \in Socket : Below(Numbers(up[j]), Numbers(q))) /\ Below(GotNumbers, Numbers(q))
    BY <2>3, <2>5 DEF OrderValid, Below
  <2>7. /\ Numbers(q) \subseteq 1..n /\ (\A j \in Socket : Numbers(up[j]) \subseteq 1..n)
        /\ GotNumbers \subseteq 1..n
    <3>1. n \in 1..n /\ \A m \in 1..produced : m \in 1..n
      BY <1>1
    <3> QED BY <2>3, <3>1 DEF OrderValid
  <2> QED BY <1>3, <1>4, <1>5, <2>1, <2>3, <2>4, <2>6, <2>7 DEF OrderValid
<1> QED BY <1>6, <1>7, <1>8

\* What was queued goes to the newest socket.
LEMMA OpenOrder ==
  ASSUME OrderValid, SocketsValid, LinkTypeOK, NEW k \in Socket, Open(k)
  PROVE  OrderValid'
<1> DEFINE hellos == <<HelloFrame, HbFrame>>
           w == hellos \o pending[Daemon] \o unacked[Daemon]
<1>1. /\ Daemon \in Client /\ Socket \subseteq Nat /\ up \in [Socket -> Seq(Frame)]
      /\ pending[Daemon] \in Seq(Frame) /\ unacked[Daemon] \in Seq(SentEvent)
      /\ pending \in [Client -> Seq(Frame)] /\ ws \in [Socket -> {"unused", "open", "agent", "replaced", "closed"}]
  BY OneClient DEF LinkTypeOK
<1>2. /\ ws[k] = "unused" /\ up' = [up EXCEPT ![k] = w] /\ pending'[Daemon] = <<>>
      /\ ws' = [ws EXCEPT ![k] = "open"] /\ UNCHANGED <<got, produced>>
  BY <1>1 DEF Open, ClientOpens, counts
<1>3. hellos \in Seq(Frame) /\ InOrder(hellos) /\ Numbers(hellos) = {}
  <2>1. hellos[1] = HelloFrame /\ hellos[2] = HbFrame /\ DOMAIN hellos = 1..2 /\ hellos \in Seq(Frame)
    BY Frames
  <2> HIDE DEF hellos
  <2>2. \A i \in DOMAIN hellos : hellos[i].t # "frame"
    BY <2>1, Frames
  <2> QED BY <2>1, <2>2 DEF InOrder, Numbers
<1> HIDE DEF hellos
<1>4. w \in Seq(Frame) /\ InOrder(w) /\ Numbers(w) = Numbers(pending[Daemon])
  <2> DEFINE v == hellos \o pending[Daemon]
  <2> DEFINE q == pending[Daemon]
  <2>1. InOrder(q) /\ q \in Seq(Frame) /\ Below(Numbers(hellos), Numbers(q))
    BY <1>1, <1>3 DEF OrderValid, Below
  <2> HIDE DEF q
  <2>2. v \in Seq(Frame) /\ InOrder(v) /\ Numbers(v) = Numbers(q)
    <3>1. /\ hellos \o q \in Seq(Frame) /\ InOrder(hellos \o q)
          /\ Numbers(hellos \o q) = Numbers(hellos) \cup Numbers(q)
      BY <1>3, <2>1, ConcatFrames
    <3> QED BY <1>3, <3>1 DEF q
  <2>3. /\ unacked[Daemon] \in Seq(Frame) /\ InOrder(unacked[Daemon]) /\ Numbers(unacked[Daemon]) = {}
    BY <1>1, EventsUnnumbered
  <2> HIDE DEF v
  <2> DEFINE u == unacked[Daemon]
  <2> HIDE DEF u
  <2>4. v \o u \in Seq(Frame) /\ InOrder(v \o u) /\ Numbers(v \o u) = Numbers(v)
    <3>1. u \in Seq(Frame) /\ InOrder(u) /\ Numbers(u) = {} /\ Below(Numbers(v), Numbers(u))
      BY <2>3 DEF Below, u
    <3>2. v \o u \in Seq(Frame) /\ InOrder(v \o u) /\ Numbers(v \o u) = Numbers(v) \cup Numbers(u)
      BY <2>2, <3>1, ConcatFrames
    <3> QED BY <3>1, <3>2
  <2> QED BY <2>2, <2>4 DEF v, u, q
<1> HIDE DEF w
<1>5. /\ up'[k] = w /\ \A j \in Socket \ {k} : up'[j] = up[j] /\ ws'[j] = ws[j]
  BY <1>1, <1>2
<1>6. \A j \in Socket : j > k => Numbers(up[j]) = {}
  <2>1. \A j \in Socket : j > k => up[j] = <<>>
    BY <1>1, <1>2 DEF SocketsValid
  <2> QED BY <2>1, NoFrame
<1>7. GotNumbers' = GotNumbers /\ FramesInOrder'
  BY <1>2 DEF GotNumbers, OrderValid, FramesInOrder
<1>8. InOrder(pending'[Daemon]) /\ Numbers(pending'[Daemon]) = {}
  BY <1>2, NoFrame
<1>9. \A j \in Socket : InOrder(up'[j])
  BY <1>4, <1>5 DEF OrderValid
<1>10. \A j \in Socket : Speaks(j)' => Below(GotNumbers, Numbers(up'[j]))
  BY <1>4, <1>5 DEF OrderValid, Speaks
<1>11. \A i, j \in Socket : i < j => Below(Numbers(up'[i]), Numbers(up'[j]))
  BY <1>1, <1>4, <1>5, <1>6 DEF OrderValid, Below
<1>12. \A j \in Socket : Numbers(up'[j]) \subseteq 1..produced
  BY <1>4, <1>5 DEF OrderValid
<1>13. (\A j \in Socket : Below(Numbers(up'[j]), {})) /\ Below(GotNumbers, {})
  BY DEF Below
<1> QED BY <1>2, <1>7, <1>8, <1>9, <1>10, <1>11, <1>12, <1>13 DEF OrderValid

\* The hub obeys the first frame of all.
LEMMA ObeyOrder ==
  ASSUME OrderValid, SocketsValid, HellosValid, LinkTypeOK, NEW k \in Socket,
         Reads(k), conn = k, Head(up[k]).t = "frame", Obey(Head(up[k]).n), UNCHANGED <<pending, produced>>
  PROVE  OrderValid'
<1> DEFINE n == Head(up[k]).n
<1>1. /\ Socket \subseteq Nat /\ up \in [Socket -> Seq(Frame)] /\ up[k] \in Seq(Frame) /\ up[k] # <<>>
      /\ up' = [up EXCEPT ![k] = Tail(up[k])] /\ got \in Seq(Nat)
  BY OneClient, ReadsKeeps DEF LinkTypeOK
<1>2. /\ n \in Numbers(up[k]) /\ Below({n}, Numbers(Tail(up[k])))
      /\ Numbers(Tail(up[k])) \subseteq Numbers(up[k]) /\ InOrder(Tail(up[k]))
  BY <1>1, HeadAndTail DEF OrderValid
<1>3. n \in Nat /\ n \in 1..produced
  BY <1>1, <1>2, NumbersAreNat DEF OrderValid
<1>4. got' = Append(got, n) /\ UNCHANGED ws
  BY DEF Obey
<1> HIDE DEF n
<1>5. up'[k] = Tail(up[k]) /\ \A j \in Socket \ {k} : up'[j] = up[j]
  BY <1>1
<1>6. Below(GotNumbers, {n})
  <2>1. Speaks(k)
    BY DEF SocketsValid, Speaks
  <2> QED BY <1>2, <2>1 DEF OrderValid, Below
<1>7. GotNumbers' = GotNumbers \cup {n} /\ FramesInOrder'
  <2> DEFINE s == Append(got, n)
  <2>1. /\ Len(got) \in Nat /\ DOMAIN got = 1..Len(got) /\ DOMAIN s = 1..(Len(got) + 1)
        /\ (\A i \in DOMAIN got : s[i] = got[i]) /\ s[Len(got) + 1] = n
    BY <1>1, <1>3, AppendProperties
  <2> HIDE DEF s
  <2>2. \A i \in DOMAIN s : i \in DOMAIN got \/ i = Len(got) + 1
    BY <2>1
  <2>3. \A i \in DOMAIN got : i \in DOMAIN s /\ got[i] \in GotNumbers /\ got[i] < n /\ i < Len(got) + 1
    BY <1>6, <2>1 DEF GotNumbers, Below
  <2>4. {s[i] : i \in DOMAIN s} = GotNumbers \cup {n}
    BY <2>1, <2>2, <2>3 DEF GotNumbers
  <2>5. \A i, j \in DOMAIN s : i < j => s[i] < s[j]
    BY <2>1, <2>2, <2>3 DEF OrderValid, FramesInOrder
  <2>6. got' = s
    BY <1>4 DEF s
  <2> QED BY <2>4, <2>5, <2>6 DEF GotNumbers, FramesInOrder
<1>8. \A j \in Socket : InOrder(up'[j]) /\ Numbers(up'[j]) \subseteq Numbers(up[j])
  BY <1>2, <1>5 DEF OrderValid
<1>9. ASSUME NEW j \in Socket, Speaks(j) PROVE Below(GotNumbers \cup {n}, Numbers(up'[j]))
  <2>1. Below(GotNumbers, Numbers(up'[j]))
    BY <1>8, <1>9 DEF OrderValid, Below
  <2>2. CASE j = k
    BY <1>2, <1>5, <2>1, <2>2 DEF Below
  <2>3. CASE j > k
    BY <1>2, <1>8, <2>1, <2>3 DEF OrderValid, Below
  <2>4. CASE j < k
    <3>1. ws[j] = "open"
      BY <1>1, <1>9, <2>4 DEF Speaks, SocketsValid
    <3>2. Numbers(up[j]) = {}
      BY <2>4, <3>1, NoFrame DEF HellosValid
    <3> QED BY <1>8, <3>2 DEF Below
  <2> QED BY <1>1, <2>2, <2>3, <2>4
<1>10. /\ \A i, j \in Socket : i < j => Below(Numbers(up'[i]), Numbers(up'[j]))
       /\ \A j \in Socket : Below(Numbers(up'[j]), Numbers(pending[Daemon]))
       /\ Below(GotNumbers \cup {n}, Numbers(pending[Daemon]))
  <2>1. Below({n}, Numbers(pending[Daemon]))
    BY <1>2 DEF OrderValid, Below
  <2> QED BY <1>8, <2>1 DEF OrderValid, Below
<1>11. /\ \A j \in Socket : Numbers(up'[j]) \subseteq 1..produced
       /\ GotNumbers \cup {n} \subseteq 1..produced
  BY <1>3, <1>8 DEF OrderValid
<1>12. \A j \in Socket : Speaks(j)' <=> Speaks(j)
  BY <1>4 DEF Speaks
<1> QED BY <1>7, <1>8, <1>9, <1>10, <1>11, <1>12 DEF OrderValid

\* Every step keeps the order.
LEMMA OrderStep ==
  ASSUME OrderValid, SocketsValid, HellosValid, LinkTypeOK, [LinkNext]_linkVars
  PROVE  OrderValid'
<1>1. /\ Daemon \in Client /\ NoSocket \notin Socket /\ produced \in Nat
      /\ up \in [Socket -> Seq(Frame)] /\ pending \in [Client -> Seq(Frame)]
      /\ socket \in [Client -> Socket \cup {NoSocket}] /\ conn \in Socket \cup {NoSocket}
      /\ ws \in [Socket -> {"unused", "open", "agent", "replaced", "closed"}]
      /\ unacked[Daemon] \in Seq(SentEvent)
  BY OneClient DEF LinkTypeOK
<1>2. /\ InOrder(pending[Daemon]) /\ \A k \in Socket : InOrder(up[k])
  BY DEF OrderValid
<1>3. ASSUME UNCHANGED <<up, pending, got, produced>>,
             \A k \in Socket : Speaks(k)' => Speaks(k)
      PROVE  OrderValid'
  BY <1>1, <1>2, <1>3, OrderStays
<1>4. ASSUME NEW w \in Seq(Frame), InOrder(w), Numbers(w) = {}, Write(Daemon, w),
             UNCHANGED <<pending, got, produced, ws>>
      PROVE  OrderValid'
  <2> DEFINE k == socket[Daemon]
  <2>1. up' = [up EXCEPT ![k] = up[k] \o w]
    BY <1>4 DEF Write
  <2> HIDE DEF k
  <2>2. k \in Socket => Numbers(up[k] \o w) = Numbers(up[k]) /\ InOrder(up[k] \o w)
    <3> SUFFICES ASSUME k \in Socket PROVE Numbers(up[k] \o w) = Numbers(up[k]) /\ InOrder(up[k] \o w)
      OBVIOUS
    <3> DEFINE s == up[k]
    <3>1. s \in Seq(Frame) /\ InOrder(s) /\ Below(Numbers(s), Numbers(w))
      BY <1>1, <1>2, <1>4 DEF Below
    <3> HIDE DEF s
    <3>2. Numbers(s \o w) = Numbers(s) \cup Numbers(w) /\ InOrder(s \o w)
      BY <1>4, <3>1, ConcatFrames
    <3> QED BY <1>4, <3>2 DEF s
  <2>3. \A j \in Socket : InOrder(up'[j]) /\ Numbers(up'[j]) \subseteq Numbers(up[j])
    BY <1>1, <1>2, <2>1, <2>2
  <2>4. \A j \in Socket : Speaks(j)' => Speaks(j)
    BY <1>4 DEF Speaks
  <2> QED BY <1>1, <1>2, <1>4, <2>3, <2>4, OrderStays
<1>5. CASE UNCHANGED linkVars
  BY <1>3, <1>5 DEF linkVars, clientVars, hubSide, counts, Speaks
<1>6. CASE Emit
  <2> DEFINE f == EventFrame(emitted + 1)
  <2>1. f \in Frame /\ f.t = "event"
    BY Frames DEF LinkTypeOK
  <2>2. ClientSend(Daemon, f) /\ UNCHANGED <<got, produced, ws>>
    BY <1>6 DEF Emit, hubSide
  <2> HIDE DEF f
  <2>3. <<f>> \in Seq(Frame) /\ InOrder(<<f>>) /\ Numbers(<<f>>) = {}
    BY <2>1, OneFrame
  <2>4. UNCHANGED pending /\ (UNCHANGED up \/ Write(Daemon, <<f>>))
    BY <2>1, <2>2 DEF ClientSend
  <2>5. CASE UNCHANGED up
    BY <1>3, <2>2, <2>4, <2>5 DEF Speaks
  <2>6. CASE Write(Daemon, <<f>>)
    BY <1>4, <2>2, <2>3, <2>4, <2>6
  <2> QED BY <2>4, <2>5, <2>6
<1>7. CASE Beat
  <2> DEFINE w == <<HbFrame>> \o unacked[Daemon]
  <2>1. w \in Seq(Frame) /\ InOrder(w) /\ Numbers(w) = {}
    <3>1. <<HbFrame>> \in Seq(Frame) /\ InOrder(<<HbFrame>>) /\ Numbers(<<HbFrame>>) = {}
      BY Frames, OneFrame
    <3>2. /\ unacked[Daemon] \in Seq(Frame) /\ InOrder(unacked[Daemon]) /\ Numbers(unacked[Daemon]) = {}
      BY <1>1, EventsUnnumbered
    <3>3. Below({}, {})
      BY DEF Below
    <3> QED BY <3>1, <3>2, <3>3, ConcatFrames
  <2>2. Write(Daemon, w) /\ UNCHANGED <<pending, got, produced, ws>>
    BY <1>7 DEF Beat, ClientHeartbeat, hubSide, counts
  <2> HIDE DEF w
  <2> QED BY <1>4, <2>1, <2>2
<1>8. CASE ReadAck
  BY <1>3, <1>8 DEF ReadAck, ClientAcked, counts, Speaks
<1>9. CASE SeeClose
  BY <1>3, <1>9 DEF SeeClose, ClientLoses, hubSide, counts, Speaks
<1>10. CASE Shutdown
  <2>1. pending'[Daemon] = <<>> /\ UNCHANGED <<up, ws, got, produced>>
    BY <1>1, <1>10 DEF Shutdown, ClientCloses, hubSide, counts
  <2>2. InOrder(pending'[Daemon]) /\ Numbers(pending'[Daemon]) = {}
    BY <2>1, NoFrame
  <2> QED BY <1>1, <1>2, <2>1, <2>2, OrderStays DEF Speaks
<1>11. CASE Cut
  <2> DEFINE k == socket[Daemon]
  <2>1. PICK n \in 0..Len(up[k]) : up' = [up EXCEPT ![k] = SubSeq(up[k], 1, n)]
    BY <1>11 DEF Cut
  <2>2. k \in Socket /\ up[k] \in Seq(Frame) /\ UNCHANGED <<pending, got, produced, ws>>
    BY <1>1, <1>11 DEF Cut, ClientLoses, Connected, hubSide
  <2> HIDE DEF k
  <2>3. Numbers(SubSeq(up[k], 1, n)) \subseteq Numbers(up[k]) /\ InOrder(SubSeq(up[k], 1, n))
    BY <1>2, <2>1, <2>2, PrefixOfFrames
  <2>4. \A j \in Socket : InOrder(up'[j]) /\ Numbers(up'[j]) \subseteq Numbers(up[j])
    BY <1>1, <1>2, <2>1, <2>3
  <2> QED BY <1>1, <1>2, <2>2, <2>4, OrderStays DEF Speaks
<1>12. ASSUME NEW k \in Socket, HubReads(k) PROVE OrderValid'
  <2>1. /\ Reads(k) /\ UNCHANGED <<pending, produced>>
        /\ up' = [up EXCEPT ![k] = Tail(up[k])] /\ up[k] \in Seq(Frame) /\ up[k] # <<>>
    BY <1>12, ReadsKeeps DEF HubReads
  <2>2. Numbers(Tail(up[k])) \subseteq Numbers(up[k]) /\ InOrder(Tail(up[k]))
    BY <1>2, <2>1, HeadAndTail
  <2>3. \A j \in Socket : InOrder(up'[j]) /\ Numbers(up'[j]) \subseteq Numbers(up[j])
    BY <1>1, <1>2, <2>1, <2>2
  <2>4. CASE UNCHANGED got /\ \A j \in Socket : Speaks(j)' => Speaks(j)
    BY <1>1, <1>2, <2>1, <2>3, <2>4, OrderStays
  <2>5. CASE Hello(k)
    BY <1>1, <2>4, <2>5 DEF Hello, Speaks
  <2>6. CASE Commit(k, Head(up[k]).eventId) \/ StoreFails \/ UNCHANGED <<hubSide, failures>>
    BY <2>4, <2>6 DEF Commit, StoreFails, hubSide, Speaks
  <2>7. CASE conn = k /\ Head(up[k]).t = "frame" /\ Obey(Head(up[k]).n)
    BY <2>1, <2>7, ObeyOrder
  <2> QED BY <1>12, <2>5, <2>6, <2>7 DEF HubReads
<1>13. ASSUME NEW k \in Socket, HubSeesClose(k) PROVE OrderValid'
  BY <1>1, <1>3, <1>13 DEF HubSeesClose, clientVars, counts, Speaks
<1>14. CASE Sweep
  BY <1>1, <1>3, <1>14 DEF Sweep, clientVars, Speaks
<1> QED BY <1>5, <1>6, <1>7, <1>8, <1>9, <1>10, <1>11, <1>12, <1>13, <1>14, ProduceOrder, OpenOrder
        DEF LinkNext, Work

\* Nobody has opened a socket yet, and nothing was produced.
LEMMA InitOrder == LinkInit => SocketsValid /\ HellosValid /\ OrderValid
<1> SUFFICES ASSUME LinkInit PROVE SocketsValid /\ HellosValid /\ OrderValid
  OBVIOUS
<1>1. /\ socket[Daemon] = NoSocket /\ pending[Daemon] = <<>> /\ up = [k \in Socket |-> <<>>]
      /\ ws = [k \in Socket |-> "unused"] /\ conn = NoSocket /\ got = <<>> /\ produced = 0
  BY OneClient DEF LinkInit, ClientInit
<1>2. SocketsValid /\ HellosValid
  BY <1>1, OneClient DEF SocketsValid, HellosValid
<1>3. GotNumbers = {} /\ FramesInOrder
  BY <1>1 DEF GotNumbers, FramesInOrder
<1>4. OrderValid
  BY <1>1, <1>3, NoFrame DEF OrderValid, Below
<1> QED BY <1>2, <1>4

\* Session frames come to the hub in the order they were produced, and none twice, over any
\* number of connections, cuts and overflows of the queue, as long as an old socket's hello
\* does not overtake a newer one's (HubClient's #pending, the registered socket of
\* agents.ts).
THEOREM FramesInOrderCorrect == ~LateHello => (LinkSpec => []FramesInOrder)
<1>1. ~LateHello /\ LinkTypeOK /\ SocketsValid /\ HellosValid /\ OrderValid /\ [LinkNext]_linkVars
        => (LinkTypeOK /\ SocketsValid /\ HellosValid /\ OrderValid)'
  BY TypeStep, SocketsStep, OrderStep
<1>2. LinkInit => LinkTypeOK /\ SocketsValid /\ HellosValid /\ OrderValid
  BY InitTyped, InitOrder
<1>3. OrderValid => FramesInOrder
  BY DEF OrderValid
<1>4. ASSUME ~LateHello PROVE LinkSpec => []FramesInOrder
  BY <1>1, <1>2, <1>3, <1>4, PTL DEF LinkSpec
<1> QED BY <1>4

\* A lone client goes out of service only when it is shut down: no hello of its own is ever
\* taken for a stranger's, as long as they come in order.
THEOREM KeepsOpenCorrect == ~LateHello => (LinkSpec => KeepsOpen)
<1>1. ~LateHello /\ LinkTypeOK /\ SocketsValid /\ HellosValid /\ [LinkNext]_linkVars
        => (LinkTypeOK /\ SocketsValid /\ HellosValid)'
  BY TypeStep, SocketsStep
<1>2. LinkInit => LinkTypeOK /\ SocketsValid /\ HellosValid
  BY InitTyped, InitOrder
<1>3. LinkTypeOK /\ HellosValid /\ [LinkNext]_linkVars
        => [closed[Daemon]' /\ ~closed[Daemon] => Shutdown]_linkVars
  <2> SUFFICES ASSUME LinkTypeOK, HellosValid, LinkNext, closed[Daemon]', ~closed[Daemon] PROVE Shutdown
    OBVIOUS
  <2>1. Daemon \in Client /\ closed \in [Client -> BOOLEAN] /\ socket[Daemon] \in Socket \cup {NoSocket}
    BY OneClient DEF LinkTypeOK
  <2>2. ~SeeClose
    BY <2>1 DEF SeeClose, ClientLoses, Connected, HellosValid
  <2>3. ~Cut
    BY <2>1 DEF Cut, ClientLoses
  <2>4. Produce \/ Emit \/ Beat \/ ReadAck \/ Sweep => UNCHANGED closed
    BY DEF Produce, Emit, Beat, ReadAck, Sweep, ClientSend, ClientHeartbeat, ClientAcked, clientVars
  <2>5. ASSUME NEW k \in Socket, Open(k) \/ HubReads(k) \/ HubSeesClose(k) PROVE UNCHANGED closed
    BY <2>5 DEF Open, ClientOpens, HubReads, HubSeesClose, clientVars
  <2> QED BY <2>2, <2>3, <2>4, <2>5 DEF LinkNext, Work
<1>4. ASSUME ~LateHello PROVE LinkSpec => KeepsOpen
  BY <1>1, <1>2, <1>3, <1>4, PTL DEF LinkSpec, KeepsOpen
<1> QED BY <1>4
===============================================================================
