------------------------- MODULE ComposeStreamProofs -------------------------
(***************************************************************************)
(* Proofs about the streaming of progress lines, for any number of lines   *)
(* and any room in the pipes and in the channel.                           *)
(***************************************************************************)
EXTENDS ComposeStream, Integers, TLAPS

Lines == [stream : Streams, n : 1..MaxLines]

\* The types of the process, the pipes, the scanners, the channel and the consumer.
TypeOK ==
    /\ op \in {"pull", "up"} /\ consumer \in {"screen", "background", "loop"}
    /\ total \in [Streams -> 0..MaxLines] /\ overlong \in [Streams -> 0..MaxLines]
    /\ written \in [Streams -> 0..MaxLines] /\ proc \in {"running", "exited", "killed"}
    /\ pipe \in [Streams -> Seq(Lines)]
    /\ reader \in [Streams -> {"scanning", "sending", "ended"}]
    /\ held \in [Streams -> Lines \union {NoLine}]
    /\ channel \in Seq(Lines) /\ closed \in BOOLEAN
    /\ caller \in {"streaming", "closing", "returned"}
    /\ drain \in {"reading", "handling", "idle"}
    /\ message \in Lines \union {NoLine} /\ (drain = "handling" => message \in Lines)
    /\ onScreen \in BOOLEAN /\ shown \in Seq(Lines)

\* The lines of s that its scanner has taken out of the pipe.
Scanned(s) == written[s] - Len(pipe[s])

\* A pipe holds the last lines written, in order.
PipeInv ==
    \A s \in Streams :
        /\ Len(pipe[s]) <= written[s]
        /\ \A i \in 1..Len(pipe[s]) : pipe[s][i] = Line(s, Scanned(s) + i)

\* A scanner that has not ended has met no overlong line; one that has ended met one, or
\* the end of what was written.
ReaderInv ==
    \A s \in Streams :
        /\ reader[s] # "ended" => overlong[s] \notin 1..Scanned(s)
        /\ reader[s] = "sending" => Forwarded(s) /\ held[s] = Line(s, Scanned(s)) /\ Scanned(s) > 0
        /\ reader[s] = "ended" =>
              overlong[s] \in 1..written[s] \/ (proc # "running" /\ pipe[s] = <<>>)

\* The command is through with both streams before it closes the channel.
CloseInv ==
    /\ caller # "streaming" => proc # "running" /\ \A s \in Streams : reader[s] = "ended"
    /\ closed => caller = "returned"

\* Only a screen is left, and the consumer stops reading only when the screen was left or
\* everything was read.
DrainInv ==
    /\ consumer # "screen" => onScreen
    /\ drain = "idle" => ~onScreen \/ (closed /\ channel = <<>>)

\* The lines of s that were sent into the channel.
Sent(s) ==
    IF ~Forwarded(s) THEN 0
    ELSE IF reader[s] = "ended" THEN Readable(s)
    ELSE IF reader[s] = "sending" THEN Scanned(s) - 1 ELSE Scanned(s)

InShown(l) == \E i \in 1..Len(shown) : shown[i] = l
InChannel(l) == \E i \in 1..Len(channel) : channel[i] = l
Taken(l) == InShown(l) \/ (drain = "handling" /\ message = l)

\* Every earlier line of the same stream is shown before a line that is shown.
ShownInv ==
    \A j \in 1..Len(shown) :
        /\ \A i \in 1..(j - 1) : shown[i] # shown[j]
        /\ \A k \in 1..(shown[j].n - 1) :
              \E i \in 1..(j - 1) : shown[i] = Line(shown[j].stream, k)

\* The consumer has not dropped a line.
Attentive == drain # "idle" \/ onScreen

\* The same of the line being handled and of those in the channel, as long as no line was
\* dropped.
HandlingInv ==
    Attentive /\ drain = "handling" =>
        /\ ~InShown(message)
        /\ \A k \in 1..(message.n - 1) : InShown(Line(message.stream, k))

ChannelInv ==
    Attentive => \A j \in 1..Len(channel) :
        /\ ~Taken(channel[j])
        /\ \A i \in 1..(j - 1) : channel[i] # channel[j]
        /\ \A k \in 1..(channel[j].n - 1) :
              \/ Taken(Line(channel[j].stream, k))
              \/ \E i \in 1..(j - 1) : channel[i] = Line(channel[j].stream, k)

\* What was sent is shown, being handled or in the channel, and nothing else is.
SentInv ==
    Attentive => \A s \in Streams, k \in 1..MaxLines :
        Taken(Line(s, k)) \/ InChannel(Line(s, k)) <=> k <= Sent(s)

\* The inductive invariant.
IInv == TypeOK /\ PipeInv /\ ReaderInv /\ CloseInv /\ DrainInv /\ ShownInv
        /\ HandlingInv /\ ChannelInv /\ SentInv

-----------------------------------------------------------------------------
(* Lemmas: a line, and each of the actions.                                 *)

USE DEF command, process, readers, chan, display, vars

\* A line is known by its stream and its number.
LEMMA LineFacts ==
  /\ \A s, k : Line(s, k).stream = s /\ Line(s, k).n = k
  /\ \A s \in Streams, k \in 1..MaxLines : Line(s, k) \in Lines
  BY DEF Line, Lines

\* The process writes a line, which goes to the end of its pipe.
LEMMA WriteInv ==
  ASSUME IInv, NEW s \in Streams, Write(s)
  PROVE  IInv'
  <1> USE RoomAssumption DEF IInv, Write
  <1>1. TypeOK'
    <2>1. Line(s, written[s] + 1) \in Lines
      BY LineFacts DEF TypeOK
    <2> QED
      BY <2>1 DEF TypeOK
  <1>2. PipeInv'
    BY DEF TypeOK, PipeInv, Scanned
  <1>3. ReaderInv'
    BY DEF TypeOK, PipeInv, ReaderInv, Scanned, Forwarded
  <1>4. CloseInv'
    BY DEF TypeOK, CloseInv
  <1>5. DrainInv'
    BY DEF TypeOK, CloseInv, DrainInv
  <1>6. ShownInv'
    BY DEF ShownInv
  <1>7. HandlingInv'
    BY DEF HandlingInv, Attentive, InShown
  <1>8. ChannelInv'
    <2>1. \A l : Taken(l)' <=> Taken(l)
      BY DEF Taken, InShown
    <2> QED
      BY <2>1 DEF ChannelInv, Attentive
  <1>9. SentInv'
    <2>1. \A t \in Streams : Sent(t)' = Sent(t)
      BY DEF TypeOK, PipeInv, ReaderInv, Sent, Scanned, Readable, Forwarded
    <2> QED
      BY <2>1 DEF SentInv, Attentive, Taken, InShown, InChannel
  <1> QED
    BY <1>1, <1>2, <1>3, <1>4, <1>5, <1>6, <1>7, <1>8, <1>9

\* The process ends by itself.
LEMMA ExitInv ==
  ASSUME IInv, Exit
  PROVE  IInv'
  <1> USE RoomAssumption DEF IInv, Exit
  <1>1. TypeOK'
    BY DEF TypeOK, Lines, Streams
  <1>2. PipeInv'
    BY DEF TypeOK, PipeInv, Scanned
  <1>3. ReaderInv'
    BY DEF TypeOK, PipeInv, ReaderInv, Scanned, Forwarded
  <1>4. CloseInv'
    BY DEF TypeOK, CloseInv
  <1>5. DrainInv'
    BY DEF TypeOK, CloseInv, DrainInv
  <1>6. ShownInv'
    BY DEF ShownInv
  <1>7. HandlingInv'
    BY DEF HandlingInv, Attentive, InShown
  <1>8. ChannelInv'
    <2>1. \A l : Taken(l)' <=> Taken(l)
      BY DEF Taken, InShown
    <2> QED
      BY <2>1 DEF ChannelInv, Attentive
  <1>9. SentInv'
    BY DEF SentInv, Attentive, Taken, InShown, InChannel, Sent, Scanned, Readable, Forwarded
  <1> QED
    BY <1>1, <1>2, <1>3, <1>4, <1>5, <1>6, <1>7, <1>8, <1>9

\* The process is killed, with lines left unwritten.
LEMMA KillInv ==
  ASSUME IInv, Kill
  PROVE  IInv'
  <1> USE RoomAssumption DEF IInv, Kill
  <1>1. TypeOK'
    BY DEF TypeOK, Lines, Streams
  <1>2. PipeInv'
    BY DEF TypeOK, PipeInv, Scanned
  <1>3. ReaderInv'
    BY DEF TypeOK, PipeInv, ReaderInv, Scanned, Forwarded
  <1>4. CloseInv'
    BY DEF TypeOK, CloseInv
  <1>5. DrainInv'
    BY DEF TypeOK, CloseInv, DrainInv
  <1>6. ShownInv'
    BY DEF ShownInv
  <1>7. HandlingInv'
    BY DEF HandlingInv, Attentive, InShown
  <1>8. ChannelInv'
    <2>1. \A l : Taken(l)' <=> Taken(l)
      BY DEF Taken, InShown
    <2> QED
      BY <2>1 DEF ChannelInv, Attentive
  <1>9. SentInv'
    BY DEF SentInv, Attentive, Taken, InShown, InChannel, Sent, Scanned, Readable, Forwarded
  <1> QED
    BY <1>1, <1>2, <1>3, <1>4, <1>5, <1>6, <1>7, <1>8, <1>9

\* A scanner takes a line out of the pipe; what it has sent is the same as before.
LEMMA ScanInv ==
  ASSUME IInv, NEW s \in Streams, Scan(s)
  PROVE  IInv'
  <1> USE RoomAssumption DEF IInv, Scan
  <1>1. TypeOK'
    <2>1. Head(pipe[s]) \in Lines /\ Tail(pipe[s]) \in Seq(Lines)
      BY DEF TypeOK
    <2> QED
      BY <2>1 DEF TypeOK
  <1>2. PipeInv'
    <2>1. /\ pipe[s] \in Seq(Lines) /\ Len(pipe[s]) > 0
          /\ Len(Tail(pipe[s])) = Len(pipe[s]) - 1
          /\ \A i \in 1..Len(Tail(pipe[s])) : Tail(pipe[s])[i] = pipe[s][i + 1]
      BY DEF TypeOK
    <2> SUFFICES ASSUME NEW t \in Streams
                 PROVE  /\ Len(pipe'[t]) <= written[t]
                        /\ \A i \in 1..Len(pipe'[t]) :
                              pipe'[t][i] = Line(t, written[t] - Len(pipe'[t]) + i)
      BY DEF PipeInv, Scanned
    <2>2. CASE t # s
      BY <2>2 DEF TypeOK, PipeInv, Scanned
    <2>3. CASE t = s
      <3>1. /\ pipe'[t] = Tail(pipe[t]) /\ written[t] \in Nat
            /\ Len(pipe[t]) \in Nat /\ Len(pipe'[t]) = Len(pipe[t]) - 1
            /\ \A i \in 1..Len(pipe'[t]) : pipe'[t][i] = pipe[t][i + 1]
        BY <2>1, <2>3 DEF TypeOK
      <3>2. ASSUME NEW i \in 1..Len(pipe'[t])
            PROVE  pipe'[t][i] = Line(t, written[t] - Len(pipe'[t]) + i)
        <4>1. i + 1 \in 1..Len(pipe[t]) /\ pipe'[t][i] = pipe[t][i + 1]
          BY <3>1
        <4>2. pipe[t][i + 1] = Line(t, Scanned(t) + (i + 1))
          BY <4>1 DEF PipeInv
        <4> HIDE DEF Scan, IInv
        <4>3. Scanned(t) + (i + 1) = written[t] - Len(pipe'[t]) + i
          BY <3>1 DEF Scanned
        <4> QED
          BY <4>1, <4>2, <4>3
      <3> QED
        BY <2>1, <2>3, <3>1, <3>2 DEF PipeInv
    <2> QED
      BY <2>2, <2>3
  <1>3. ReaderInv'
    <2>1. /\ pipe[s] \in Seq(Lines) /\ Len(pipe[s]) > 0
          /\ Len(Tail(pipe[s])) = Len(pipe[s]) - 1
      BY DEF TypeOK
    <2>2. Head(pipe[s]) = Line(s, Scanned(s) + 1) /\ Scanned(s) + 1 \in 1..written[s]
      BY <2>1 DEF TypeOK, PipeInv, Scanned
    <2>3. Head(pipe[s]).n = Scanned(s) + 1
      BY <2>2, LineFacts DEF TypeOK, Scanned
    <2>4. Scanned(s)' = Scanned(s) + 1 /\ \A t \in Streams \ {s} : Scanned(t)' = Scanned(t)
      BY <2>1 DEF TypeOK, Scanned
    <2> SUFFICES ASSUME NEW t \in Streams
                 PROVE  /\ reader'[t] # "ended" => overlong[t] \notin 1..Scanned(t)'
                        /\ reader'[t] = "sending" =>
                              /\ Forwarded(t) /\ held'[t] = Line(t, Scanned(t)')
                              /\ Scanned(t)' > 0
                        /\ reader'[t] = "ended" =>
                              \/ overlong[t] \in 1..written[t]
                              \/ proc # "running" /\ pipe'[t] = <<>>
      BY DEF ReaderInv, Forwarded
    <2>5. CASE t # s
      BY <2>4, <2>5 DEF TypeOK, ReaderInv
    <2>6. CASE t = s
      <3>1. /\ overlong[s] \in Nat /\ Scanned(s) \in Nat /\ reader[s] = "scanning"
            /\ overlong[s] \notin 1..Scanned(s)
        BY DEF TypeOK, PipeInv, ReaderInv, Scanned
      <3>2. /\ reader'[s] = IF overlong[s] # Scanned(s) + 1 /\ Forwarded(s) THEN "sending"
                            ELSE IF overlong[s] # Scanned(s) + 1 THEN "scanning" ELSE "ended"
            /\ reader'[s] = "sending" => held'[s] = Line(s, Scanned(s) + 1)
        BY <2>2, <2>3 DEF TypeOK
      <3> QED
        BY <2>2, <2>4, <2>6, <3>1, <3>2
    <2> QED
      BY <2>5, <2>6
  <1>4. CloseInv'
    BY DEF TypeOK, CloseInv
  <1>5. DrainInv'
    BY DEF TypeOK, CloseInv, DrainInv
  <1>6. ShownInv'
    BY DEF ShownInv
  <1>7. HandlingInv'
    BY DEF HandlingInv, Attentive, InShown
  <1>8. ChannelInv'
    <2>1. \A l : Taken(l)' <=> Taken(l)
      BY DEF Taken, InShown
    <2> QED
      BY <2>1 DEF ChannelInv, Attentive
  <1>9. SentInv'
    <2>1. /\ pipe[s] \in Seq(Lines) /\ Len(pipe[s]) > 0
          /\ Len(Tail(pipe[s])) = Len(pipe[s]) - 1
      BY DEF TypeOK
    <2>2. Head(pipe[s]) = Line(s, Scanned(s) + 1) /\ Scanned(s) + 1 \in 1..written[s]
      BY <2>1 DEF TypeOK, PipeInv, Scanned
    <2>3. Head(pipe[s]).n = Scanned(s) + 1
      BY <2>2, LineFacts
    <2>4. \A t \in Streams : Sent(t)' = Sent(t)
      BY <2>1, <2>2, <2>3 DEF TypeOK, ReaderInv, Sent, Scanned, Readable, Forwarded
    <2> QED
      BY <2>4 DEF SentInv, Attentive, Taken, InShown, InChannel
  <1> QED
    BY <1>1, <1>2, <1>3, <1>4, <1>5, <1>6, <1>7, <1>8, <1>9

\* A scanner that ends at the end of its stream has sent every line of it.
LEMMA ScanEOFInv ==
  ASSUME IInv, NEW s \in Streams, ScanEOF(s)
  PROVE  IInv'
  <1> USE RoomAssumption DEF IInv, ScanEOF
  <1>1. TypeOK'
    BY DEF TypeOK, Lines, Streams
  <1>2. PipeInv'
    BY DEF TypeOK, PipeInv, Scanned
  <1>3. ReaderInv'
    BY DEF TypeOK, PipeInv, ReaderInv, Scanned, Forwarded
  <1>4. CloseInv'
    BY DEF TypeOK, CloseInv
  <1>5. DrainInv'
    BY DEF TypeOK, CloseInv, DrainInv
  <1>6. ShownInv'
    BY DEF ShownInv
  <1>7. HandlingInv'
    BY DEF HandlingInv, Attentive, InShown
  <1>8. ChannelInv'
    <2>1. \A l : Taken(l)' <=> Taken(l)
      BY DEF Taken, InShown
    <2> QED
      BY <2>1 DEF ChannelInv, Attentive
  <1>9. SentInv'
    <2>1. \A t \in Streams : Sent(t)' = Sent(t)
      BY DEF TypeOK, PipeInv, ReaderInv, Sent, Scanned, Readable, Forwarded
    <2> QED
      BY <2>1 DEF SentInv, Attentive, Taken, InShown, InChannel
  <1> QED
    BY <1>1, <1>2, <1>3, <1>4, <1>5, <1>6, <1>7, <1>8, <1>9

\* The line that goes into the channel is the next one of its stream.
LEMMA SendInv ==
  ASSUME IInv, NEW s \in Streams, Send(s)
  PROVE  IInv'
  <1> USE RoomAssumption DEF IInv, Send
  <1>1. TypeOK'
    <2>1. held[s] = Line(s, Scanned(s)) /\ Scanned(s) \in 1..MaxLines
      BY DEF TypeOK, ReaderInv, Scanned, PipeInv
    <2>2. held[s] \in Lines
      BY <2>1, LineFacts
    <2> QED
      BY <2>2 DEF TypeOK
  <1>2. PipeInv'
    BY DEF TypeOK, PipeInv, Scanned
  <1>3. ReaderInv'
    BY DEF TypeOK, PipeInv, ReaderInv, Scanned, Forwarded
  <1>4. CloseInv'
    BY DEF TypeOK, CloseInv
  <1>5. DrainInv'
    BY DEF TypeOK, CloseInv, DrainInv
  <1>6. ShownInv'
    BY DEF ShownInv
  <1>7. HandlingInv'
    BY DEF HandlingInv, Attentive, InShown
  <1>8. ChannelInv'
    <2> SUFFICES ASSUME Attentive' PROVE ChannelInv'
      BY DEF ChannelInv
    <2>1. Attentive /\ \A l : Taken(l)' <=> Taken(l)
      BY DEF Attentive, Taken, InShown
    <2> DEFINE k == Scanned(s)
    <2>2. k \in 1..MaxLines /\ held[s] = Line(s, k) /\ Sent(s) = k - 1
      BY DEF TypeOK, ReaderInv, PipeInv, Scanned, Sent
    <2>3. ~Taken(Line(s, k)) /\ ~InChannel(Line(s, k))
      BY <2>1, <2>2 DEF SentInv
    <2>4. \A m \in 1..(k - 1) : Taken(Line(s, m)) \/ InChannel(Line(s, m))
      BY <2>1, <2>2 DEF SentInv
    <2>5. held[s].stream = s /\ held[s].n = k
      BY <2>2, LineFacts
    <2>6. /\ channel \in Seq(Lines) /\ Len(channel') = Len(channel) + 1
          /\ channel'[Len(channel) + 1] = held[s]
          /\ \A i \in 1..Len(channel) : channel'[i] = channel[i]
      BY DEF TypeOK
    <2> HIDE DEF k
    <2> SUFFICES ASSUME NEW j \in 1..Len(channel')
                 PROVE  /\ ~Taken(channel'[j])
                        /\ \A i \in 1..(j - 1) : channel'[i] # channel'[j]
                        /\ \A m \in 1..(channel'[j].n - 1) :
                              \/ Taken(Line(channel'[j].stream, m))
                              \/ \E i \in 1..(j - 1) : channel'[i] = Line(channel'[j].stream, m)
      BY <2>1 DEF ChannelInv
    <2>7. CASE j \in 1..Len(channel)
      BY <2>1, <2>6, <2>7 DEF ChannelInv
    <2>8. CASE j = Len(channel) + 1
      BY <2>2, <2>3, <2>4, <2>5, <2>6, <2>8 DEF InChannel
    <2> QED
      BY <2>6, <2>7, <2>8
  <1>9. SentInv'
    <2> SUFFICES ASSUME Attentive' PROVE SentInv'
      BY DEF SentInv
    <2>1. Attentive /\ \A l : Taken(l)' <=> Taken(l)
      BY DEF Attentive, Taken, InShown
    <2>2. /\ Scanned(s) \in 1..MaxLines /\ held[s] = Line(s, Scanned(s))
          /\ Sent(s) = Scanned(s) - 1 /\ Sent(s)' = Scanned(s)
          /\ \A t \in Streams \ {s} : Sent(t)' = Sent(t)
      BY DEF TypeOK, ReaderInv, PipeInv, Scanned, Sent, Readable, Forwarded
    <2>3. \A l : InChannel(l)' <=> InChannel(l) \/ l = held[s]
      BY DEF TypeOK, InChannel
    <2>4. \A t \in Streams, m \in 1..MaxLines :
             Line(t, m) = held[s] <=> t = s /\ m = Scanned(s)
      BY <2>2, LineFacts
    <2>5. \A t \in Streams : Sent(t) \in Int
      BY DEF TypeOK, Sent, Scanned, Readable
    <2> QED
      BY <2>1, <2>2, <2>3, <2>4, <2>5 DEF SentInv
  <1> QED
    BY <1>1, <1>2, <1>3, <1>4, <1>5, <1>6, <1>7, <1>8, <1>9

\* Stream returns once both scanners have ended.
LEMMA WaitInv ==
  ASSUME IInv, Wait
  PROVE  IInv'
  <1> USE RoomAssumption DEF IInv, Wait
  <1>1. TypeOK'
    BY DEF TypeOK, Lines, Streams
  <1>2. PipeInv'
    BY DEF TypeOK, PipeInv, Scanned
  <1>3. ReaderInv'
    BY DEF TypeOK, PipeInv, ReaderInv, Scanned, Forwarded
  <1>4. CloseInv'
    BY DEF TypeOK, CloseInv
  <1>5. DrainInv'
    BY DEF TypeOK, CloseInv, DrainInv
  <1>6. ShownInv'
    BY DEF ShownInv
  <1>7. HandlingInv'
    BY DEF HandlingInv, Attentive, InShown
  <1>8. ChannelInv'
    <2>1. \A l : Taken(l)' <=> Taken(l)
      BY DEF Taken, InShown
    <2> QED
      BY <2>1 DEF ChannelInv, Attentive
  <1>9. SentInv'
    BY DEF SentInv, Attentive, Taken, InShown, InChannel, Sent, Scanned, Readable, Forwarded
  <1> QED
    BY <1>1, <1>2, <1>3, <1>4, <1>5, <1>6, <1>7, <1>8, <1>9

\* The channel is closed when nothing is left to send.
LEMMA ReturnInv ==
  ASSUME IInv, Return
  PROVE  IInv'
  <1> USE RoomAssumption DEF IInv, Return
  <1>1. TypeOK'
    BY DEF TypeOK, Lines, Streams
  <1>2. PipeInv'
    BY DEF TypeOK, PipeInv, Scanned
  <1>3. ReaderInv'
    BY DEF TypeOK, PipeInv, ReaderInv, Scanned, Forwarded
  <1>4. CloseInv'
    BY DEF TypeOK, CloseInv
  <1>5. DrainInv'
    BY DEF TypeOK, CloseInv, DrainInv
  <1>6. ShownInv'
    BY DEF ShownInv
  <1>7. HandlingInv'
    BY DEF HandlingInv, Attentive, InShown
  <1>8. ChannelInv'
    <2>1. \A l : Taken(l)' <=> Taken(l)
      BY DEF Taken, InShown
    <2> QED
      BY <2>1 DEF ChannelInv, Attentive
  <1>9. SentInv'
    BY DEF SentInv, Attentive, Taken, InShown, InChannel, Sent, Scanned, Readable, Forwarded
  <1> QED
    BY <1>1, <1>2, <1>3, <1>4, <1>5, <1>6, <1>7, <1>8, <1>9

\* The line taken out of the channel has every earlier one of its stream before it.
LEMMA ReceiveInv ==
  ASSUME IInv, Receive
  PROVE  IInv'
  <1> USE RoomAssumption DEF IInv, Receive
  <1>1. TypeOK'
    <2>1. Head(channel) \in Lines /\ Tail(channel) \in Seq(Lines)
      BY DEF TypeOK
    <2> QED
      BY <2>1 DEF TypeOK
  <1>2. PipeInv'
    BY DEF TypeOK, PipeInv, Scanned
  <1>3. ReaderInv'
    BY DEF TypeOK, PipeInv, ReaderInv, Scanned, Forwarded
  <1>4. CloseInv'
    BY DEF TypeOK, CloseInv
  <1>5. DrainInv'
    BY DEF TypeOK, CloseInv, DrainInv
  <1>6. ShownInv'
    BY DEF ShownInv
  <1>7. HandlingInv'
    <2>1. /\ channel \in Seq(Lines) /\ Len(channel) > 0 /\ Len(channel') = Len(channel) - 1
          /\ message' = channel[1]
          /\ \A i \in 1..Len(channel') : channel'[i] = channel[i + 1]
      BY DEF TypeOK
    <2>2. Attentive /\ \A l : Taken(l)' <=> Taken(l) \/ l = channel[1]
      BY <2>1 DEF Attentive, Taken, InShown
    <2>3. \A l : InShown(l)' <=> Taken(l)
      BY DEF Taken, InShown
    <2>4. /\ ~Taken(channel[1])
          /\ \A k \in 1..(channel[1].n - 1) : Taken(Line(channel[1].stream, k))
      BY <2>1, <2>2 DEF ChannelInv
    <2> QED
      BY <2>1, <2>3, <2>4 DEF HandlingInv
  <1>8. ChannelInv'
    <2>1. /\ channel \in Seq(Lines) /\ Len(channel) > 0 /\ Len(channel') = Len(channel) - 1
          /\ message' = channel[1]
          /\ \A i \in 1..Len(channel') : channel'[i] = channel[i + 1]
      BY DEF TypeOK
    <2>2. Attentive /\ \A l : Taken(l)' <=> Taken(l) \/ l = channel[1]
      BY <2>1 DEF Attentive, Taken, InShown
    <2> DEFINE Out(l) == InShown(l) \/ l = channel[1]
    <2> SUFFICES ASSUME NEW j \in 1..Len(channel')
                 PROVE  (/\ ~Taken(channel[j])
                         /\ \A i \in 1..(j - 1) : channel[i] # channel[j]
                         /\ \A m \in 1..(channel[j].n - 1) :
                               \/ Taken(Line(channel[j].stream, m))
                               \/ \E i \in 1..(j - 1) : channel[i] = Line(channel[j].stream, m))'
      BY DEF ChannelInv
    <2>3. j + 1 \in 1..Len(channel) /\ channel'[j] = channel[j + 1]
      BY <2>1
    <2>4. /\ ~InShown(channel[j + 1])
          /\ \A i \in 1..j : channel[i] # channel[j + 1]
          /\ \A m \in 1..(channel[j + 1].n - 1) :
                \/ InShown(Line(channel[j + 1].stream, m))
                \/ \E i \in 1..j : channel[i] = Line(channel[j + 1].stream, m)
      BY <2>2, <2>3 DEF ChannelInv, Taken
    <2>5. \A i \in 1..(j - 1) : i + 1 \in 1..j /\ channel'[i] = channel[i + 1]
      BY <2>1
    <2>6. \A i \in 1..j : i = 1 \/ (i - 1 \in 1..(j - 1) /\ channel[i] = channel'[i - 1])
      BY <2>1
    <2>7. \A m \in 1..(channel'[j].n - 1) :
             \/ Out(Line(channel'[j].stream, m))
             \/ \E i \in 1..(j - 1) : channel'[i] = Line(channel'[j].stream, m)
      BY <2>3, <2>4, <2>6
    <2>8. \A i \in 1..(j - 1) : channel'[i] # channel'[j]
      BY <2>3, <2>4, <2>5
    <2>9. ~Out(channel'[j])
      BY <2>1, <2>3, <2>4
    <2> QED
      BY <2>1, <2>7, <2>8, <2>9 DEF Taken, InShown, Line
  <1>9. SentInv'
    <2>1. /\ channel \in Seq(Lines) /\ Len(channel) > 0 /\ Len(channel') = Len(channel) - 1
          /\ message' = channel[1]
          /\ \A i \in 1..Len(channel') : channel'[i] = channel[i + 1]
      BY DEF TypeOK
    <2>2. Attentive /\ \A l : Taken(l)' <=> Taken(l) \/ l = channel[1]
      BY <2>1 DEF Attentive, Taken, InShown
    <2>3. \A l : InChannel(l) <=> InChannel(l)' \/ l = channel[1]
      <3> SUFFICES ASSUME NEW l PROVE InChannel(l) <=> InChannel(l)' \/ l = channel[1]
        OBVIOUS
      <3>1. ASSUME NEW i \in 1..Len(channel), channel[i] = l, l # channel[1]
            PROVE  InChannel(l)'
        <4>1. i - 1 \in 1..Len(channel') /\ channel'[i - 1] = l
          BY <2>1, <3>1
        <4> QED
          BY <4>1 DEF InChannel
      <3>2. ASSUME NEW i \in 1..Len(channel'), channel'[i] = l PROVE InChannel(l)
        <4>1. i + 1 \in 1..Len(channel) /\ channel[i + 1] = l
          BY <2>1, <3>2
        <4> QED
          BY <4>1 DEF InChannel
      <3> QED
        BY <2>1, <3>1, <3>2 DEF InChannel
    <2>4. \A t \in Streams : Sent(t)' = Sent(t)
      BY DEF Sent, Scanned, Readable, Forwarded
    <2> QED
      BY <2>2, <2>3, <2>4 DEF SentInv
  <1> QED
    BY <1>1, <1>2, <1>3, <1>4, <1>5, <1>6, <1>7, <1>8, <1>9

\* The consumer ends when the channel is closed and empty.
LEMMA ReceiveClosedInv ==
  ASSUME IInv, ReceiveClosed
  PROVE  IInv'
  <1> USE RoomAssumption DEF IInv, ReceiveClosed
  <1>1. TypeOK'
    BY DEF TypeOK, Lines, Streams
  <1>2. PipeInv'
    BY DEF TypeOK, PipeInv, Scanned
  <1>3. ReaderInv'
    BY DEF TypeOK, PipeInv, ReaderInv, Scanned, Forwarded
  <1>4. CloseInv'
    BY DEF TypeOK, CloseInv
  <1>5. DrainInv'
    BY DEF TypeOK, CloseInv, DrainInv
  <1>6. ShownInv'
    BY DEF ShownInv
  <1>7. HandlingInv'
    BY DEF HandlingInv, Attentive, InShown
  <1>8. ChannelInv'
    <2>1. \A l : Taken(l)' <=> Taken(l)
      BY DEF Taken, InShown
    <2> QED
      BY <2>1 DEF ChannelInv, Attentive
  <1>9. SentInv'
    BY DEF SentInv, Attentive, Taken, InShown, InChannel, Sent, Scanned, Readable, Forwarded
  <1> QED
    BY <1>1, <1>2, <1>3, <1>4, <1>5, <1>6, <1>7, <1>8, <1>9

\* A line is shown, or it is dropped and nothing is read any more.
LEMMA ShowInv ==
  ASSUME IInv, Show
  PROVE  IInv'
  <1> USE RoomAssumption DEF IInv, Show
  <1>1. TypeOK'
    <2>1. message \in Lines /\ Append(shown, message) \in Seq(Lines)
      BY DEF TypeOK
    <2>2. shown' \in Seq(Lines) /\ drain' \in {"reading", "idle"}
      BY <2>1 DEF TypeOK
    <2> QED
      BY <2>2 DEF TypeOK
  <1>2. PipeInv'
    BY DEF TypeOK, PipeInv, Scanned
  <1>3. ReaderInv'
    BY DEF TypeOK, PipeInv, ReaderInv, Scanned, Forwarded
  <1>4. CloseInv'
    BY DEF TypeOK, CloseInv
  <1>5. DrainInv'
    BY DEF TypeOK, CloseInv, DrainInv
  <1>6. ShownInv'
    <2>1. CASE ~onScreen
      BY <2>1 DEF ShownInv
    <2>2. CASE onScreen
      <3>0. message \in Lines /\ shown \in Seq(Lines) /\ shown' = Append(shown, message)
        BY <2>2 DEF TypeOK
      <3>1. /\ shown \in Seq(Lines) /\ Len(shown') = Len(shown) + 1
            /\ shown'[Len(shown) + 1] = message
            /\ \A i \in 1..Len(shown) : shown'[i] = shown[i]
        BY <3>0
      <3>2. /\ ~InShown(message)
            /\ \A k \in 1..(message.n - 1) : InShown(Line(message.stream, k))
        BY DEF HandlingInv, Attentive
      <3> SUFFICES ASSUME NEW j \in 1..Len(shown')
                   PROVE  /\ \A i \in 1..(j - 1) : shown'[i] # shown'[j]
                          /\ \A k \in 1..(shown'[j].n - 1) :
                                \E i \in 1..(j - 1) : shown'[i] = Line(shown'[j].stream, k)
        BY DEF ShownInv
      <3>3. CASE j \in 1..Len(shown)
        <4>1. shown'[j] = shown[j] /\ \A i \in 1..(j - 1) : shown'[i] = shown[i]
          BY <3>1, <3>3
        <4>2. /\ \A i \in 1..(j - 1) : shown[i] # shown[j]
              /\ \A k \in 1..(shown[j].n - 1) :
                    \E i \in 1..(j - 1) : shown[i] = Line(shown[j].stream, k)
          BY <3>3 DEF ShownInv
        <4> HIDE DEF Show, IInv
        <4> QED
          BY <4>1, <4>2
      <3>4. CASE j = Len(shown) + 1
        BY <3>1, <3>2, <3>4 DEF InShown
      <3> QED
        BY <3>1, <3>3, <3>4
    <2> QED
      BY <2>1, <2>2
  <1>7. HandlingInv'
    BY DEF HandlingInv, Attentive, InShown
  <1>8. ChannelInv'
    <2>1. CASE ~onScreen
      BY <2>1 DEF ChannelInv, Attentive
    <2>2. CASE onScreen
      <3>0. message \in Lines /\ shown \in Seq(Lines) /\ shown' = Append(shown, message)
        BY <2>2 DEF TypeOK
      <3>1. /\ shown \in Seq(Lines) /\ Len(shown') = Len(shown) + 1
            /\ shown'[Len(shown) + 1] = message
            /\ \A i \in 1..Len(shown) : shown'[i] = shown[i]
        BY <3>0
      <3>2. \A l : Taken(l)' <=> Taken(l)
        BY <2>2, <3>1 DEF Taken, InShown
      <3> QED
        BY <3>2 DEF ChannelInv, Attentive
    <2> QED
      BY <2>1, <2>2
  <1>9. SentInv'
    <2>1. CASE ~onScreen
      BY <2>1 DEF SentInv, Attentive
    <2>2. CASE onScreen
      <3>0. message \in Lines /\ shown \in Seq(Lines) /\ shown' = Append(shown, message)
        BY <2>2 DEF TypeOK
      <3>1. /\ shown \in Seq(Lines) /\ Len(shown') = Len(shown) + 1
            /\ shown'[Len(shown) + 1] = message
            /\ \A i \in 1..Len(shown) : shown'[i] = shown[i]
        BY <3>0
      <3>2. \A l : Taken(l)' <=> Taken(l)
        BY <2>2, <3>1 DEF Taken, InShown
      <3> QED
        BY <3>2 DEF SentInv, Attentive, InChannel, Sent, Scanned, Readable, Forwarded
    <2> QED
      BY <2>1, <2>2
  <1> QED
    BY <1>1, <1>2, <1>3, <1>4, <1>5, <1>6, <1>7, <1>8, <1>9

\* Leaving the screen changes no line.
LEMMA LeaveScreenInv ==
  ASSUME IInv, LeaveScreen
  PROVE  IInv'
  <1> USE RoomAssumption DEF IInv, LeaveScreen
  <1>1. TypeOK'
    BY DEF TypeOK, Lines, Streams
  <1>2. PipeInv'
    BY DEF TypeOK, PipeInv, Scanned
  <1>3. ReaderInv'
    BY DEF TypeOK, PipeInv, ReaderInv, Scanned, Forwarded
  <1>4. CloseInv'
    BY DEF TypeOK, CloseInv
  <1>5. DrainInv'
    BY DEF TypeOK, CloseInv, DrainInv
  <1>6. ShownInv'
    BY DEF ShownInv
  <1>7. HandlingInv'
    BY DEF HandlingInv, Attentive, InShown
  <1>8. ChannelInv'
    <2>1. \A l : Taken(l)' <=> Taken(l)
      BY DEF Taken, InShown
    <2> QED
      BY <2>1 DEF ChannelInv, Attentive
  <1>9. SentInv'
    BY DEF SentInv, Attentive, Taken, InShown, InChannel, Sent, Scanned, Readable, Forwarded
  <1> QED
    BY <1>1, <1>2, <1>3, <1>4, <1>5, <1>6, <1>7, <1>8, <1>9

-----------------------------------------------------------------------------
(* Theorems.                                                                *)

\* The inductive invariant holds in every state: for any number of lines, and for pipes
\* and a channel of any size.
THEOREM Invariance == Spec => []IInv
  <1>1. Init => IInv
    <2> SUFFICES ASSUME Init PROVE IInv
      OBVIOUS
    <2>1. TypeOK
      <3>1. 0 \in 0..MaxLines
        BY RoomAssumption
      <3>2. overlong \in [Streams -> 0..MaxLines]
        BY DEF Init
      <3>3. written \in [Streams -> 0..MaxLines] /\ pipe \in [Streams -> Seq(Lines)]
        BY <3>1 DEF Init
      <3>4. /\ reader \in [Streams -> {"scanning", "sending", "ended"}]
            /\ held \in [Streams -> Lines \union {NoLine}]
        BY DEF Init
      <3>5. <<>> \in Seq(Lines)
        OBVIOUS
      <3> QED
        BY <3>2, <3>3, <3>4, <3>5 DEF Init, TypeOK
    <2>2. \A s \in Streams : Scanned(s) = 0 /\ Sent(s) = 0
      BY DEF Init, Scanned, Sent
    <2>3. PipeInv /\ ReaderInv /\ CloseInv /\ DrainInv
      BY <2>1, <2>2 DEF Init, TypeOK, PipeInv, ReaderInv, CloseInv, DrainInv
    <2>4. ShownInv /\ HandlingInv /\ ChannelInv
      BY DEF Init, ShownInv, HandlingInv, ChannelInv
    <2>5. SentInv
      BY <2>2, RoomAssumption DEF Init, SentInv, Taken, InShown, InChannel
    <2> QED
      BY <2>1, <2>3, <2>4, <2>5 DEF IInv
  <1>2. IInv /\ [Next]_vars => IInv'
    <2> SUFFICES ASSUME IInv, [Next]_vars PROVE IInv'
      OBVIOUS
    <2>1. CASE UNCHANGED vars
      BY <2>1 DEF IInv, TypeOK, PipeInv, ReaderInv, CloseInv, DrainInv, ShownInv,
                  HandlingInv, ChannelInv, SentInv, Attentive, Taken, InShown, InChannel,
                  Sent, Scanned, Readable, Forwarded
    <2>2. CASE Docker \/ Kill
      BY <2>2, WriteInv, ExitInv, KillInv DEF Docker
    <2>3. ASSUME NEW s \in Streams, Reader(s) PROVE IInv'
      BY <2>3, ScanInv, ScanEOFInv, SendInv DEF Reader
    <2>4. CASE Caller
      BY <2>4, WaitInv, ReturnInv DEF Caller
    <2>5. CASE Consumer \/ LeaveScreen
      BY <2>5, ReceiveInv, ReceiveClosedInv, ShowInv, LeaveScreenInv DEF Consumer
    <2> QED
      BY <2>1, <2>2, <2>3, <2>4, <2>5 DEF Next
  <1> QED
    BY <1>1, <1>2, PTL DEF Spec

\* Every variable keeps its type, and a line being handled is a line.
THEOREM TypeCorrect == Spec => []TypeOK
  <1>1. IInv => TypeOK
    BY DEF IInv
  <1> QED
    BY <1>1, Invariance, PTL

\* The channel is never closed before both scanners are through, so no send panics.
THEOREM NeverSentAfterClose == Spec => []NoSendAfterClose
  <1>1. IInv => NoSendAfterClose
    BY DEF IInv, CloseInv, NoSendAfterClose
  <1> QED
    BY <1>1, Invariance, PTL

\* The lines of a stream are shown in order, none twice and none left out, and update has
\* printed every line that could be read when it returns.
THEOREM ProgressIsInOrder == Spec => []ProgressInOrder
  <1>1. IInv => ProgressInOrder
    <2> SUFFICES ASSUME IInv PROVE ProgressInOrder
      OBVIOUS
    <2>1. DOMAIN shown = 1..Len(shown)
      BY DEF IInv, TypeOK
    <2>2. ASSUME Finished, consumer = "loop", NEW s \in Streams, NEW k \in 1..MaxLines,
                 Forwarded(s)
          PROVE  (\E i \in DOMAIN shown : shown[i] = Line(s, k)) <=> k <= Readable(s)
      <3>1. drain = "idle" /\ onScreen /\ channel = <<>>
        BY <2>2 DEF IInv, Finished, DrainInv
      <3>2. Sent(s) = Readable(s)
        BY <2>2 DEF IInv, CloseInv, Finished, Sent
      <3>3. InShown(Line(s, k)) <=> k <= Readable(s)
        BY <3>1, <3>2 DEF IInv, SentInv, Attentive, Taken, InChannel
      <3> QED
        BY <2>1, <3>3 DEF InShown
    <2> QED
      BY <2>1, <2>2 DEF IInv, ShownInv, ProgressInOrder
  <1> QED
    BY <1>1, Invariance, PTL
=============================================================================
