---------------------------- MODULE ComposeStream ----------------------------
(***************************************************************************)
(* One `docker compose pull' or `up --detach' with its progress lines:     *)
(* OSStreamingCommandRunner.Stream (internal/platform/command.go) reads    *)
(* the two pipes of the process, one in a goroutine, one in the caller;    *)
(* CLICompose.Pull and Up (internal/compose/runner.go) send each line into *)
(* a bounded channel; and one of three consumers takes it out again:       *)
(*   "screen"      the pull or deploy screen of the TUI, a command at a    *)
(*                 time, each one issued by the handler of the line before *)
(*                 it (tui/pull.go, tui/deploy.go);                        *)
(*   "background"  a goroutine of the unattended installation, which waits *)
(*                 for the command and not for the goroutine               *)
(*                 (headless/run.go);                                      *)
(*   "loop"        update, which drains the channel until it is closed     *)
(*                 (update/run.go).                                        *)
(* A line is its stream and its number; Overlong is a line longer than the *)
(* scanner's buffer, which ends the scan, an error nobody looks at.        *)
(***************************************************************************)
EXTENDS Naturals, Sequences

CONSTANTS MaxLines,   \* bound: lines the process writes to one stream
          PipeRoom,   \* bound: lines a pipe of the operating system holds
          ChanRoom    \* bound: lines the progress channel holds (64 in the code)

ASSUME RoomAssumption ==
    MaxLines \in Nat /\ PipeRoom \in Nat \ {0} /\ ChanRoom \in Nat \ {0}

VARIABLES op,        \* "pull" sends the lines of both streams, "up" those of stdout
          consumer,  \* who drains the channel
          total,     \* per stream, the number of lines the process has to write
          overlong,  \* per stream, which of them is too long, 0 for none
          written,   \* per stream, the number of lines written
          proc,      \* the process: running, exited or killed
          pipe,      \* per stream, the lines in the pipe
          reader,    \* per stream, its scanner: scanning, sending or ended
          held,      \* per stream, the line being sent
          channel,   \* the progress channel
          closed,    \* it was closed
          caller,    \* the function that runs the command and closes the channel
          drain,     \* the consumer: reading, handling a line, or idle
          message,   \* that line
          onScreen,  \* the screen that started the command is still shown
          shown      \* the lines displayed or printed, in order

command == <<op, consumer, total, overlong>>
process == <<written, proc>>
readers == <<pipe, reader, held>>
chan == <<channel, closed>>
display == <<drain, message, onScreen, shown>>
vars == <<command, process, readers, chan, caller, display>>

Streams == {"stdout", "stderr"}
Line(s, k) == [stream |-> s, n |-> k]
NoLine == Line("none", 0)

Init ==
    /\ op \in {"pull", "up"}
    /\ consumer \in {"screen", "background", "loop"}
    /\ total \in [Streams -> 0..MaxLines]
    /\ overlong \in {w \in [Streams -> 0..MaxLines] : \A s \in Streams : w[s] <= total[s]}
    /\ written = [s \in Streams |-> 0] /\ proc = "running"
    /\ pipe = [s \in Streams |-> <<>>]
    /\ reader = [s \in Streams |-> "scanning"] /\ held = [s \in Streams |-> NoLine]
    /\ channel = <<>> /\ closed = FALSE
    /\ caller = "streaming"
    /\ drain = "reading" /\ message = NoLine /\ onScreen = TRUE /\ shown = <<>>

-----------------------------------------------------------------------------
(* The process (docker, external).                                          *)

\* A write blocks while the pipe is full.
Write(s) ==
    /\ proc = "running" /\ written[s] < total[s] /\ Len(pipe[s]) < PipeRoom
    /\ written' = [written EXCEPT ![s] = @ + 1]
    /\ pipe' = [pipe EXCEPT ![s] = Append(@, Line(s, written[s] + 1))]
    /\ UNCHANGED <<command, proc, reader, held, chan, caller, display>>

Exit ==
    /\ proc = "running" /\ written = total
    /\ proc' = "exited"
    /\ UNCHANGED <<command, written, readers, chan, caller, display>>

\* exec.CommandContext: the TUI passes context.Background(), the others their own.
Kill ==
    /\ proc = "running" /\ consumer # "screen"
    /\ proc' = "killed"
    /\ UNCHANGED <<command, written, readers, chan, caller, display>>

-----------------------------------------------------------------------------
(* Stream, and the callbacks that Pull and Up give it.                      *)

\* The lines that a callback sends into the channel.
Forwarded(s) == op = "pull" \/ s = "stdout"

\* scanner.Scan: an overlong line ends it like the end of the file, and what follows
\* stays in the pipe.
Scan(s) ==
    /\ reader[s] = "scanning" /\ pipe[s] # <<>>
    /\ LET line == Head(pipe[s])
           fits == line.n # overlong[s]
           sends == fits /\ Forwarded(s)
       IN /\ pipe' = [pipe EXCEPT ![s] = Tail(@)]
          /\ reader' = [reader EXCEPT ![s] = IF sends THEN "sending"
                                             ELSE IF fits THEN "scanning" ELSE "ended"]
          /\ held' = [held EXCEPT ![s] = IF sends THEN line ELSE NoLine]
    /\ UNCHANGED <<command, process, chan, caller, display>>

ScanEOF(s) ==
    /\ reader[s] = "scanning" /\ pipe[s] = <<>> /\ proc # "running"
    /\ reader' = [reader EXCEPT ![s] = "ended"]
    /\ UNCHANGED <<command, process, pipe, held, chan, caller, display>>

\* progress <- msg, which blocks while the channel is full.
Send(s) ==
    /\ reader[s] = "sending" /\ Len(channel) < ChanRoom
    /\ channel' = Append(channel, held[s])
    /\ reader' = [reader EXCEPT ![s] = "scanning"]
    /\ held' = [held EXCEPT ![s] = NoLine]
    /\ UNCHANGED <<command, process, pipe, closed, caller, display>>

\* Mutant: the caller does not wait for the goroutine that reads stdout.
MutWait ==
    /\ caller = "streaming" /\ reader["stderr"] = "ended" /\ proc # "running"
    /\ caller' = "closing"
    /\ UNCHANGED <<command, process, readers, chan, display>>

\* The caller reads stderr, then waits for the goroutine that reads stdout (<-done) and
\* for the process (cmd.Wait).
Wait ==
    /\ caller = "streaming" /\ \A s \in Streams : reader[s] = "ended"
    /\ proc # "running"
    /\ caller' = "closing"
    /\ UNCHANGED <<command, process, readers, chan, display>>

\* Pull or Up returned.  The screen's command and update close the channel; the
\* unattended installation does not, and goes on at once.
Return ==
    /\ caller = "closing" /\ caller' = "returned"
    /\ closed' = (consumer # "background")
    /\ UNCHANGED <<command, process, readers, channel, display>>

-----------------------------------------------------------------------------
(* The consumer.                                                            *)

\* drainNext's command, or a turn of a range loop: one line, or the end of the channel.
Receive ==
    /\ drain = "reading" /\ channel # <<>>
    /\ channel' = Tail(channel) /\ message' = Head(channel)
    /\ drain' = "handling"
    /\ UNCHANGED <<command, process, readers, closed, caller, onScreen, shown>>

ReceiveClosed ==
    /\ drain = "reading" /\ channel = <<>> /\ closed
    /\ drain' = "idle"
    /\ UNCHANGED <<command, process, readers, chan, caller, message, onScreen, shown>>

\* Mutant: the handler forgets to issue the next drain command.
MutShow ==
    /\ drain = "handling"
    /\ shown' = Append(shown, message) /\ drain' = "idle"
    /\ message' = NoLine
    /\ UNCHANGED <<command, process, readers, chan, caller, onScreen>>

\* PullProgressMsg or UpProgressMsg: the screen shows the line and issues the next drain
\* command; another screen, if that is what is shown by now, ignores the message.
Show ==
    /\ drain = "handling"
    /\ IF onScreen THEN shown' = Append(shown, message) /\ drain' = "reading"
       ELSE UNCHANGED shown /\ drain' = "idle"
    /\ message' = NoLine
    /\ UNCHANGED <<command, process, readers, chan, caller, onScreen>>

\* A quit request with a live lease, or a result that comes late, puts another screen in
\* the place of the one that drains (module InstallerTUI).
LeaveScreen ==
    /\ consumer = "screen" /\ onScreen
    /\ onScreen' = FALSE
    /\ UNCHANGED <<command, process, readers, chan, caller, drain, message, shown>>

\* Mutant: update returns with the command and leaves its loop behind.
MutFinished == caller = "returned"

\* What the function that started the command returns after: update when its loop has
\* ended, the other two with the command.
Finished == caller = "returned" /\ (consumer = "loop" => drain = "idle")

-----------------------------------------------------------------------------
Docker == (\E s \in Streams : Write(s)) \/ Exit
Reader(s) == Scan(s) \/ ScanEOF(s) \/ Send(s)
Caller == Wait \/ Return
Consumer == Receive \/ ReceiveClosed \/ Show

Next == Docker \/ Kill \/ (\E s \in Streams : Reader(s)) \/ Caller \/ Consumer \/ LeaveScreen

\* The goroutines run and docker writes what it has to write and ends; nobody has to
\* leave the screen or to cancel.
Fairness ==
    /\ WF_vars(Docker) /\ WF_vars(Caller) /\ WF_vars(Consumer)
    /\ \A s \in Streams : WF_vars(Reader(s))

Spec == Init /\ [][Next]_vars /\ Fairness

-----------------------------------------------------------------------------
(* Properties.                                                              *)

\* Nothing is sent into the channel after it was closed, which would end the installer
\* with a panic: both scanners are through when Stream returns, although one of them runs
\* in a goroutine of its own and may be blocked in a send when the process has ended.
NoSendAfterClose == closed => \A s \in Streams : reader[s] = "ended"

\* What gets through of a stream that has been read to its end.
Readable(s) == IF overlong[s] \in 1..written[s] THEN overlong[s] - 1 ELSE written[s]

\* Each stream's lines are shown in the order in which they were written, none left out
\* and none twice, also on the screen, where every line comes from a goroutine of its own
\* and through the event loop; and when update returns it has printed every one that the
\* process wrote, up to a line that is too long.
ProgressInOrder ==
    /\ \A j \in DOMAIN shown :
          /\ \A i \in 1..(j - 1) : shown[i] # shown[j]
          /\ \A k \in 1..(shown[j].n - 1) :
                \E i \in 1..(j - 1) : shown[i] = Line(shown[j].stream, k)
    /\ Finished /\ consumer = "loop" =>
          \A s \in Streams, k \in 1..MaxLines : Forwarded(s) =>
              ((\E i \in DOMAIN shown : shown[i] = Line(s, k)) <=> k <= Readable(s))

\* The command always returns, however many lines it writes and however small the
\* channel and the pipes are, as long as its screen is not left and no line is too long.
StreamReturns ==
    [](onScreen /\ \A s \in Streams : overlong[s] = 0) => <>Finished

-----------------------------------------------------------------------------
(* What comments say and the code does not do.                              *)

\* runner.go:153, of Pull: "Closes the channel when done."  The goroutine that prints the
\* lines of the unattended installation ends.
DrainerEnds == <>(drain = "idle")
=============================================================================
