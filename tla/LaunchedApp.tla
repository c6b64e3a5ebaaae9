------------------------------ MODULE LaunchedApp ------------------------------
(***************************************************************************)
(* The launcher's handle on one application (run/app_channel.py,           *)
(* LaunchedApp): a child process, one connection it may attach with, its   *)
(* stdout, and the queues that callers on other threads read.              *)
(*                                                                         *)
(* Who moves: the application process; three tasks on the handle's event   *)
(* loop (_accept, _wait, read_chunks), which run one at a time and can be  *)
(* interleaved at every await; a caller of connected(), a reader of        *)
(* events(), a reader of output(); and the owner, who stops or closes it.  *)
(***************************************************************************)
EXTENDS Naturals, Sequences

CONSTANTS MaxEvents,  \* events the application emits at most (bound)
          MaxChunks,  \* stdout chunks it writes at most (bound)
          Oversized,  \* the events longer than MAX_MESSAGE_BYTES
          Hello,      \* a hello that carries the launch's token
          WrongToken, \* one that does not
          Unreadable  \* one that is over-long, or no JSON

ASSUME BoundAssumption == MaxEvents \in Nat /\ MaxChunks \in Nat

None == 0     \* the sentinel that ends a queue, and receive() of a closed channel

VARIABLES
  \* the application process
  app,        \* "running" or "dead"
  line,       \* its end of the connection: "none", "open", "closed"
  wire,       \* what it sent and the launcher has not received
  greeted,    \* it has sent its hello
  emitted,    \* how many events it has sent
  pipe,       \* what it wrote to stdout and read_chunks has not read
  printed,    \* how many chunks it has written
  signal,     \* what the launcher did to it: "none", "terminate", "kill"
  \* the handle
  state, runId, exitCode, channel, listener, loop,
  connectedQ, eventsQ, outputQ,
  \* its tasks
  accept,     \* "accepting", "greeting", "relaying", "done", or "broken":
              \* an exception that nobody catches has ended it
  watch,      \* _wait: "waiting", "done"
  reading,    \* read_chunks: "reading", "done"
  \* the callers
  attached,   \* connected(): "waiting", "yes", "no"
  heard, eventsEnded,     \* events()
  seen, outputEnded,      \* output()
  owner       \* stop() and close(): where the owner stands

process == <<app, line, wire, greeted, emitted, pipe, printed>>
handle  == <<state, runId, exitCode, channel, listener, loop>>
queues  == <<connectedQ, eventsQ, outputQ>>
tasks   == <<accept, watch, reading>>
callers == <<attached, heard, eventsEnded, seen, outputEnded>>
vars    == <<process, signal, handle, queues, tasks, callers, owner>>

Events == 1 .. MaxEvents
Chunks == 1 .. MaxChunks
Hellos == {Hello, WrongToken, Unreadable}
Closing == {"ask", "grace", "check", "terminate", "bounded", "kill", "reap",
            "release", "tell"}

ProcessOK ==
    /\ app \in {"running", "dead"}
    /\ line \in {"none", "open", "closed"}
    /\ wire \in Seq(Hellos \cup Events)
    /\ greeted \in BOOLEAN
    /\ emitted \in 0 .. MaxEvents
    /\ pipe \in Seq(Chunks)
    /\ printed \in 0 .. MaxChunks
HandleOK ==
    /\ state \in {"STARTING", "CONNECTED", "EXITED", "STOPPED"}
    /\ runId \in BOOLEAN /\ exitCode \in BOOLEAN /\ channel \in BOOLEAN
    /\ listener \in {"open", "closed"}
    /\ loop \in {"running", "closed"}
QueuesOK ==
    /\ connectedQ \in Seq(BOOLEAN)
    /\ eventsQ \in Seq({None} \cup Events)
    /\ outputQ \in Seq({None} \cup Chunks)
TasksOK ==
    /\ accept \in {"accepting", "greeting", "relaying", "done", "broken"}
    /\ watch \in {"waiting", "done"}
    /\ reading \in {"reading", "done"}
CallersOK ==
    /\ attached \in {"waiting", "yes", "no"}
    /\ heard \in Seq(Events) /\ eventsEnded \in BOOLEAN
    /\ seen \in Seq(Chunks) /\ outputEnded \in BOOLEAN
OwnerOK ==
    /\ signal \in {"none", "terminate", "kill"}
    /\ owner \in {"idle", "stop", "closed", "raised"} \cup Closing

TypeOK == ProcessOK /\ HandleOK /\ QueuesOK /\ TasksOK /\ CallersOK /\ OwnerOK

(* LaunchedApp.__init__ has returned. *)
Init ==
    /\ app = "running" /\ line = "none" /\ wire = <<>> /\ greeted = FALSE
    /\ emitted = 0 /\ pipe = <<>> /\ printed = 0 /\ signal = "none"
    /\ state = "STARTING" /\ runId = FALSE /\ exitCode = FALSE
    /\ channel = FALSE /\ listener = "open" /\ loop = "running"
    /\ connectedQ = <<>> /\ eventsQ = <<>> /\ outputQ = <<>>
    /\ accept = "accepting" /\ watch = "waiting" /\ reading = "reading"
    /\ attached = "waiting"
    /\ heard = <<>> /\ eventsEnded = FALSE
    /\ seen = <<>> /\ outputEnded = FALSE
    /\ owner = "idle"

-----------------------------------------------------------------------------
(* The application process.  It may end at any point.                      *)

Connect ==
    /\ app = "running" /\ line = "none" /\ listener = "open"
    /\ line' = "open"
    /\ UNCHANGED <<app, wire, greeted, emitted, pipe, printed>>

SayHello ==
    /\ app = "running" /\ line = "open" /\ ~greeted
    /\ \E m \in Hellos : wire' = Append(wire, m)
    /\ greeted' = TRUE
    /\ UNCHANGED <<app, line, emitted, pipe, printed>>

Emit ==
    /\ app = "running" /\ line = "open" /\ greeted
    /\ emitted < MaxEvents
    /\ emitted' = emitted + 1
    /\ wire' = Append(wire, emitted')
    /\ UNCHANGED <<app, line, greeted, pipe, printed>>

Hangup ==
    /\ app = "running" /\ line = "open"
    /\ line' = "closed"
    /\ UNCHANGED <<app, wire, greeted, emitted, pipe, printed>>

WriteOutput ==
    /\ app = "running" /\ printed < MaxChunks
    /\ printed' = printed + 1
    /\ pipe' = Append(pipe, printed')
    /\ UNCHANGED <<app, line, wire, greeted, emitted>>

Exit ==
    /\ app = "running"
    /\ app' = "dead"
    /\ line' = IF line = "open" THEN "closed" ELSE line
    /\ UNCHANGED <<wire, greeted, emitted, pipe, printed>>

Application ==
    /\ Connect \/ SayHello \/ Emit \/ Hangup \/ WriteOutput \/ Exit
    /\ UNCHANGED <<signal, handle, queues, tasks, callers, owner>>

-----------------------------------------------------------------------------
(* The tasks on the loop.                                                  *)

(* _refused *)
Refuse ==
    /\ connectedQ' = Append(connectedQ, FALSE)
    /\ eventsQ' = Append(eventsQ, None)
    /\ accept' = "done"

(* Slip: a connection is an attachment, before its hello. *)
AcceptOneAnswers ==
    /\ accept = "accepting" /\ listener = "open" /\ line # "none"
    /\ accept' = "greeting"
    /\ listener' = "closed"
    /\ connectedQ' = Append(connectedQ, TRUE)
    /\ UNCHANGED <<process, state, runId, exitCode, channel, loop, eventsQ, outputQ>>

(* _accept: a connection is taken, and the listener closed. *)
AcceptOne ==
    /\ accept = "accepting" /\ listener = "open" /\ line # "none"
    /\ accept' = "greeting"
    /\ listener' = "closed"
    /\ UNCHANGED <<process, state, runId, exitCode, channel, loop, queues>>

(* _accept: _wait closed the listener under it. *)
AcceptRefused ==
    /\ accept = "accepting" /\ listener = "closed"
    /\ Refuse
    /\ UNCHANGED <<process, handle, outputQ>>

(* _accept: the hello carries the token. *)
Greet ==
    /\ accept = "greeting" /\ wire # <<>> /\ Head(wire) = Hello
    /\ wire' = Tail(wire)
    /\ channel' = TRUE
    /\ runId' = TRUE
    /\ state' = "CONNECTED"
    /\ connectedQ' = Append(connectedQ, TRUE)
    /\ accept' = "relaying"
    /\ UNCHANGED <<app, line, greeted, emitted, pipe, printed, exitCode,
                   listener, loop, eventsQ, outputQ>>

(* _accept: it does not, or the channel closed instead. *)
GreetRefused ==
    /\ accept = "greeting"
    /\ \/ wire # <<>> /\ Head(wire) \notin {Hello, Unreadable}
       \/ wire = <<>> /\ line = "closed"
    /\ line' = "closed"
    /\ wire' = <<>>
    /\ Refuse
    /\ UNCHANGED <<app, greeted, emitted, pipe, printed, handle, outputQ>>

(* _accept: receive() raises on the hello.  The task is over, the channel  *)
(* not closed, and nobody is told.                                         *)
GreetBreaks ==
    /\ accept = "greeting" /\ wire # <<>> /\ Head(wire) = Unreadable
    /\ wire' = Tail(wire)
    /\ accept' = "broken"
    /\ UNCHANGED <<app, line, greeted, emitted, pipe, printed, handle, queues>>

(* _accept: one event is passed on.  A line over MAX_MESSAGE_BYTES raises  *)
(* DelimiterNotFound, which receive() does not catch: the task is over.    *)
Relay ==
    /\ accept = "relaying" /\ wire # <<>>
    /\ wire' = Tail(wire)
    /\ IF Head(wire) \in Oversized
       THEN accept' = "broken" /\ UNCHANGED eventsQ
       ELSE eventsQ' = Append(eventsQ, Head(wire)) /\ UNCHANGED accept
    /\ UNCHANGED <<app, line, greeted, emitted, pipe, printed, handle,
                   connectedQ, outputQ>>

(* _accept: the channel has closed. *)
RelayEnds ==
    /\ accept = "relaying" /\ wire = <<>> /\ line = "closed"
    /\ eventsQ' = Append(eventsQ, None)
    /\ accept' = "done"
    /\ UNCHANGED <<process, handle, connectedQ, outputQ>>

Accept == /\ \/ AcceptOne \/ AcceptRefused \/ Greet \/ GreetRefused
             \/ GreetBreaks \/ Relay \/ RelayEnds
          /\ UNCHANGED <<signal, watch, reading, callers, owner>>

(* Slip: the exit answers who waits for the attachment. *)
WatchAnswers ==
    /\ watch = "waiting" /\ app = "dead"
    /\ watch' = "done"
    /\ exitCode' = TRUE
    /\ state' = IF state = "STOPPED" THEN state ELSE "EXITED"
    /\ listener' = IF channel THEN listener ELSE "closed"
    /\ outputQ' = Append(outputQ, None)
    /\ connectedQ' = IF connectedQ = <<>> /\ ~channel THEN <<FALSE>> ELSE connectedQ
    /\ eventsQ' = eventsQ
    /\ UNCHANGED <<process, signal, runId, channel, loop,
                   accept, reading, callers, owner>>

(* Slip: the exit ends the events. *)
WatchEndsEvents ==
    /\ watch = "waiting" /\ app = "dead"
    /\ watch' = "done"
    /\ exitCode' = TRUE
    /\ state' = IF state = "STOPPED" THEN state ELSE "EXITED"
    /\ listener' = IF channel THEN listener ELSE "closed"
    /\ outputQ' = Append(outputQ, None)
    /\ connectedQ' = connectedQ
    /\ eventsQ' = Append(eventsQ, None)
    /\ UNCHANGED <<process, signal, runId, channel, loop,
                   accept, reading, callers, owner>>

(* Slip: the listener stays open after the exit (#1175). *)
WatchKeepsListener ==
    /\ watch = "waiting" /\ app = "dead"
    /\ watch' = "done"
    /\ exitCode' = TRUE
    /\ state' = IF state = "STOPPED" THEN state ELSE "EXITED"
    /\ listener' = listener
    /\ outputQ' = Append(outputQ, None)
    /\ connectedQ' = connectedQ
    /\ eventsQ' = eventsQ
    /\ UNCHANGED <<process, signal, runId, channel, loop,
                   accept, reading, callers, owner>>

(* _wait: the process's exit is observed. *)
Watch ==
    /\ watch = "waiting" /\ app = "dead"
    /\ watch' = "done"
    /\ exitCode' = TRUE
    /\ state' = IF state = "STOPPED" THEN state ELSE "EXITED"
    /\ listener' = IF channel THEN listener ELSE "closed"
    /\ outputQ' = Append(outputQ, None)
    /\ UNCHANGED <<process, signal, runId, channel, loop, connectedQ, eventsQ,
                   accept, reading, callers, owner>>

(* read_chunks *)
ReadChunk ==
    /\ reading = "reading"
    /\ \/ /\ pipe # <<>>
          /\ outputQ' = Append(outputQ, Head(pipe))
          /\ pipe' = Tail(pipe)
          /\ UNCHANGED reading
       \/ /\ pipe = <<>> /\ app = "dead"
          /\ reading' = "done"
          /\ UNCHANGED <<outputQ, pipe>>
    /\ UNCHANGED <<app, line, wire, greeted, emitted, printed, signal, handle,
                   connectedQ, eventsQ, accept, watch, callers, owner>>

-----------------------------------------------------------------------------
(* The callers.                                                            *)

(* connected() takes the one answer. *)
Connected ==
    /\ attached = "waiting" /\ connectedQ # <<>>
    /\ attached' = IF Head(connectedQ) THEN "yes" ELSE "no"
    /\ connectedQ' = Tail(connectedQ)
    /\ UNCHANGED <<process, signal, handle, eventsQ, outputQ, tasks, heard,
                   eventsEnded, seen, outputEnded, owner>>

(* The generator of events() takes the next one, or ends. *)
ReadEvent ==
    /\ ~eventsEnded /\ eventsQ # <<>>
    /\ eventsQ' = Tail(eventsQ)
    /\ IF Head(eventsQ) = None
       THEN eventsEnded' = TRUE /\ UNCHANGED heard
       ELSE heard' = Append(heard, Head(eventsQ)) /\ UNCHANGED eventsEnded
    /\ UNCHANGED <<process, signal, handle, connectedQ, outputQ, tasks,
                   attached, seen, outputEnded, owner>>

ReadOutput ==
    /\ ~outputEnded /\ outputQ # <<>>
    /\ outputQ' = Tail(outputQ)
    /\ IF Head(outputQ) = None
       THEN outputEnded' = TRUE /\ UNCHANGED seen
       ELSE seen' = Append(seen, Head(outputQ)) /\ UNCHANGED outputEnded
    /\ UNCHANGED <<process, signal, handle, connectedQ, eventsQ, tasks,
                   attached, heard, eventsEnded, owner>>

-----------------------------------------------------------------------------
(* The owner's thread.  stop() reads exit_code and acts on it: the exit    *)
(* may be observed in between.                                             *)

Stop ==
    /\ owner = "idle" /\ ~exitCode
    /\ owner' = "stop"
    /\ UNCHANGED <<process, signal, handle, queues, tasks, callers>>

(* Slip: the state while the SIGTERM is not yet answered has a name of its *)
(* own.                                                                    *)
TerminateStopping ==
    /\ owner \in {"stop", "terminate"}
    /\ owner' = IF owner = "stop" THEN "idle" ELSE "bounded"
    /\ state' = "STOPPING"
    /\ signal' = IF signal = "none" THEN "terminate" ELSE signal
    /\ UNCHANGED <<process, runId, exitCode, channel, listener, loop, queues,
                   tasks, callers>>

(* state = STOPPED; terminate() -- by stop(), or by close() through it. *)
Terminate ==
    /\ owner \in {"stop", "terminate"}
    /\ owner' = IF owner = "stop" THEN "idle" ELSE "bounded"
    /\ state' = "STOPPED"
    /\ signal' = IF signal = "none" THEN "terminate" ELSE signal
    /\ UNCHANGED <<process, runId, exitCode, channel, listener, loop, queues,
                   tasks, callers>>

(* close(): a running application that attached is asked to close. *)
Close ==
    /\ owner = "idle"
    /\ owner' = IF runId /\ ~exitCode THEN "ask" ELSE "check"
    /\ UNCHANGED <<process, signal, handle, queues, tasks, callers>>

(* close(): the command is sent.  It raises when the application's end of  *)
(* the connection is already closed, and close() does not catch that.      *)
Ask ==
    /\ owner = "ask"
    /\ \/ owner' = "grace"
       \/ line = "closed" /\ owner' = "raised"
    /\ UNCHANGED <<process, signal, handle, queues, tasks, callers>>

(* close(): it ended within the grace, or the grace is over. *)
Grace ==
    /\ owner = "grace"
    /\ owner' = "check"
    /\ UNCHANGED <<process, signal, handle, queues, tasks, callers>>

(* Slip: stop() does not look at exit_code. *)
CheckNothing ==
    /\ owner = "check"
    /\ owner' = "terminate"
    /\ UNCHANGED <<process, signal, handle, queues, tasks, callers>>

(* close() calls stop(): an application that has ended is left alone. *)
Check ==
    /\ owner = "check"
    /\ owner' = IF exitCode THEN "release" ELSE "terminate"
    /\ UNCHANGED <<process, signal, handle, queues, tasks, callers>>

(* Slip: the SIGTERM is not waited for. *)
BoundedUnwaited ==
    /\ owner = "bounded"
    /\ owner' = "release"
    /\ UNCHANGED <<process, signal, handle, queues, tasks, callers>>

(* Slip: the SIGTERM is waited for without a bound. *)
BoundedForever ==
    /\ owner = "bounded"
    /\ owner' = "reap"
    /\ UNCHANGED <<process, signal, handle, queues, tasks, callers>>

(* close(): it ended after the SIGTERM, or is killed. *)
Bounded ==
    /\ owner = "bounded"
    /\ \/ watch = "done" /\ owner' = "release"
       \/ watch = "waiting" /\ owner' = "kill"
    /\ UNCHANGED <<process, signal, handle, queues, tasks, callers>>

Kill ==
    /\ owner = "kill"
    /\ signal' = "kill"
    /\ owner' = "reap"
    /\ UNCHANGED <<process, handle, queues, tasks, callers>>

Reap ==
    /\ owner = "reap" /\ watch = "done"
    /\ owner' = "release"
    /\ UNCHANGED <<process, signal, handle, queues, tasks, callers>>

(* close(): the transport is released and the loop closed, which cancels   *)
(* the tasks still on it.                                                  *)
Release ==
    /\ owner = "release"
    /\ loop' = "closed"
    /\ accept' = "done" /\ watch' = "done" /\ reading' = "done"
    /\ owner' = "tell"
    /\ UNCHANGED <<process, signal, state, runId, exitCode, channel, listener,
                   queues, callers>>

(* close(): whoever still waits is told; _connected holds one answer. *)
Tell ==
    /\ owner = "tell"
    /\ eventsQ' = Append(eventsQ, None)
    /\ connectedQ' = IF connectedQ = <<>> THEN <<FALSE>> ELSE connectedQ
    /\ exitCode' = TRUE
    /\ state' = IF exitCode \/ state = "STOPPED" THEN state ELSE "EXITED"
    /\ owner' = "closed"
    /\ UNCHANGED <<process, signal, runId, channel, listener, loop, outputQ,
                   tasks, callers>>

Owner == \/ Terminate \/ Ask \/ Grace \/ Check \/ Bounded \/ Kill \/ Reap
         \/ Release \/ Tell

Next == \/ Application \/ Accept \/ Watch \/ ReadChunk
        \/ Connected \/ ReadEvent \/ ReadOutput
        \/ Stop \/ Close \/ Owner

(* SIGKILL is not refused; everything else the application does is its own *)
(* choice.                                                                 *)
Killed == signal = "kill" /\ Exit
          /\ UNCHANGED <<signal, handle, queues, tasks, callers, owner>>

Spec == Init /\ [][Next]_vars

(* The loop runs its tasks, callers' threads run, and a close() begun goes *)
(* on.  Nobody has to call stop() or close().                              *)
FairSpec ==
    /\ Spec
    /\ WF_vars(Accept) /\ WF_vars(Watch) /\ WF_vars(ReadChunk)
    /\ WF_vars(Connected) /\ WF_vars(ReadEvent) /\ WF_vars(ReadOutput)
    /\ WF_vars(Owner) /\ WF_vars(Killed)

-----------------------------------------------------------------------------
(* connected() tells the truth, once and for all: True only to a handle    *)
(* that carries the application's run id, False only for one that never    *)
(* will -- whatever races the exit, a stop or a close.                     *)
AttachedTruth == /\ attached = "yes" => runId
                 /\ attached = "no" => ~runId

(* The put of an answer into the one-place _connected never blocks the     *)
(* loop: it is empty, and nobody has answered, while _accept has still to  *)
(* put one.                                                                *)
AnswerPutNeverBlocks ==
    /\ Len(connectedQ) <= 1
    /\ accept \in {"accepting", "greeting"} => connectedQ = <<>>

(* Events reach the reader in order, and while the handle is not closed    *)
(* the end of events() means there are no more.                            *)
EventsComplete ==
    /\ heard = [i \in 1 .. Len(heard) |-> i]
    /\ eventsEnded /\ loop = "running" /\ runId => Len(heard) = emitted

(* When close() returns, the process is dead and its exit known, and       *)
(* nothing of it runs on.                                                  *)
ClosedMeansEnded ==
    owner = "closed" => /\ app = "dead" /\ exitCode /\ loop = "closed"
                        /\ accept = "done" /\ watch = "done"

(* Where stop() and close() have decided on a signal: stop() found no exit *)
(* code, close() waited for the end in vain.                               *)
Decided == {"stop", "terminate", "kill"}

(* Once its end was observed, an application is not signalled again, for   *)
(* its process id may by then be another process's, and its end stays      *)
(* known.  Only an owner that had decided on a signal before still gives   *)
(* it, and then no other: it is not Decided afterwards.                    *)
EndedIsLeftAlone ==
    \A s \in {"none", "terminate", "kill"} :
        [](exitCode /\ signal = s /\ owner \notin Decided
            => [](exitCode /\ signal = s))

(* Every reader and waiter is told when the application has ended or the   *)
(* handle is closed, attached or never (#1175).  Only where an exception   *)
(* has ended the accept task do they have to wait for the close: the       *)
(* reader of events(), and, if it was the hello that raised, the waiter of *)
(* connected().                                                            *)
EveryoneIsTold ==
    /\ app = "dead" ~>
         /\ outputEnded
         /\ attached # "waiting" \/ (accept = "broken" /\ ~channel)
         /\ eventsEnded \/ accept = "broken"
    /\ owner = "closed" ~> eventsEnded /\ outputEnded /\ attached # "waiting"

(* close() is bounded, even for an application that ignores the command    *)
(* and the SIGTERM.                                                        *)
CloseReturns == owner \in Closing ~> owner \in {"closed", "raised"}
=============================================================================
