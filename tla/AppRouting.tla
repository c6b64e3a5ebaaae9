------------------------------ MODULE AppRouting ------------------------------
(***************************************************************************)
(* Requests between the applications of one execution context:             *)
(* AttachedApp.request in the asking process (run/app_channel.py), and the *)
(* AppTransports of the context that route it (run/app_transports.py).     *)
(*                                                                         *)
(* Every application has attached and its transport is held and started.   *)
(* A request is emitted by its asker, handed by the asker's pump to a      *)
(* worker of its own, sent by the worker to the application its            *)
(* destination names, answered by that application, handed by that one's   *)
(* pump to the worker, and sent back.  Any application may hang up or die, *)
(* any transport may be closed, and the context may die, between any two.  *)
(***************************************************************************)
EXTENDS Naturals, Sequences, FiniteSets

CONSTANTS Apps,      \* the applications of the context
          Requests,  \* the requests made, each at most once
          Asker,     \* who makes it
          Target,    \* whom it names
          Nowhere,   \* a destination this context does not hold
          Fragile    \* the applications that may hang up, die or be closed

ASSUME RouteAssumption ==
          /\ Nowhere \notin Apps
          /\ Asker \in [Requests -> Apps]
          /\ Target \in [Requests -> Apps \cup {Nowhere}]
          /\ Fragile \subseteq Apps

None == [kind |-> "none"]
Shut == [kind |-> "shut"]     \* _hand(waiter, None): the channel closed
Message(k, r) == [kind |-> k, id |-> r]
Replies == {"answer", "not_held", "timeout", "ended"}

VARIABLES
  \* the applications' processes
  alive,    \* by application
  line,     \* its end of the channel: "open", "closing", "closed"
  hearing,  \* it iterates commands()
  ask,      \* by request: where AttachedApp.request stands
  slot,     \* by request: its one-place queue
  serving,  \* the commands received and not yet answered
  served,   \* history: the requests answered
  strays,   \* history: replies yielded as commands
  \* the channels
  up, down,
  \* the context
  context,  \* "up" or "down"
  held,     \* the applications whose transport is held
  loop,     \* by application: its handle's loop, "running" or "closed"
  putting,  \* by application: the answer its pump has found a waiter for
  forward,  \* by request: where its worker stands
  answered, \* the requests whose worker's queue holds the answer
  reply,    \* by request: what its worker got
  pushed    \* history: answers pushed to the subscribers

processes == <<alive, line, hearing, ask, slot, serving, served, strays>>
channels  == <<up, down>>
transports == <<held, loop, putting, forward, answered, reply, pushed>>
vars == <<processes, channels, context, transports>>

Asks == {"new", "registered", "waiting", "timed_out", "shut", "raised",
         "command"} \cup Replies
Forwards == {"none", "route", "found", "send", "sent", "await", "reply", "done", "died"}
UpMessages == {Message(k, r) : k \in {"route", "result"}, r \in Requests}
DownMessages == {Message(k, r) : k \in {"command"} \cup Replies, r \in Requests}

TypeOK ==
    /\ alive \in [Apps -> BOOLEAN] /\ hearing \in [Apps -> BOOLEAN]
    /\ line \in [Apps -> {"open", "closing", "closed"}]
    /\ ask \in [Requests -> Asks]
    /\ slot \in [Requests -> DownMessages \cup {None, Shut}]
    /\ serving \subseteq Requests /\ served \subseteq Requests
    /\ strays \subseteq Requests
    /\ up \in [Apps -> Seq(UpMessages)] /\ down \in [Apps -> Seq(DownMessages)]
    /\ context \in {"up", "down"}
    /\ held \subseteq Apps
    /\ loop \in [Apps -> {"running", "closed"}]
    /\ putting \in [Apps -> UpMessages \cup {None}]
    /\ forward \in [Requests -> Forwards]
    /\ answered \subseteq Requests
    /\ reply \in [Requests -> Replies \cup {"none"}]
    /\ pushed \subseteq Requests

Init ==
    /\ alive = [a \in Apps |-> TRUE] /\ hearing = [a \in Apps |-> TRUE]
    /\ line = [a \in Apps |-> "open"]
    /\ ask = [r \in Requests |-> "new"] /\ slot = [r \in Requests |-> None]
    /\ serving = {} /\ served = {} /\ strays = {}
    /\ up = [a \in Apps |-> <<>>] /\ down = [a \in Apps |-> <<>>]
    /\ context = "up"
    /\ held = Apps /\ loop = [a \in Apps |-> "running"]
    /\ putting = [a \in Apps |-> None]
    /\ forward = [r \in Requests |-> "none"]
    /\ answered = {} /\ reply = [r \in Requests |-> "none"] /\ pushed = {}

-----------------------------------------------------------------------------
(* The asking application.                                                 *)

(* The requests in _pending of application a. *)
Pending(a) == {r \in Requests : Asker[r] = a /\ ask[r] \in {"registered", "waiting"}}

(* request: a queue of its own is put into _pending. *)
Register(r) ==
    /\ alive[Asker[r]] /\ ask[r] = "new"
    /\ ask' = [ask EXCEPT ![r] = "registered"]
    /\ UNCHANGED <<alive, line, hearing, slot, serving, served, strays,
                   channels, context, transports>>

(* What is sent to a context that is down is lost. *)
SendUp(a, m) ==
    up' = IF context = "up" THEN [up EXCEPT ![a] = Append(@, m)] ELSE up

(* request: the envelope is emitted, which raises on a closed channel. *)
Emit(r) ==
    LET a == Asker[r] IN
    /\ alive[a] /\ ask[r] = "registered"
    /\ \/ /\ line[a] # "closed"
          /\ SendUp(a, Message("route", r))
          /\ ask' = [ask EXCEPT ![r] = "waiting"]
       \/ /\ line[a] = "closed" \/ context = "down"
          /\ ask' = [ask EXCEPT ![r] = "raised"]
          /\ UNCHANGED up
    /\ UNCHANGED <<alive, line, hearing, slot, serving, served, strays, down,
                   context, transports>>

(* request: what was handed over is returned, or raised when it is None. *)
Take(r) ==
    /\ alive[Asker[r]] /\ ask[r] = "waiting" /\ slot[r] # None
    /\ ask' = [ask EXCEPT ![r] = slot[r].kind]
    /\ UNCHANGED <<alive, line, hearing, slot, serving, served, strays,
                   channels, context, transports>>

(* request: IO_REQUEST_SECONDS are over. *)
GiveUp(r) ==
    /\ alive[Asker[r]] /\ ask[r] = "waiting"
    /\ ask' = [ask EXCEPT ![r] = "timed_out"]
    /\ UNCHANGED <<alive, line, hearing, slot, serving, served, strays,
                   channels, context, transports>>

-----------------------------------------------------------------------------
(* Any application.                                                        *)

(* commands: one message is received.  It is handed to the request waiting *)
(* under its id -- the first one only -- or yielded as a command.          *)
Hear(a) ==
    /\ alive[a] /\ hearing[a] /\ line[a] # "closed" /\ down[a] # <<>>
    /\ down' = [down EXCEPT ![a] = Tail(@)]
    /\ LET m == Head(down[a]) IN
       IF m.id \in Pending(a)
       THEN /\ slot' = [slot EXCEPT ![m.id] = IF @ = None THEN m ELSE @]
            /\ UNCHANGED <<serving, strays>>
       ELSE /\ IF m.kind = "command"
               THEN serving' = serving \cup {m.id} /\ UNCHANGED strays
               ELSE strays' = strays \cup {m.id} /\ UNCHANGED serving
            /\ UNCHANGED slot
    /\ UNCHANGED <<alive, line, hearing, ask, served, up, context, transports>>

(* _release_waiting *)
Release(a) ==
    slot' = [r \in Requests |->
               IF r \in Pending(a) /\ slot[r] = None THEN Shut ELSE slot[r]]

(* Slip: who waits is not told. *)
HearEndSilently(a) ==
    /\ alive[a] /\ hearing[a] /\ line[a] # "closed"
    /\ down[a] = <<>> /\ context = "down"
    /\ hearing' = [hearing EXCEPT ![a] = FALSE]
    /\ UNCHANGED <<alive, line, ask, slot, serving, served, strays, channels,
                   context, transports>>

(* commands: the launcher's end has closed. *)
HearEnd(a) ==
    /\ alive[a] /\ hearing[a] /\ line[a] # "closed"
    /\ down[a] = <<>> /\ context = "down"
    /\ hearing' = [hearing EXCEPT ![a] = FALSE]
    /\ Release(a)
    /\ UNCHANGED <<alive, line, ask, serving, served, strays, channels,
                   context, transports>>

(* A command is answered with one message under its request_id. *)
Answer(r) ==
    LET b == Target[r] IN
    /\ r \in serving /\ alive[b] /\ line[b] # "closed"
    /\ serving' = serving \ {r}
    /\ served' = served \cup {r}
    /\ SendUp(b, Message("result", r))
    /\ UNCHANGED <<alive, line, hearing, ask, slot, strays, down, context,
                   transports>>

(* AttachedApp.close: who waits is told.                                   *)
HangUp(a) ==
    /\ a \in Fragile /\ alive[a] /\ line[a] = "open"
    /\ Release(a)
    /\ line' = [line EXCEPT ![a] = "closing"]
    /\ UNCHANGED <<alive, hearing, ask, serving, served, strays, channels,
                   context, transports>>

(* AttachedApp.close: the channel and then the loop are closed.  Another   *)
(* thread that hears tells once more, unless the loop is closed before it. *)
CloseChannel(a) ==
    /\ alive[a] /\ line[a] = "closing"
    /\ line' = [line EXCEPT ![a] = "closed"]
    /\ hearing' = [hearing EXCEPT ![a] = FALSE]
    /\ \/ UNCHANGED slot
       \/ hearing[a] /\ Release(a)
    /\ UNCHANGED <<alive, ask, serving, served, strays, channels, context,
                   transports>>

(* The process ends. *)
Exit(a) ==
    /\ a \in Fragile /\ alive[a]
    /\ alive' = [alive EXCEPT ![a] = FALSE]
    /\ line' = [line EXCEPT ![a] = "closed"]
    /\ hearing' = [hearing EXCEPT ![a] = FALSE]
    /\ UNCHANGED <<ask, slot, serving, served, strays, channels, context,
                   transports>>

-----------------------------------------------------------------------------
(* The transports.                                                         *)

(* AppTransport.ended: the exit is known and everything emitted was pushed.*)
Ended(a) == ~alive[a] /\ up[a] = <<>> /\ putting[a] = None

(* Slip: a request is pending once its command has been sent. *)
AwaitedLate(b) == {r \in Requests : Target[r] = b /\ forward[r] = "await"}

(* The requests in _pending of the transport of b. *)
Awaited(b) == {r \in Requests : Target[r] = b /\ forward[r] \in {"send", "sent", "await"}}

(* _push: a route envelope goes to a worker of its own; the waiter of an   *)
(* answer is looked up under the guard; an answer nothing waits for goes   *)
(* to the subscribers.                                                     *)
Pump(a) ==
    /\ context = "up" /\ up[a] # <<>> /\ putting[a] = None
    /\ up' = [up EXCEPT ![a] = Tail(@)]
    /\ LET m == Head(up[a]) IN
       \/ /\ m.kind = "route"
          /\ forward' = [forward EXCEPT ![m.id] = "route"]
          /\ UNCHANGED <<putting, pushed>>
       \/ /\ m.kind = "result" /\ m.id \in Awaited(a)
          /\ putting' = [putting EXCEPT ![a] = m]
          /\ UNCHANGED <<forward, pushed>>
       \/ /\ m.kind = "result" /\ m.id \notin Awaited(a)
          /\ pushed' = pushed \cup {m.id}
          /\ UNCHANGED <<forward, putting>>
    /\ UNCHANGED <<processes, down, context, held, loop, answered, reply>>

(* _push: the answer is put into the queue of the waiter found, which may  *)
(* have given up since.                                                    *)
Put(a) ==
    /\ context = "up" /\ putting[a] # None
    /\ answered' = answered \cup {putting[a].id}
    /\ putting' = [putting EXCEPT ![a] = None]
    /\ UNCHANGED <<processes, channels, context, held, loop, forward, reply,
                   pushed>>

(* _forward, get: the transport the destination names. *)
Find(r) ==
    /\ context = "up" /\ forward[r] = "route"
    /\ IF Target[r] \in held
       THEN forward' = [forward EXCEPT ![r] = "found"] /\ UNCHANGED reply
       ELSE /\ forward' = [forward EXCEPT ![r] = "reply"]
            /\ reply' = [reply EXCEPT ![r] = "not_held"]
    /\ UNCHANGED <<processes, channels, context, held, loop, putting,
                   answered, pushed>>

(* AppTransport.request: pending before the command is sent. *)
Await(r) ==
    /\ context = "up" /\ forward[r] = "found"
    /\ forward' = [forward EXCEPT ![r] = "send"]
    /\ UNCHANGED <<processes, channels, context, held, loop, putting,
                   answered, reply, pushed>>

(* AppTransport.request: the command is on its way, and then the call that *)
(* sent it has returned.                                                   *)
Send(r) ==
    LET b == Target[r] IN
    /\ context = "up" /\ forward[r] = "send" /\ loop[b] = "running"
    /\ forward' = [forward EXCEPT ![r] = "sent"]
    /\ down' = [down EXCEPT ![b] = Append(@, Message("command", r))]
    /\ UNCHANGED <<processes, up, context, held, loop, putting, answered,
                   reply, pushed>>

Sent(r) ==
    /\ context = "up" /\ forward[r] = "sent"
    /\ forward' = [forward EXCEPT ![r] = "await"]
    /\ UNCHANGED <<processes, channels, context, held, loop, putting,
                   answered, reply, pushed>>

(* AppTransport.request: the send raises what neither it nor _forward      *)
(* catches -- the application's end is closed (CLOSED_ERRORS), or the loop *)
(* of its handle is (RuntimeError).  The worker dies.                      *)
SendRaises(r) ==
    LET b == Target[r] IN
    /\ context = "up" /\ forward[r] = "send"
    /\ line[b] = "closed" \/ loop[b] = "closed"
    /\ forward' = [forward EXCEPT ![r] = "died"]
    /\ UNCHANGED <<processes, channels, context, held, loop, putting,
                   answered, reply, pushed>>

Got(r, k) == /\ forward' = [forward EXCEPT ![r] = "reply"]
             /\ reply' = [reply EXCEPT ![r] = k]

(* Slip: a closed channel is taken for the application's end. *)
ReturnAtHangUp(r) ==
    /\ context = "up" /\ forward[r] = "await"
    /\ \/ r \in answered /\ Got(r, "answer")
       \/ line[Target[r]] = "closed" /\ Got(r, "ended")
       \/ Got(r, "timeout")
    /\ UNCHANGED <<processes, channels, context, held, loop, putting,
                   answered, pushed>>

(* Slip: the wait has no bound. *)
ReturnUnbounded(r) ==
    /\ context = "up" /\ forward[r] = "await"
    /\ \/ r \in answered /\ Got(r, "answer")
       \/ Ended(Target[r]) /\ Got(r, "ended")
    /\ UNCHANGED <<processes, channels, context, held, loop, putting,
                   answered, pushed>>

(* AppTransport.request: the answer came, the application had ended when   *)
(* no answer was there, or IO_REQUEST_SECONDS are over.                    *)
Return(r) ==
    /\ context = "up" /\ forward[r] = "await"
    /\ \/ r \in answered /\ Got(r, "answer")
       \/ Ended(Target[r]) /\ Got(r, "ended")
       \/ Got(r, "timeout")
    /\ UNCHANGED <<processes, channels, context, held, loop, putting,
                   answered, pushed>>

(* Slip: after a timeout's error the worker still waits for the answer. *)
ReplyAndWait(r) ==
    LET a == Asker[r] IN
    /\ context = "up" /\ forward[r] = "reply"
    /\ forward' = [forward EXCEPT ![r] = IF reply[r] = "timeout" THEN "await" ELSE "done"]
    /\ IF Ended(a) \/ line[a] = "closed" \/ loop[a] = "closed"
       THEN UNCHANGED down
       ELSE down' = [down EXCEPT ![a] = Append(@, Message(reply[r], r))]
    /\ UNCHANGED <<processes, up, context, held, loop, putting, answered,
                   reply, pushed>>

(* _answer: the reply is sent back, unless the asker has ended or its      *)
(* channel is closed.                                                      *)
Reply(r) ==
    LET a == Asker[r] IN
    /\ context = "up" /\ forward[r] = "reply"
    /\ forward' = [forward EXCEPT ![r] = "done"]
    /\ IF Ended(a) \/ line[a] = "closed" \/ loop[a] = "closed"
       THEN UNCHANGED down
       ELSE down' = [down EXCEPT ![a] = Append(@, Message(reply[r], r))]
    /\ UNCHANGED <<processes, up, context, held, loop, putting, answered,
                   reply, pushed>>

(* AppTransports.close and close_all: dropped first, under the guard. *)
Drop ==
    /\ context = "up"
    /\ \E S \in {{a} : a \in Apps} \cup {Apps} :
          /\ S \subseteq Fragile /\ S \cap held # {}
          /\ held' = held \ S
    /\ UNCHANGED <<processes, channels, context, loop, putting, forward,
                   answered, reply, pushed>>

(* AppTransport.close of one dropped: the application is ended and the     *)
(* loop of its handle closed.  What the loop had not received is lost.     *)
Finish(a) ==
    /\ context = "up" /\ a \notin held /\ loop[a] = "running"
    /\ alive' = [alive EXCEPT ![a] = FALSE]
    /\ line' = [line EXCEPT ![a] = "closed"]
    /\ hearing' = [hearing EXCEPT ![a] = FALSE]
    /\ loop' = [loop EXCEPT ![a] = "closed"]
    /\ \E n \in 0 .. Len(up[a]) : up' = [up EXCEPT ![a] = SubSeq(@, 1, n)]
    /\ UNCHANGED <<ask, slot, serving, served, strays, down, context, held,
                   putting, forward, answered, reply, pushed>>

(* The context's process ends, its workers and what it had not received    *)
(* with it.                                                                *)
ContextDies ==
    /\ context = "up"
    /\ context' = "down"
    /\ up' = [a \in Apps |-> <<>>]
    /\ putting' = [a \in Apps |-> None]
    /\ answered' = {}
    /\ UNCHANGED <<processes, down, held, loop, forward, reply, pushed>>

-----------------------------------------------------------------------------
Asking(r)  == Register(r) \/ Emit(r) \/ Take(r)
Working(r) == \/ Find(r) \/ Await(r) \/ Send(r) \/ Sent(r) \/ SendRaises(r)
              \/ Return(r) \/ Reply(r)

Next == \/ \E r \in Requests : Asking(r) \/ GiveUp(r) \/ Answer(r) \/ Working(r)
        \/ \E a \in Apps : \/ Hear(a) \/ HearEnd(a) \/ HangUp(a) \/ CloseChannel(a)
                           \/ Exit(a) \/ Pump(a) \/ Put(a) \/ Finish(a)
        \/ Drop \/ ContextDies

Spec == Init /\ [][Next]_vars

(* Threads run; nobody has to answer, to give up, to hang up or to end,    *)
(* but a close() begun goes on.  A request takes finitely many steps, so   *)
(* one condition for all threads asks no less than one for each would.     *)
Running == \/ \E r \in Requests : Asking(r) \/ Working(r)
           \/ \E a \in Apps : \/ Hear(a) \/ HearEnd(a) \/ CloseChannel(a)
                              \/ Pump(a) \/ Put(a) \/ Finish(a)

FairSpec == Spec /\ WF_vars(Running)

-----------------------------------------------------------------------------
(* An answer is returned to an asker only when the application it named    *)
(* answered that very request; and a refusal is true: "no application held"*)
(* of a transport that is not, "ended before answering" of an application  *)
(* that has -- whatever is dropped, dies or answers late meanwhile.        *)
RepliesAreTrue ==
    \A r \in Requests :
        /\ "answer" \in {ask[r], reply[r]} => r \in served
        /\ "not_held" \in {ask[r], reply[r]} => Target[r] \notin held
        /\ "ended" \in {ask[r], reply[r]} => ~alive[Target[r]]

(* No request is replied to twice: one reply at most is on its way to the  *)
(* asker, waits in the request's queue, or was yielded after it gave up.   *)
AnsweredOnce ==
    \A r \in Requests :
        LET inbox == down[Asker[r]]
            travelling == {i \in 1 .. Len(inbox) :
                             inbox[i].id = r /\ inbox[i].kind \in Replies}
            arrived == {k \in {"taken", "stray"} :
                          IF k = "taken" THEN slot[r].kind \in Replies ELSE r \in strays}
        IN Cardinality(travelling) + Cardinality(arrived) <= 1

(* "An answer however fast is never missed": one that goes past its        *)
(* request, to the subscribers, comes when the worker no longer waits.     *)
NeverTooFast ==
    \A r \in Requests : r \in pushed => forward[r] \in {"reply", "done"}

Waiting(r) == ask[r] = "waiting"
Broken == context = "down" \/ \E a \in Apps : line[a] = "closed"

(* Until somebody hangs up, ends or is closed, every request emitted is    *)
(* answered or refused to its asker, though its target may never answer,   *)
(* or be none, and though nothing but the asker's own patience would end   *)
(* its wait otherwise.                                                     *)
AnsweredUnlessBroken == \A r \in Requests : Waiting(r) ~> ~Waiting(r) \/ Broken

(* "When the channel closes, every request still waiting is told so", also *)
(* one that was registered and not yet emitted when it did -- but for one  *)
(* registered after close() told those that waited and before it closed    *)
(* the channel: that one was never pending on an open channel.             *)
ToldOfClosing ==
    \A r \in Requests : LET a == Asker[r] IN
        []((/\ r \in Pending(a) /\ line[a] = "open"
            /\ <>(line[a] = "closed" \/ (hearing[a] /\ context = "down")))
             => <>(r \notin Pending(a) \/ ~alive[a]))

=============================================================================
