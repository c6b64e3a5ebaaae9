--------------------------- MODULE LaunchedAppProofs ---------------------------
(***************************************************************************)
(* Proofs about LaunchedApp, for any number of events and chunks and any   *)
(* set of oversized events.                                                *)
(***************************************************************************)
EXTENDS LaunchedApp, TLAPS

-----------------------------------------------------------------------------
(* Types.  That the relay passes on events only rests on what is on the    *)
(* wire: nothing before the hello, and after the hello only events.        *)

WireInv ==
    /\ ~greeted => wire = <<>> /\ emitted = 0
    /\ \A i \in 1 .. Len(wire) : i > 1 => wire[i] \in Events
    /\ accept = "relaying" => greeted /\ \A i \in 1 .. Len(wire) : wire[i] \in Events

TypeInv == TypeOK /\ WireInv

(* The empty sequence is one of any set. *)
LEMMA EmptySeq ==
    ASSUME NEW S
    PROVE  <<>> \in Seq(S) /\ Len(<<>>) = 0
OBVIOUS

(* What is taken from a queue, and what is left of it. *)
LEMMA TakesFromSeq ==
    ASSUME NEW S, NEW s \in Seq(S), s # <<>>
    PROVE  Tail(s) \in Seq(S) /\ Head(s) \in S
OBVIOUS

(* A group of variables a step leaves alone keeps its types. *)
LEMMA LeftAlone ==
    ASSUME TypeOK
    PROVE  /\ UNCHANGED process => ProcessOK'
           /\ UNCHANGED handle => HandleOK'
           /\ UNCHANGED queues => QueuesOK'
           /\ UNCHANGED tasks => TasksOK'
           /\ UNCHANGED callers => CallersOK'
           /\ UNCHANGED <<signal, owner>> => OwnerOK'
<1>1. ProcessOK /\ UNCHANGED process => ProcessOK'
  BY DEF ProcessOK, process
<1>2. HandleOK /\ UNCHANGED handle => HandleOK'
  BY DEF HandleOK, handle
<1>3. QueuesOK /\ UNCHANGED queues => QueuesOK'
  BY DEF QueuesOK, queues
<1>4. TasksOK /\ UNCHANGED tasks => TasksOK'
  BY DEF TasksOK, tasks
<1>5. CallersOK /\ UNCHANGED callers => CallersOK'
  BY DEF CallersOK, callers
<1>6. OwnerOK /\ UNCHANGED <<signal, owner>> => OwnerOK'
  BY DEF OwnerOK
<1> QED
  BY <1>1, <1>2, <1>3, <1>4, <1>5, <1>6 DEF TypeOK

(* A handle starts with its types. *)
LEMMA TypeInit == Init => TypeInv
<1> SUFFICES ASSUME Init PROVE TypeInv
  OBVIOUS
<1>1. 0 \in 0 .. MaxEvents /\ 0 \in 0 .. MaxChunks
  BY BoundAssumption
<1>2. ProcessOK /\ HandleOK /\ QueuesOK /\ TasksOK /\ CallersOK /\ OwnerOK
  BY <1>1, EmptySeq DEF Init, ProcessOK, HandleOK, QueuesOK, TasksOK, CallersOK, OwnerOK
<1>3. WireInv
  BY EmptySeq DEF Init, WireInv
<1> QED
  BY <1>2, <1>3 DEF TypeInv, TypeOK

(* The application says one hello before anything else. *)
LEMMA ApplicationKeepsTypes == TypeInv /\ Application => TypeInv'
<1> SUFFICES ASSUME TypeInv, Application PROVE TypeInv'
  OBVIOUS
<1>a. HandleOK' /\ QueuesOK' /\ TasksOK' /\ CallersOK' /\ OwnerOK'
  BY LeftAlone DEF Application, TypeInv
<1> SUFFICES ProcessOK' /\ WireInv'
  BY <1>a DEF TypeInv, TypeOK
<1>0. ProcessOK /\ WireInv /\ accept' = accept
  BY DEF TypeInv, TypeOK, Application, tasks
<1> USE DEF ProcessOK, WireInv
<1>1. CASE Connect
  BY <1>0, <1>1 DEF Connect
<1>2. CASE SayHello
  <2>1. PICK m \in Hellos : wire' = Append(wire, m)
    BY <1>2 DEF SayHello
  <2>2. wire' = <<m>> /\ greeted'
    BY <1>0, <1>2, <2>1 DEF SayHello
  <2>3. accept # "relaying"
    BY <1>0, <1>2 DEF SayHello
  <2>4. wire' \in Seq(Hellos \cup Events) /\ Len(wire') = 1
    BY <2>2
  <2> QED
    BY <1>0, <1>2, <2>2, <2>3, <2>4 DEF SayHello
<1>3. CASE Emit
  <2>1. emitted' \in Events /\ emitted' \in 0 .. MaxEvents
    BY <1>0, <1>3, BoundAssumption DEF Emit, Events
  <2>2. wire' = Append(wire, emitted')
    BY <1>3 DEF Emit
  <2>3. /\ wire' \in Seq(Hellos \cup Events)
        /\ Len(wire') = Len(wire) + 1
    BY <1>0, <2>1, <2>2
  <2>4. \A i \in 1 .. Len(wire') : i > 1 => wire'[i] \in Events
    BY <1>0, <2>1, <2>2, <2>3
  <2>5. accept = "relaying" => \A i \in 1 .. Len(wire') : wire'[i] \in Events
    BY <1>0, <2>1, <2>2, <2>3
  <2> QED
    BY <1>0, <1>3, <2>1, <2>3, <2>4, <2>5 DEF Emit
<1>4. CASE Hangup
  BY <1>0, <1>4 DEF Hangup
<1>5. CASE WriteOutput
  <2>1. printed' \in Chunks /\ printed' \in 0 .. MaxChunks
    BY <1>0, <1>5, BoundAssumption DEF WriteOutput, Chunks
  <2>2. pipe' \in Seq(Chunks)
    BY <1>0, <1>5, <2>1 DEF WriteOutput
  <2> QED
    BY <1>0, <1>5, <2>1, <2>2 DEF WriteOutput
<1>6. CASE Exit
  BY <1>0, <1>6 DEF Exit
<1> QED
  BY <1>1, <1>2, <1>3, <1>4, <1>5, <1>6 DEF Application

(* _accept takes the hello off the wire before it relays. *)
LEMMA AcceptKeepsTypes == TypeInv /\ Accept => TypeInv'
<1> SUFFICES ASSUME TypeInv, Accept PROVE TypeInv'
  OBVIOUS
<1>a. CallersOK' /\ OwnerOK'
  BY LeftAlone DEF Accept, TypeInv
<1> SUFFICES ProcessOK' /\ HandleOK' /\ QueuesOK' /\ TasksOK' /\ WireInv'
  BY <1>a DEF TypeInv, TypeOK
<1>0. /\ TypeOK /\ WireInv /\ ProcessOK /\ HandleOK /\ QueuesOK /\ TasksOK
      /\ UNCHANGED <<watch, reading>>
      /\ None \in {None} \cup Events
  BY DEF TypeInv, TypeOK, Accept
<1>1. CASE AcceptOne
  <2>1. ProcessOK' /\ QueuesOK'
    BY <1>0, <1>1, LeftAlone DEF AcceptOne
  <2>2. HandleOK' /\ TasksOK' /\ WireInv'
    BY <1>0, <1>1 DEF AcceptOne, HandleOK, TasksOK, WireInv, process
  <2> QED
    BY <2>1, <2>2
<1>2. CASE AcceptRefused
  <2>1. ProcessOK' /\ HandleOK'
    BY <1>0, <1>2, LeftAlone DEF AcceptRefused
  <2>2. TasksOK' /\ WireInv'
    BY <1>0, <1>2 DEF AcceptRefused, Refuse, TasksOK, WireInv, process
  <2>3. QueuesOK'
    BY <1>0, <1>2 DEF AcceptRefused, Refuse, QueuesOK
  <2> QED
    BY <2>1, <2>2, <2>3
<1>3. CASE Greet
  <2>1. QueuesOK'
    BY <1>0, <1>3 DEF Greet, QueuesOK
  <2>2. ProcessOK'
    <3>1. wire' \in Seq(Hellos \cup Events)
      BY <1>0, <1>3, TakesFromSeq DEF Greet, ProcessOK
    <3> QED
      BY <1>0, <1>3, <3>1 DEF Greet, ProcessOK
  <2>3. HandleOK' /\ TasksOK'
    BY <1>0, <1>3 DEF Greet, HandleOK, TasksOK
  <2>4. WireInv'
    <3>1. \A i \in 1 .. Len(wire') : wire'[i] \in Events
      BY <1>0, <1>3 DEF Greet, WireInv, ProcessOK
    <3>2. greeted /\ UNCHANGED greeted
      BY <1>0, <1>3 DEF Greet, WireInv
    <3> QED
      BY <3>1, <3>2 DEF WireInv
  <2> QED
    BY <2>1, <2>2, <2>3, <2>4
<1>4. CASE GreetRefused
  <2>1. HandleOK'
    BY <1>0, <1>4, LeftAlone DEF GreetRefused
  <2>2. TasksOK'
    BY <1>0, <1>4 DEF GreetRefused, Refuse, TasksOK
  <2>3. QueuesOK'
    BY <1>0, <1>4 DEF GreetRefused, Refuse, QueuesOK
  <2>4. ProcessOK' /\ WireInv'
    BY <1>0, <1>4, EmptySeq DEF GreetRefused, Refuse, ProcessOK, WireInv
  <2> QED
    BY <2>1, <2>2, <2>3, <2>4
<1>5. CASE Relay
  <2>1. Head(wire) \in Events /\ wire' = Tail(wire) /\ wire # <<>>
    BY <1>0, <1>5 DEF Relay, ProcessOK, WireInv
  <2>2. HandleOK'
    BY <1>0, <1>5, LeftAlone DEF Relay
  <2>3. TasksOK'
    BY <1>0, <1>5 DEF Relay, TasksOK
  <2>4. QueuesOK'
    <3>1. eventsQ' = eventsQ \/ eventsQ' = Append(eventsQ, Head(wire))
      BY <1>5 DEF Relay
    <3>2. Head(wire) \in {None} \cup Events
      BY <2>1
    <3>3. eventsQ' \in Seq({None} \cup Events)
      BY <1>0, <3>1, <3>2 DEF QueuesOK
    <3> QED
      BY <1>0, <1>5, <3>3 DEF Relay, QueuesOK
  <2>5. ProcessOK'
    <3>1. wire' \in Seq(Hellos \cup Events)
      BY <1>0, <2>1, TakesFromSeq DEF ProcessOK
    <3> QED
      BY <1>0, <1>5, <3>1 DEF Relay, ProcessOK
  <2>6. WireInv'
    <3>1. \A i \in 1 .. Len(wire') : wire'[i] \in Events
      BY <1>0, <1>5, <2>1 DEF Relay, WireInv, ProcessOK
    <3>2. greeted /\ UNCHANGED greeted
      BY <1>0, <1>5 DEF Relay, WireInv
    <3> QED
      BY <3>1, <3>2 DEF WireInv
  <2> QED
    BY <2>2, <2>3, <2>4, <2>5, <2>6
<1>6. CASE RelayEnds
  <2>1. ProcessOK' /\ HandleOK'
    BY <1>0, <1>6, LeftAlone DEF RelayEnds
  <2>2. TasksOK' /\ WireInv'
    BY <1>0, <1>6 DEF RelayEnds, TasksOK, WireInv, process
  <2>3. QueuesOK'
    BY <1>0, <1>6 DEF RelayEnds, QueuesOK
  <2> QED
    BY <2>1, <2>2, <2>3
<1>7. CASE GreetBreaks
  <2>1. HandleOK' /\ QueuesOK'
    BY <1>0, <1>7, LeftAlone DEF GreetBreaks
  <2>2. TasksOK'
    BY <1>0, <1>7 DEF GreetBreaks, TasksOK
  <2>3. wire' \in Seq(Hellos \cup Events) /\ wire' = Tail(wire) /\ wire # <<>>
    BY <1>0, <1>7, TakesFromSeq DEF GreetBreaks, ProcessOK
  <2>4. \A i \in 1 .. Len(wire') : wire'[i] = wire[i + 1] /\ i + 1 \in 1 .. Len(wire)
    BY <1>0, <2>3 DEF ProcessOK
  <2>5. ProcessOK' /\ WireInv'
    BY <1>0, <1>7, <2>3, <2>4 DEF GreetBreaks, ProcessOK, WireInv
  <2> QED
    BY <2>1, <2>2, <2>5
<1> QED
  BY <1>1, <1>2, <1>3, <1>4, <1>5, <1>6, <1>7 DEF Accept

(* The other tasks, the callers and the owner leave the wire alone. *)
LEMMA OthersKeepWire ==
    WireInv /\ (\/ Watch \/ ReadChunk \/ Connected \/ ReadEvent \/ ReadOutput
                \/ Stop \/ Close \/ Owner)
      => WireInv'
<1> SUFFICES ASSUME WireInv,
                    \/ Watch \/ ReadChunk \/ Connected \/ ReadEvent \/ ReadOutput
                    \/ Stop \/ Close \/ Owner
             PROVE  WireInv'
  OBVIOUS
<1>1. UNCHANGED <<wire, greeted, emitted>>
  BY DEF Watch, ReadChunk, Connected, ReadEvent, ReadOutput, Stop, Close, Owner,
         Terminate, Ask, Grace, Check, Bounded, Kill, Reap, Release, Tell, process
<1>2. accept' = accept \/ accept' = "done"
  BY DEF Watch, ReadChunk, Connected, ReadEvent, ReadOutput, Stop, Close, Owner,
         Terminate, Ask, Grace, Check, Bounded, Kill, Reap, Release, Tell, tasks
<1> QED
  BY <1>1, <1>2 DEF WireInv

(* _wait and read_chunks. *)
LEMMA TasksKeepTypes == TypeOK /\ (Watch \/ ReadChunk) => TypeOK'
<1>1. ASSUME TypeOK, Watch PROVE TypeOK'
  <2>1. ProcessOK' /\ CallersOK' /\ OwnerOK'
    BY <1>1, LeftAlone DEF Watch
  <2>2. HandleOK' /\ TasksOK'
    BY <1>1 DEF Watch, TypeOK, HandleOK, TasksOK
  <2>3. QueuesOK'
    BY <1>1 DEF Watch, TypeOK, QueuesOK
  <2> QED
    BY <2>1, <2>2, <2>3 DEF TypeOK
<1>2. ASSUME TypeOK, ReadChunk PROVE TypeOK'
  <2>1. HandleOK' /\ CallersOK' /\ OwnerOK'
    BY <1>2, LeftAlone DEF ReadChunk
  <2>2. TasksOK'
    BY <1>2 DEF ReadChunk, TypeOK, TasksOK
  <2>3. /\ outputQ' \in Seq({None} \cup Chunks)
        /\ pipe' \in Seq(Chunks)
    <3>1. CASE /\ pipe # <<>>
               /\ outputQ' = Append(outputQ, Head(pipe)) /\ pipe' = Tail(pipe)
      <4>1. Head(pipe) \in Chunks /\ Tail(pipe) \in Seq(Chunks)
        BY <1>2, <3>1, TakesFromSeq DEF TypeOK, ProcessOK
      <4> QED
        BY <1>2, <3>1, <4>1 DEF TypeOK, QueuesOK
    <3>2. CASE UNCHANGED <<outputQ, pipe>>
      BY <1>2, <3>2 DEF TypeOK, QueuesOK, ProcessOK
    <3> QED
      BY <1>2, <3>1, <3>2 DEF ReadChunk
  <2>4. ProcessOK' /\ QueuesOK'
    BY <1>2, <2>3 DEF ReadChunk, TypeOK, ProcessOK, QueuesOK
  <2> QED
    BY <2>1, <2>2, <2>4 DEF TypeOK
<1> QED
  BY <1>1, <1>2

(* connected(), events() and output(). *)
LEMMA CallersKeepTypes ==
    TypeOK /\ (Connected \/ ReadEvent \/ ReadOutput) => TypeOK'
<1>1. ASSUME TypeOK, Connected PROVE TypeOK'
  <2>1. ProcessOK' /\ HandleOK' /\ TasksOK' /\ OwnerOK'
    BY <1>1, LeftAlone DEF Connected
  <2>2. QueuesOK'
    BY <1>1, TakesFromSeq DEF Connected, TypeOK, QueuesOK
  <2>3. CallersOK'
    BY <1>1 DEF Connected, TypeOK, CallersOK
  <2> QED
    BY <2>1, <2>2, <2>3 DEF TypeOK
<1>2. ASSUME TypeOK, ReadEvent PROVE TypeOK'
  <2>1. ProcessOK' /\ HandleOK' /\ TasksOK' /\ OwnerOK'
    BY <1>2, LeftAlone DEF ReadEvent
  <2>2. eventsQ' \in Seq({None} \cup Events) /\ Head(eventsQ) \in {None} \cup Events
    BY <1>2, TakesFromSeq DEF ReadEvent, TypeOK, QueuesOK
  <2>3. QueuesOK'
    BY <1>2, <2>2 DEF ReadEvent, TypeOK, QueuesOK
  <2>4. heard' \in Seq(Events) /\ eventsEnded' \in BOOLEAN
    <3>1. CASE Head(eventsQ) = None
      BY <1>2, <3>1 DEF ReadEvent, TypeOK, CallersOK
    <3>2. CASE Head(eventsQ) # None
      <4>1. heard' = Append(heard, Head(eventsQ)) /\ Head(eventsQ) \in Events
        BY <1>2, <2>2, <3>2 DEF ReadEvent
      <4> QED
        BY <1>2, <3>2, <4>1 DEF ReadEvent, TypeOK, CallersOK
    <3> QED
      BY <3>1, <3>2
  <2>5. CallersOK'
    BY <1>2, <2>4 DEF ReadEvent, TypeOK, CallersOK
  <2> QED
    BY <2>1, <2>3, <2>5 DEF TypeOK
<1>3. ASSUME TypeOK, ReadOutput PROVE TypeOK'
  <2>1. ProcessOK' /\ HandleOK' /\ TasksOK' /\ OwnerOK'
    BY <1>3, LeftAlone DEF ReadOutput
  <2>2. outputQ' \in Seq({None} \cup Chunks) /\ Head(outputQ) \in {None} \cup Chunks
    BY <1>3, TakesFromSeq DEF ReadOutput, TypeOK, QueuesOK
  <2>3. QueuesOK'
    BY <1>3, <2>2 DEF ReadOutput, TypeOK, QueuesOK
  <2>4. seen' \in Seq(Chunks) /\ outputEnded' \in BOOLEAN
    <3>1. CASE Head(outputQ) = None
      BY <1>3, <3>1 DEF ReadOutput, TypeOK, CallersOK
    <3>2. CASE Head(outputQ) # None
      <4>1. seen' = Append(seen, Head(outputQ)) /\ Head(outputQ) \in Chunks
        BY <1>3, <2>2, <3>2 DEF ReadOutput
      <4> QED
        BY <1>3, <3>2, <4>1 DEF ReadOutput, TypeOK, CallersOK
    <3> QED
      BY <3>1, <3>2
  <2>5. CallersOK'
    BY <1>3, <2>4 DEF ReadOutput, TypeOK, CallersOK
  <2> QED
    BY <2>1, <2>3, <2>5 DEF TypeOK
<1> QED
  BY <1>1, <1>2, <1>3

(* stop() and close(). *)
LEMMA OwnerKeepsTypes == TypeOK /\ (Stop \/ Close \/ Owner) => TypeOK'
<1>1. ASSUME TypeOK, Stop \/ Close \/ Ask \/ Grace \/ Check \/ Bounded \/ Kill \/ Reap
      PROVE  TypeOK'
  <2>1. ProcessOK' /\ HandleOK' /\ QueuesOK' /\ TasksOK' /\ CallersOK'
    BY <1>1, LeftAlone DEF Stop, Close, Ask, Grace, Check, Bounded, Kill, Reap
  <2>2. OwnerOK'
    BY <1>1 DEF Stop, Close, Ask, Grace, Check, Bounded, Kill, Reap,
                TypeOK, OwnerOK, Closing
  <2> QED
    BY <2>1, <2>2 DEF TypeOK
<1>2. ASSUME TypeOK, Terminate PROVE TypeOK'
  <2>1. ProcessOK' /\ QueuesOK' /\ TasksOK' /\ CallersOK'
    BY <1>2, LeftAlone DEF Terminate
  <2>2. HandleOK' /\ OwnerOK'
    BY <1>2 DEF Terminate, TypeOK, HandleOK, OwnerOK, Closing
  <2> QED
    BY <2>1, <2>2 DEF TypeOK
<1>3. ASSUME TypeOK, Release PROVE TypeOK'
  <2>1. ProcessOK' /\ QueuesOK' /\ CallersOK'
    BY <1>3, LeftAlone DEF Release
  <2>2. HandleOK' /\ TasksOK' /\ OwnerOK'
    BY <1>3 DEF Release, TypeOK, HandleOK, TasksOK, OwnerOK, Closing
  <2> QED
    BY <2>1, <2>2 DEF TypeOK
<1>4. ASSUME TypeOK, Tell PROVE TypeOK'
  <2>1. ProcessOK' /\ TasksOK' /\ CallersOK'
    BY <1>4, LeftAlone DEF Tell
  <2>2. HandleOK' /\ OwnerOK'
    BY <1>4 DEF Tell, TypeOK, HandleOK, OwnerOK
  <2>3. eventsQ' \in Seq({None} \cup Events)
    BY <1>4 DEF Tell, TypeOK, QueuesOK
  <2>4. connectedQ' \in Seq(BOOLEAN)
    <3>1. <<FALSE>> \in Seq(BOOLEAN)
      OBVIOUS
    <3>2. connectedQ' = <<FALSE>> \/ connectedQ' = connectedQ
      BY <1>4 DEF Tell
    <3> QED
      BY <1>4, <3>1, <3>2 DEF TypeOK, QueuesOK
  <2>5. QueuesOK'
    BY <1>4, <2>3, <2>4 DEF Tell, TypeOK, QueuesOK
  <2> QED
    BY <2>1, <2>2, <2>5 DEF TypeOK
<1> QED
  BY <1>1, <1>2, <1>3, <1>4 DEF Owner

(* Stuttering changes nothing. *)
LEMMA StutterKeepsTypes == TypeInv /\ UNCHANGED vars => TypeInv'
<1> SUFFICES ASSUME TypeInv, UNCHANGED vars PROVE TypeInv'
  OBVIOUS
<1>1. TypeOK'
  BY LeftAlone DEF TypeInv, TypeOK, vars
<1>2. WireInv'
  BY DEF TypeInv, WireInv, vars, process, tasks
<1> QED
  BY <1>1, <1>2 DEF TypeInv

(* No step leaves the types. *)
LEMMA TypeStep == TypeInv /\ [Next]_vars => TypeInv'
BY ApplicationKeepsTypes, AcceptKeepsTypes, OthersKeepWire, TasksKeepTypes,
   CallersKeepTypes, OwnerKeepsTypes, StutterKeepsTypes
   DEF Next, TypeInv

(* Whatever races what, every variable of the handle keeps its type: no    *)
(* hello is taken for an event, and the relay never passes one on.         *)
THEOREM TypeCorrect == Spec => []TypeOK
<1>1. TypeInv => TypeOK
  BY DEF TypeInv
<1> QED
  BY TypeInit, TypeStep, <1>1, PTL DEF Spec

-----------------------------------------------------------------------------
(* The answer to connected().  At most one is put before the close, by the *)
(* task that decides it, and the close puts one only where there is none   *)
(* to take; until it is taken, it agrees with the run id.                  *)

Answering == accept \in {"accepting", "greeting"}

(* What is put and not taken agrees with the run id. *)
Pending == Head(connectedQ) = runId

AnswerInv ==
    /\ Len(connectedQ) <= 1
    /\ Answering => connectedQ = <<>> /\ attached = "waiting"
    /\ attached = "waiting" /\ connectedQ = <<>> => ~runId
    /\ attached = "waiting" /\ connectedQ # <<>> => Pending
    /\ attached = "yes" => runId
    /\ attached = "no" => ~runId /\ ~Answering
    /\ owner = "tell" => ~Answering

(* One answer in an empty queue, and what taking it leaves. *)
LEMMA OneAnswer ==
    ASSUME NEW b \in BOOLEAN
    PROVE  /\ Append(<<>>, b) = <<b>> /\ <<b>> # <<>>
           /\ Len(<<b>>) = 1 /\ Head(<<b>>) = b
OBVIOUS

(* Taking the one answer leaves none. *)
LEMMA LastTaken ==
    ASSUME NEW S, NEW s \in Seq(S), s # <<>>, Len(s) <= 1
    PROVE  Tail(s) = <<>> /\ Len(<<>>) = 0
OBVIOUS

(* No step puts a second answer beside one that was not taken. *)
LEMMA AnswerStep == TypeOK /\ AnswerInv /\ [Next]_vars => AnswerInv'
<1> SUFFICES ASSUME TypeOK, AnswerInv, [Next]_vars PROVE AnswerInv'
  OBVIOUS
<1>0. /\ connectedQ \in Seq(BOOLEAN) /\ runId \in BOOLEAN
      /\ accept \in {"accepting", "greeting", "relaying", "done", "broken"}
      /\ attached \in {"waiting", "yes", "no"}
  BY DEF TypeOK, QueuesOK, HandleOK, TasksOK, CallersOK
<1>1. ASSUME UNCHANGED <<connectedQ, attached, runId>>,
             Answering' => Answering, owner' = "tell" => owner = "tell" \/ ~Answering'
      PROVE  AnswerInv'
  BY <1>1 DEF AnswerInv, Pending
<1>2. CASE Application \/ Watch \/ ReadChunk \/ ReadEvent \/ ReadOutput \/ Stop \/ Close
  <2>1. /\ UNCHANGED <<connectedQ, attached, runId, accept>>
        /\ owner' # "tell" \/ UNCHANGED owner
    BY <1>2 DEF Application, Watch, ReadChunk, ReadEvent, ReadOutput, Stop, Close,
                handle, queues, tasks, callers
  <2> QED
    BY <1>1, <2>1 DEF Answering
<1>3. CASE Accept
  <2>1. CASE AcceptOne
    BY <1>0, <1>1, <1>3, <2>1 DEF AcceptOne, Accept, queues, callers, Answering
  <2>2. CASE Greet
    <3>0. connectedQ = <<>> /\ attached = "waiting"
      BY <2>2 DEF Greet, AnswerInv, Answering
    <3>1. Len(connectedQ') = 1 /\ Pending' /\ connectedQ' # <<>>
      BY <2>2, <3>0, OneAnswer DEF Greet, Pending
    <3>2. runId' = TRUE /\ accept' = "relaying" /\ owner' = owner /\ attached' = attached
      BY <1>3, <2>2 DEF Greet, Accept, callers
    <3> QED
      BY <3>0, <3>1, <3>2 DEF AnswerInv, Answering
  <2>3. CASE AcceptRefused \/ GreetRefused
    <3>1. Refuse /\ Answering /\ UNCHANGED <<runId, attached, owner>>
      BY <1>3, <2>3 DEF AcceptRefused, GreetRefused, Accept, handle, callers, Answering
    <3>2. connectedQ = <<>> /\ attached = "waiting" /\ ~runId
      BY <3>1 DEF AnswerInv
    <3>3. runId' = FALSE /\ accept' = "done" /\ connectedQ' = Append(<<>>, FALSE)
      BY <1>0, <3>1, <3>2 DEF Refuse
    <3>4. connectedQ' = <<runId'>> /\ runId' \in BOOLEAN
      BY <3>3, OneAnswer
    <3>5. Len(connectedQ') = 1 /\ Pending' /\ connectedQ' # <<>>
      BY <3>4, OneAnswer DEF Pending
    <3>6. UNCHANGED attached
      BY <3>1
    <3> QED
      BY <3>2, <3>3, <3>5, <3>6 DEF AnswerInv, Answering
  <2>4. CASE GreetBreaks \/ Relay \/ RelayEnds
    <3>1. ~Answering' /\ UNCHANGED <<connectedQ, attached, runId, owner>>
      BY <1>3, <2>4 DEF GreetBreaks, Relay, RelayEnds, Accept, handle, queues,
                        callers, Answering
    <3> QED
      BY <1>1, <3>1
  <2> QED
    BY <1>3, <2>1, <2>2, <2>3, <2>4 DEF Accept
<1>4. CASE Connected
  <2>a. /\ connectedQ # <<>> /\ connectedQ' = Tail(connectedQ) /\ attached = "waiting"
    BY <1>4 DEF Connected
  <2>b. Head(connectedQ) = runId /\ ~Answering /\ Len(connectedQ) <= 1
    BY <2>a DEF AnswerInv, Pending
  <2>c. connectedQ' = <<>> /\ Len(connectedQ') = 0
    BY <1>0, <2>a, <2>b, LastTaken
  <2>1. /\ connectedQ # <<>> /\ Head(connectedQ) = runId /\ ~Answering
        /\ connectedQ' = <<>> /\ Len(connectedQ') = 0
    BY <2>a, <2>b, <2>c
  <2>2. attached' = (IF runId THEN "yes" ELSE "no") /\ UNCHANGED <<runId, accept, owner>>
    BY <1>4, <2>1 DEF Connected, handle, tasks
  <2> QED
    BY <1>0, <2>1, <2>2 DEF AnswerInv, Answering
<1>5. CASE Owner
  <2>1. CASE Release
    BY <1>1, <2>1 DEF Release, queues, callers, Answering
  <2>2. CASE Tell
    <3>1. /\ UNCHANGED <<runId, accept, attached>> /\ owner' = "closed"
          /\ connectedQ' = IF connectedQ = <<>> THEN <<FALSE>> ELSE connectedQ
          /\ ~Answering
      BY <2>2 DEF Tell, tasks, callers, AnswerInv
    <3>2. connectedQ = <<>> /\ attached = "waiting" => ~runId
      BY DEF AnswerInv
    <3>3. CASE connectedQ = <<>> /\ attached = "waiting"
      <4>1. runId' = FALSE /\ connectedQ' = <<FALSE>>
        BY <1>0, <3>1, <3>2, <3>3
      <4>2. connectedQ' = <<runId'>> /\ runId' \in BOOLEAN
        BY <4>1
      <4>3. Len(connectedQ') = 1 /\ Pending' /\ connectedQ' # <<>>
        BY <4>2, OneAnswer DEF Pending
      <4> QED
        BY <3>1, <3>3, <4>1, <4>3 DEF AnswerInv, Answering
    <3>4. CASE connectedQ = <<>> /\ attached # "waiting"
      <4>1. Len(connectedQ') = 1
        BY <3>1, <3>4, OneAnswer
      <4> QED
        BY <1>0, <3>1, <3>4, <4>1 DEF AnswerInv, Answering
    <3>5. CASE connectedQ # <<>>
      BY <3>1, <3>5 DEF AnswerInv, Answering, Pending
    <3> QED
      BY <3>3, <3>4, <3>5
  <2>3. CASE Terminate \/ Ask \/ Grace \/ Check \/ Bounded \/ Kill \/ Reap
    <3>1. UNCHANGED <<connectedQ, attached, runId, accept>> /\ owner' # "tell"
      BY <2>3 DEF Terminate, Ask, Grace, Check, Bounded, Kill, Reap,
                  handle, queues, tasks, callers
    <3> QED
      BY <1>1, <3>1 DEF Answering
  <2> QED
    BY <1>5, <2>1, <2>2, <2>3 DEF Owner
<1>6. CASE UNCHANGED vars
  BY <1>1, <1>6 DEF vars, handle, queues, tasks, callers, Answering
<1> QED
  BY <1>2, <1>3, <1>4, <1>5, <1>6 DEF Next

(* So there never is a second answer. *)
LEMMA AnswerAlways == Spec => []AnswerInv
<1>1. Init => AnswerInv
  BY EmptySeq DEF Init, AnswerInv, Answering
<1> QED
  BY TypeCorrect, AnswerStep, <1>1, PTL DEF Spec

(* connected() tells the truth: its answer agrees with the run id for      *)
(* ever after, although the exit, a stop, a close and the hello race.      *)
THEOREM AttachedIsTrue == Spec => []AttachedTruth
<1>1. AnswerInv => AttachedTruth
  BY DEF AnswerInv, AttachedTruth
<1> QED
  BY AnswerAlways, <1>1, PTL

(* The put of the answer by _accept or by close() never blocks.            *)
THEOREM PutNeverBlocks == Spec => []AnswerPutNeverBlocks
<1>1. AnswerInv => AnswerPutNeverBlocks
  BY DEF AnswerInv, AnswerPutNeverBlocks, Answering
<1> QED
  BY AnswerAlways, <1>1, PTL

-----------------------------------------------------------------------------
(* The close.  What is known of the exit at each place the owner stands.   *)

Released == {"tell", "closed"}

CloseInv ==
    /\ exitCode => watch = "done"
    /\ watch = "done" => app = "dead"
    /\ owner \in Released \cup {"release"} => app = "dead"
    /\ owner \in Released => loop = "closed" /\ accept = "done" /\ watch = "done"
    /\ owner = "closed" => exitCode

(* No step disturbs what close() has seen done before it answers. *)
LEMMA CloseStep == CloseInv /\ [Next]_vars => CloseInv'
<1> SUFFICES ASSUME CloseInv, [Next]_vars PROVE CloseInv'
  OBVIOUS
<1> USE DEF CloseInv, Released
<1>1. CASE Application
  <2>1. app = "dead" => app' = "dead"
    BY <1>1 DEF Application, Connect, SayHello, Emit, Hangup, WriteOutput, Exit
  <2> QED
    BY <1>1, <2>1 DEF Application, handle, tasks
<1>2. CASE Accept
  <2>1. UNCHANGED <<app, exitCode, watch, owner, loop>> /\ accept # "done"
    BY <1>2 DEF Accept, AcceptOne, AcceptRefused, Greet, GreetRefused, GreetBreaks,
                Relay, RelayEnds, process, handle
  <2> QED
    BY <2>1
<1>3. CASE Watch
  BY <1>3 DEF Watch, process
<1>4. CASE ReadChunk \/ Connected \/ ReadEvent \/ ReadOutput \/ Stop \/ Close
  <2>1. UNCHANGED <<app, exitCode, watch, accept, loop>>
    BY <1>4 DEF ReadChunk, Connected, ReadEvent, ReadOutput, Stop, Close,
                process, handle, tasks
  <2>2. UNCHANGED owner \/ owner' \in {"stop", "ask", "check"}
    BY <1>4 DEF ReadChunk, Connected, ReadEvent, ReadOutput, Stop, Close
  <2> QED
    BY <2>1, <2>2
<1>5. CASE Owner
  <2>1. CASE Release
    BY <2>1 DEF Release, process
  <2>2. CASE Tell
    BY <2>2 DEF Tell, process, tasks
  <2>3. CASE Terminate \/ Ask \/ Grace \/ Check \/ Bounded \/ Kill \/ Reap
    <3>1. UNCHANGED <<app, exitCode, watch, accept, loop>>
      BY <2>3 DEF Terminate, Ask, Grace, Check, Bounded, Kill, Reap,
                  process, handle, tasks
    <3>2. owner' \notin Released /\ (owner' = "release" => exitCode \/ watch = "done")
      BY <2>3 DEF Terminate, Ask, Grace, Check, Bounded, Kill, Reap
    <3> QED
      BY <3>1, <3>2
  <2> QED
    BY <1>5, <2>1, <2>2, <2>3 DEF Owner
<1>6. CASE UNCHANGED vars
  BY <1>6 DEF vars, process, handle, tasks
<1> QED
  BY <1>1, <1>2, <1>3, <1>4, <1>5, <1>6 DEF Next

(* When close() has returned, the process is dead and its exit known, and  *)
(* no task of the handle runs on.                                          *)
THEOREM ClosedIsEnded == Spec => []ClosedMeansEnded
<1>1. Init => CloseInv
  BY DEF Init, CloseInv, Released
<1>2. CloseInv => ClosedMeansEnded
  BY DEF CloseInv, ClosedMeansEnded, Released
<1> QED
  BY CloseStep, <1>1, <1>2, PTL DEF Spec

-----------------------------------------------------------------------------
(* What remains once the exit was observed, by an owner who has not decided *)
(* on a signal: the watch is over, so no wait of close() is in vain.        *)
SeenEnded(s) ==
    exitCode /\ watch = "done" /\ signal = s /\ owner \notin Decided

(* An exit once observed stays observed, and whoever looks finds it. *)
LEMMA SeenEndedStep == ASSUME NEW s PROVE SeenEnded(s) /\ [Next]_vars => SeenEnded(s)'
<1> SUFFICES ASSUME SeenEnded(s), [Next]_vars PROVE SeenEnded(s)'
  OBVIOUS
<1> USE DEF SeenEnded, Decided
<1>1. CASE Application \/ Accept \/ Watch \/ ReadChunk
  <2>1. exitCode' /\ UNCHANGED <<signal, owner, watch>>
    BY <1>1 DEF Application, Accept, AcceptOne, AcceptRefused, Greet, GreetRefused,
                GreetBreaks, Relay, RelayEnds, Watch, ReadChunk, handle, tasks
  <2> QED
    BY <2>1
<1>2. CASE Connected \/ ReadEvent \/ ReadOutput
  <2>1. UNCHANGED <<exitCode, signal, owner, watch>>
    BY <1>2 DEF Connected, ReadEvent, ReadOutput, handle, tasks
  <2> QED
    BY <2>1
<1>3. CASE Stop \/ Close
  BY <1>3 DEF Stop, Close, handle, tasks
<1>4. CASE Owner
  BY <1>4 DEF Owner, Terminate, Ask, Grace, Check, Bounded, Kill, Reap, Release, Tell,
              handle, tasks
<1>5. CASE UNCHANGED vars
  BY <1>5 DEF vars, handle, tasks
<1> QED
  BY <1>1, <1>2, <1>3, <1>4, <1>5 DEF Next

(* An application whose end was observed is not signalled again and stays  *)
(* known to have ended, except by an owner that had decided on a signal    *)
(* before it was observed: that owner gives the one signal it decided on.  *)
THEOREM EndedLeftAlone == Spec => EndedIsLeftAlone
<1> SUFFICES ASSUME NEW s \in {"none", "terminate", "kill"}
             PROVE  Spec => [](exitCode /\ signal = s /\ owner \notin Decided
                                 => [](exitCode /\ signal = s))
  BY DEF EndedIsLeftAlone
<1>1. Init => CloseInv
  BY DEF Init, CloseInv, Released
<1>2. CloseInv /\ exitCode /\ signal = s /\ owner \notin Decided => SeenEnded(s)
  BY DEF CloseInv, SeenEnded
<1>3. SeenEnded(s) /\ [Next]_vars => SeenEnded(s)'
  BY SeenEndedStep
<1>4. SeenEnded(s) => exitCode /\ signal = s
  BY DEF SeenEnded
<1> QED
  BY CloseStep, <1>1, <1>2, <1>3, <1>4, PTL DEF Spec

-----------------------------------------------------------------------------
(* The events.  Each is emitted once, is then on the wire, in the queue or *)
(* heard, and comes past each in the order it was emitted; the end of them *)
(* is put after the last, when the application can emit no more.           *)

Heard == Len(heard)
Queued == Len(eventsQ)

(* What the reader has heard, and will hear before the first end: the      *)
(* events from the first on, without a gap.                                *)
OrderInv ==
    /\ \A i \in 1 .. Heard : heard[i] = i
    /\ ~eventsEnded =>
         \A i \in 1 .. Queued :
            /\ eventsQ[i] = None \/ eventsQ[i] = Heard + i
            /\ eventsQ[i] = None => \A j \in i .. Queued : eventsQ[j] = None

(* Nobody ends the events while _accept has still to pass them on. *)
OpenEnded == ~eventsEnded /\ \A i \in 1 .. Queued : eventsQ[i] # None

(* Before the launch is attached, the wire holds all that was emitted. *)
Unheard ==
    /\ heard = <<>> /\ eventsQ = <<>> /\ ~runId
    /\ greeted <=> wire # <<>>
    /\ emitted = IF wire = <<>> THEN 0 ELSE Len(wire) - 1
    /\ \A k \in 1 .. Len(wire) : k > 1 => wire[k] = k - 1

(* While they are relayed, it holds what the queue does not hold yet. *)
Relayed ==
    /\ emitted = Heard + Queued + Len(wire)
    /\ \A k \in 1 .. Len(wire) : wire[k] = Heard + Queued + k

TransitInv ==
    /\ accept # "done" => OpenEnded
    /\ Answering => Unheard
    /\ accept = "relaying" => Relayed

(* The end of the events of an attached application is the last thing in   *)
(* the queue, and its end of the connection is closed: no event follows.   *)
EndInv ==
    loop = "running" /\ runId =>
       /\ ~eventsEnded => \A i \in 1 .. Queued : eventsQ[i] = None =>
             i = Queued /\ line = "closed" /\ emitted = Heard + i - 1
       /\ eventsEnded => line = "closed" /\ emitted = Heard

StreamInv == OrderInv /\ TransitInv /\ EndInv

(* The elements of a sequence with one more. *)
LEMMA AppendedAt ==
    ASSUME NEW S, NEW s \in Seq(S), NEW e
    PROVE  /\ Len(Append(s, e)) = Len(s) + 1
           /\ \A i \in 1 .. Len(s) : Append(s, e)[i] = s[i]
           /\ Append(s, e)[Len(s) + 1] = e
OBVIOUS

(* The elements of a sequence without its first. *)
LEMMA TailAt ==
    ASSUME NEW S, NEW s \in Seq(S), s # <<>>
    PROVE  /\ Len(s) \in Nat \ {0} /\ Head(s) = s[1]
           /\ Len(Tail(s)) = Len(s) - 1
           /\ \A i \in 1 .. Len(s) - 1 : Tail(s)[i] = s[i + 1]
OBVIOUS

(* The sequences involved, and the numbers of what is in them. *)
LEMMA StreamTypes ==
    ASSUME TypeInv
    PROVE  /\ heard \in Seq(Events) /\ eventsQ \in Seq({None} \cup Events)
           /\ wire \in Seq(Hellos \cup Events)
           /\ Heard \in Nat /\ Queued \in Nat /\ Len(wire) \in Nat
           /\ emitted \in Nat
           /\ accept \in {"accepting", "greeting", "relaying", "done", "broken"}
           /\ None \notin Events /\ None = 0
<1>1. TypeOK
  BY DEF TypeInv
<1>2. /\ heard \in Seq(Events) /\ eventsQ \in Seq({None} \cup Events)
      /\ wire \in Seq(Hellos \cup Events)
      /\ accept \in {"accepting", "greeting", "relaying", "done", "broken"}
      /\ emitted \in 0 .. MaxEvents
  BY <1>1 DEF TypeOK, CallersOK, QueuesOK, ProcessOK, TasksOK
<1>3. emitted \in Nat
  BY <1>2, BoundAssumption
<1>4. Heard \in Nat /\ Queued \in Nat /\ Len(wire) \in Nat
  BY <1>2 DEF Heard, Queued
<1>5. None \notin Events /\ None = 0
  BY BoundAssumption DEF None, Events
<1> QED
  BY <1>2, <1>3, <1>4, <1>5

(* A step that leaves what has been emitted and relayed alone. *)
LEMMA StreamLeftAlone ==
    ASSUME StreamInv,
           UNCHANGED <<heard, eventsEnded, eventsQ, wire, greeted, emitted, runId>>,
           line = "closed" => line' = "closed",
           UNCHANGED accept \/ accept' = "done" \/ (Answering /\ accept' = "greeting"),
           UNCHANGED loop \/ loop' = "closed"
    PROVE  StreamInv'
<1>1. OrderInv'
  BY DEF StreamInv, OrderInv, Heard, Queued
<1>2. TransitInv'
  BY DEF StreamInv, TransitInv, OpenEnded, Unheard, Relayed, Heard, Queued, Answering
<1>3. EndInv'
  BY DEF StreamInv, EndInv, Heard, Queued
<1> QED
  BY <1>1, <1>2, <1>3 DEF StreamInv

(* The application emits: the event is the last on the wire, and no end    *)
(* has been put before it while somebody relays.                           *)
LEMMA ApplicationKeepsStream == TypeInv /\ StreamInv /\ Application => StreamInv'
<1> SUFFICES ASSUME TypeInv, StreamInv, Application PROVE StreamInv'
  OBVIOUS
<1>0. UNCHANGED <<heard, eventsEnded, eventsQ, accept, runId, loop>>
  BY DEF Application, handle, queues, tasks, callers
<1>1. CASE Connect \/ Hangup \/ WriteOutput \/ Exit
  <2>1. UNCHANGED <<wire, greeted, emitted>> /\ (line = "closed" => line' = "closed")
    BY <1>1 DEF Connect, Hangup, WriteOutput, Exit
  <2> QED
    BY <1>0, <2>1, StreamLeftAlone
<1>2. CASE SayHello \/ Emit
  <2>0. wire \in Seq(Hellos \cup Events) /\ Len(wire) \in Nat
        /\ emitted \in Nat /\ Heard \in Nat /\ Queued \in Nat
    BY StreamTypes
  <2>1. PICK e : wire' = Append(wire, e) /\ (Emit => e = emitted + 1)
    BY <1>2 DEF SayHello, Emit
  <2>2. /\ Len(wire') = Len(wire) + 1 /\ wire' # <<>>
        /\ \A k \in 1 .. Len(wire) : wire'[k] = wire[k]
        /\ wire'[Len(wire) + 1] = e
    BY <2>0, <2>1, AppendedAt
  <2>3. /\ line = "open" /\ line' = line /\ greeted'
        /\ SayHello => ~greeted /\ emitted' = emitted
        /\ Emit => greeted /\ emitted' = emitted + 1
    BY <1>2 DEF SayHello, Emit
  <2>4. Heard' = Heard /\ Queued' = Queued
    BY <1>0 DEF Heard, Queued
  <2>5. OrderInv'
    BY <1>0, <2>4 DEF StreamInv, OrderInv
  <2>6. OpenEnded => OpenEnded'
    BY <1>0, <2>4 DEF OpenEnded
  <2>7. Answering => Unheard'
    <3> SUFFICES ASSUME Answering PROVE Unheard'
      OBVIOUS
    <3>1. Unheard
      BY DEF StreamInv, TransitInv
    <3>2. emitted' = Len(wire') - 1
      <4>1. CASE SayHello
        BY <2>0, <2>2, <2>3, <3>1, <4>1 DEF Unheard
      <4>2. CASE Emit
        BY <2>0, <2>2, <2>3, <3>1, <4>2 DEF Unheard
      <4> QED
        BY <1>2, <4>1, <4>2
    <3>3. \A k \in 1 .. Len(wire') : k > 1 => wire'[k] = k - 1
      <4>1. CASE SayHello
        BY <2>0, <2>2, <2>3, <3>1, <4>1, EmptySeq DEF Unheard
      <4>2. CASE Emit
        <5>1. e = Len(wire)
          BY <2>0, <2>1, <2>3, <3>1, <4>2 DEF Unheard
        <5> QED
          BY <2>0, <2>2, <3>1, <5>1 DEF Unheard
      <4> QED
        BY <1>2, <4>1, <4>2
    <3> QED
      BY <1>0, <2>2, <2>3, <3>1, <3>2, <3>3 DEF Unheard
  <2>8. accept = "relaying" => Relayed'
    <3> SUFFICES ASSUME accept = "relaying" PROVE Relayed'
      OBVIOUS
    <3>1. Relayed /\ Emit
      BY <1>2, <2>3 DEF StreamInv, TransitInv, TypeInv, WireInv
    <3>2. e = Heard + Queued + Len(wire) + 1 /\ emitted' = emitted + 1
      BY <2>1, <2>3, <3>1 DEF Relayed
    <3> QED
      BY <2>0, <2>2, <2>4, <3>1, <3>2 DEF Relayed
  <2>9. TransitInv'
    BY <1>0, <2>6, <2>7, <2>8 DEF StreamInv, TransitInv, Answering
  <2>10. EndInv'
    BY <1>0, <2>3, <2>4 DEF StreamInv, EndInv
  <2> QED
    BY <2>5, <2>9, <2>10 DEF StreamInv
<1> QED
  BY <1>1, <1>2 DEF Application

(* What is queued is in order still with an end after it. *)
LEMMA EndKeepsOrder ==
    ASSUME OrderInv, UNCHANGED <<heard, eventsEnded>>,
           Heard \in Nat, Queued \in Nat, Heard' = Heard, Queued' = Queued + 1,
           \A i \in 1 .. Queued : eventsQ'[i] = eventsQ[i],
           eventsQ'[Queued + 1] = None
    PROVE  OrderInv'
<1>1. \A i \in 1 .. Heard' : heard'[i] = i
  BY DEF OrderInv
<1>2. ASSUME ~eventsEnded, NEW i \in 1 .. Queued'
      PROVE  /\ eventsQ'[i] = None \/ eventsQ'[i] = Heard' + i
             /\ eventsQ'[i] = None => \A j \in i .. Queued' : eventsQ'[j] = None
  <2>1. CASE i = Queued + 1
    BY <2>1
  <2>2. CASE i \in 1 .. Queued
    <3>1. /\ eventsQ[i] = None \/ eventsQ[i] = Heard + i
          /\ eventsQ[i] = None => \A j \in i .. Queued : eventsQ[j] = None
      BY <1>2, <2>2 DEF OrderInv
    <3>2. ASSUME eventsQ'[i] = None, NEW j \in i .. Queued'
          PROVE  eventsQ'[j] = None
      <4>1. j = Queued + 1 \/ (j \in i .. Queued /\ j \in 1 .. Queued)
        BY <2>2
      <4> QED
        BY <2>2, <3>1, <3>2, <4>1
    <3> QED
      BY <2>2, <3>1, <3>2
  <2> QED
    BY <1>2, <2>1, <2>2
<1> QED
  BY <1>1, <1>2 DEF OrderInv

(* An end put after what is queued: the reader will come past it last. *)
LEMMA EndPut ==
    ASSUME TypeInv, OrderInv, eventsQ' = Append(eventsQ, None),
           UNCHANGED <<heard, eventsEnded>>
    PROVE  /\ OrderInv'
           /\ Heard' = Heard /\ Queued' = Queued + 1
           /\ \A i \in 1 .. Queued : eventsQ'[i] = eventsQ[i]
           /\ eventsQ'[Queued + 1] = None
<1>1. /\ eventsQ \in Seq({None} \cup Events)
      /\ Heard \in Nat /\ Queued \in Nat
  BY StreamTypes
<1>2. /\ Heard' = Heard /\ Queued' = Queued + 1
      /\ \A i \in 1 .. Queued : eventsQ'[i] = eventsQ[i]
      /\ eventsQ'[Queued + 1] = None
  BY <1>1, AppendedAt DEF Heard, Queued
<1> QED
  BY <1>1, <1>2, EndKeepsOrder

(* _accept relays the events it receives in their order, and then puts the *)
(* end; a launch it refuses has no events, and never a run id.             *)
LEMMA AcceptKeepsStream == TypeInv /\ StreamInv /\ Accept => StreamInv'
<1> SUFFICES ASSUME TypeInv, StreamInv, Accept PROVE StreamInv'
  OBVIOUS
<1>0. /\ UNCHANGED <<heard, eventsEnded, emitted, greeted, loop>>
      /\ accept # "done"
  BY DEF Accept, AcceptOne, AcceptRefused, Greet, GreetRefused, GreetBreaks, Relay, RelayEnds,
         callers, process, handle
<1>T. /\ heard \in Seq(Events) /\ eventsQ \in Seq({None} \cup Events)
      /\ wire \in Seq(Hellos \cup Events)
      /\ Heard \in Nat /\ Queued \in Nat /\ Len(wire) \in Nat /\ emitted \in Nat
  BY StreamTypes
<1>I. OrderInv /\ OpenEnded /\ EndInv
  BY <1>0 DEF StreamInv, TransitInv
<1>1. CASE AcceptOne
  BY <1>0, <1>1, StreamLeftAlone DEF AcceptOne, process, queues, Answering
<1>2. CASE AcceptRefused \/ GreetRefused
  <2>1. Answering /\ Unheard
    BY <1>2 DEF AcceptRefused, GreetRefused, Answering, StreamInv, TransitInv
  <2>2. eventsQ' = Append(eventsQ, None) /\ accept' = "done" /\ runId' = runId
    BY <1>2 DEF AcceptRefused, GreetRefused, Refuse, handle
  <2>3. OrderInv'
    BY <1>0, <1>I, <2>2, EndPut
  <2>4. TransitInv' /\ EndInv'
    BY <2>1, <2>2 DEF TransitInv, EndInv, Answering, Unheard
  <2> QED
    BY <2>3, <2>4 DEF StreamInv
<1>3. CASE Greet
  <2>1. /\ Unheard /\ wire # <<>> /\ wire' = Tail(wire)
        /\ accept' = "relaying" /\ runId' /\ UNCHANGED <<line, eventsQ>>
    BY <1>3 DEF Greet, StreamInv, TransitInv, Answering
  <2>2. /\ Len(wire') = Len(wire) - 1
        /\ \A k \in 1 .. Len(wire) - 1 : wire'[k] = wire[k + 1]
        /\ Len(wire) \in Nat \ {0}
    BY <1>T, <2>1, TailAt
  <2>3. Heard' = 0 /\ Queued' = 0 /\ Heard = 0 /\ Queued = 0
    BY <1>0, <2>1, EmptySeq DEF Unheard, Heard, Queued
  <2>4. OrderInv' /\ OpenEnded'
    BY <1>0, <1>I, <2>1, <2>3 DEF OrderInv, OpenEnded
  <2>5. Relayed'
    <3>1. emitted' = Len(wire')
      BY <1>0, <2>1, <2>2 DEF Unheard
    <3>2. \A k \in 1 .. Len(wire') : wire'[k] = k
      BY <2>1, <2>2 DEF Unheard
    <3> QED
      BY <2>2, <2>3, <3>1, <3>2 DEF Relayed
  <2>6. EndInv'
    BY <2>3, <2>4 DEF EndInv, OpenEnded
  <2> QED
    BY <2>1, <2>4, <2>5, <2>6 DEF StreamInv, TransitInv, Answering
<1>4. CASE Relay
  <2>1. /\ Relayed /\ wire # <<>> /\ wire' = Tail(wire)
        /\ accept = "relaying" /\ UNCHANGED <<line, runId>>
    BY <1>4 DEF Relay, StreamInv, TransitInv, handle
  <2>2. /\ Len(wire') = Len(wire) - 1 /\ Head(wire) = wire[1]
        /\ \A k \in 1 .. Len(wire) - 1 : wire'[k] = wire[k + 1]
        /\ Len(wire) \in Nat \ {0}
    BY <1>T, <2>1, TailAt
  <2>3. Head(wire) = Heard + Queued + 1
    BY <2>1, <2>2 DEF Relayed
  <2>4. CASE Head(wire) \in Oversized
    <3>1. accept' = "broken" /\ eventsQ' = eventsQ
      BY <1>4, <2>4 DEF Relay
    <3>2. Heard' = Heard /\ Queued' = Queued
      BY <1>0, <3>1 DEF Heard, Queued
    <3>3. OrderInv'
      BY <1>0, <1>I, <3>1, <3>2 DEF OrderInv
    <3>4. TransitInv'
      BY <1>0, <1>I, <3>1, <3>2 DEF TransitInv, Answering, OpenEnded
    <3>5. EndInv'
      BY <1>0, <1>I, <2>1, <3>1, <3>2 DEF EndInv
    <3> QED
      BY <3>3, <3>4, <3>5 DEF StreamInv
  <2>5. CASE Head(wire) \notin Oversized
    <3>1. accept' = accept /\ eventsQ' = Append(eventsQ, Head(wire))
      BY <1>4, <2>5 DEF Relay
    <3>2. /\ Heard' = Heard /\ Queued' = Queued + 1
          /\ \A i \in 1 .. Queued : eventsQ'[i] = eventsQ[i]
          /\ eventsQ'[Queued + 1] = Heard + Queued + 1
      BY <1>0, <1>T, <2>3, <3>1, AppendedAt DEF Heard, Queued
    <3>3. OpenEnded'
      BY <1>0, <1>T, <1>I, <3>2 DEF OpenEnded, None
    <3>4. OrderInv'
      <4>1. \A i \in 1 .. Heard' : heard'[i] = i
        BY <1>0, <1>I, <3>2 DEF OrderInv
      <4>2. \A i \in 1 .. Queued' : eventsQ'[i] = Heard' + i
        <5>1. \A i \in 1 .. Queued : eventsQ[i] = Heard + i
          BY <1>I DEF OrderInv, OpenEnded
        <5> TAKE i \in 1 .. Queued'
        <5>2. i = Queued + 1 \/ i \in 1 .. Queued
          BY <1>T, <3>2
        <5> QED
          BY <1>T, <3>2, <5>1, <5>2
      <4> QED
        BY <3>3, <4>1, <4>2 DEF OrderInv, OpenEnded
    <3>5. Relayed'
      <4>1. emitted' = Heard' + Queued' + Len(wire')
        BY <1>0, <1>T, <2>1, <2>2, <3>2 DEF Relayed
      <4>2. \A k \in 1 .. Len(wire') : wire'[k] = Heard' + Queued' + k
        BY <1>T, <2>1, <2>2, <3>2 DEF Relayed
      <4> QED
        BY <4>1, <4>2 DEF Relayed
    <3>6. EndInv'
      BY <3>3 DEF EndInv, OpenEnded
    <3> QED
      BY <2>1, <3>1, <3>3, <3>4, <3>5, <3>6 DEF StreamInv, TransitInv, Answering
  <2> QED
    BY <2>4, <2>5
<1>5. CASE RelayEnds
  <2>1. /\ Relayed /\ wire = <<>> /\ line = "closed"
        /\ eventsQ' = Append(eventsQ, None) /\ accept' = "done"
        /\ UNCHANGED <<line, runId>>
    BY <1>5 DEF RelayEnds, StreamInv, TransitInv, process, handle
  <2>2. /\ OrderInv' /\ Heard' = Heard /\ Queued' = Queued + 1
        /\ \A i \in 1 .. Queued : eventsQ'[i] = eventsQ[i]
    BY <1>0, <1>I, <2>1, EndPut
  <2>3. emitted' = Heard' + Queued' - 1
    BY <1>0, <1>T, <2>1, <2>2, EmptySeq DEF Relayed
  <2>4. \A i \in 1 .. Queued' : eventsQ'[i] = None => i = Queued'
    BY <1>T, <1>I, <2>2 DEF OpenEnded
  <2>5. EndInv'
    BY <1>0, <1>I, <2>1, <2>3, <2>4 DEF EndInv, OpenEnded
  <2>6. TransitInv'
    BY <2>1 DEF TransitInv, Answering
  <2> QED
    BY <2>2, <2>5, <2>6 DEF StreamInv
<1>6. CASE GreetBreaks
  <2>1. /\ UNCHANGED <<line, eventsQ, runId>> /\ accept' = "broken"
        /\ OpenEnded
    BY <1>6, <1>I DEF GreetBreaks, handle, queues
  <2>2. Heard' = Heard /\ Queued' = Queued
    BY <1>0, <2>1 DEF Heard, Queued
  <2>3. OrderInv' /\ OpenEnded' /\ EndInv'
    BY <1>0, <1>I, <2>1, <2>2 DEF OrderInv, OpenEnded, EndInv
  <2> QED
    BY <2>1, <2>3 DEF StreamInv, TransitInv, Answering
<1> QED
  BY <1>1, <1>2, <1>3, <1>4, <1>5, <1>6 DEF Accept

(* The reader takes the next: what it has heard grows by what the queue    *)
(* loses, or it has come to the end.                                       *)
LEMMA ReaderKeepsStream == TypeInv /\ StreamInv /\ ReadEvent => StreamInv'
<1> SUFFICES ASSUME TypeInv, StreamInv, ReadEvent PROVE StreamInv'
  OBVIOUS
<1>0. /\ ~eventsEnded /\ eventsQ # <<>> /\ eventsQ' = Tail(eventsQ)
      /\ UNCHANGED <<wire, greeted, emitted, line, loop, runId, accept>>
  BY DEF ReadEvent, process, handle, tasks
<1>T. /\ heard \in Seq(Events) /\ eventsQ \in Seq({None} \cup Events)
      /\ Heard \in Nat /\ Queued \in Nat /\ Len(wire) \in Nat /\ emitted \in Nat
  BY StreamTypes
<1>1. /\ Queued' = Queued - 1 /\ Head(eventsQ) = eventsQ[1] /\ Queued \in Nat \ {0}
      /\ \A i \in 1 .. Queued - 1 : eventsQ'[i] = eventsQ[i + 1]
  BY <1>0, <1>T, TailAt DEF Queued
<1>2. ~Answering
  BY <1>0 DEF StreamInv, TransitInv, Unheard
<1>I. OrderInv /\ EndInv
  BY DEF StreamInv
<1>3. CASE eventsQ[1] = None
  <2>1. heard' = heard /\ eventsEnded'
    BY <1>1, <1>3 DEF ReadEvent
  <2>2. Heard' = Heard
    BY <2>1 DEF Heard
  <2>3. OrderInv'
    BY <1>I, <2>1, <2>2 DEF OrderInv
  <2>4. TransitInv'
    BY <1>0, <1>1, <1>2, <1>3 DEF StreamInv, TransitInv, OpenEnded, Answering
  <2>5. EndInv'
    BY <1>0, <1>1, <1>3, <1>T, <1>I, <2>1, <2>2 DEF EndInv
  <2> QED
    BY <2>3, <2>4, <2>5 DEF StreamInv
<1>4. CASE eventsQ[1] # None
  <2>1. /\ heard' = Append(heard, eventsQ[1]) /\ eventsEnded' = eventsEnded
        /\ eventsQ[1] = Heard + 1
    BY <1>0, <1>1, <1>4, <1>I DEF ReadEvent, OrderInv
  <2>2. /\ Heard' = Heard + 1
        /\ \A i \in 1 .. Heard : heard'[i] = heard[i]
        /\ heard'[Heard + 1] = Heard + 1
    BY <1>T, <2>1, AppendedAt DEF Heard
  <2>3. OrderInv'
    <3>1. \A i \in 1 .. Heard' : heard'[i] = i
      BY <1>T, <1>I, <2>2 DEF OrderInv
    <3>2. ASSUME NEW i \in 1 .. Queued'
          PROVE  /\ eventsQ'[i] = None \/ eventsQ'[i] = Heard' + i
                 /\ eventsQ'[i] = None => \A j \in i .. Queued' : eventsQ'[j] = None
      <4>1. i + 1 \in 1 .. Queued /\ eventsQ'[i] = eventsQ[i + 1]
        BY <1>T, <1>1, <3>2
      <4>2. eventsQ[i + 1] = None \/ eventsQ[i + 1] = Heard + (i + 1)
        BY <1>0, <1>I, <4>1 DEF OrderInv
      <4>3. eventsQ[i + 1] = None => \A j \in i + 1 .. Queued : eventsQ[j] = None
        BY <1>0, <1>I, <4>1 DEF OrderInv
      <4> QED
        BY <1>T, <1>1, <2>2, <4>1, <4>2, <4>3
    <3> QED
      BY <3>1, <3>2 DEF OrderInv
  <2>4. TransitInv'
    <3>1. OpenEnded => OpenEnded'
      BY <1>T, <1>1, <2>1 DEF OpenEnded
    <3>2. Relayed => Relayed'
      BY <1>0, <1>T, <1>1, <2>2 DEF Relayed
    <3> QED
      BY <1>0, <1>2, <3>1, <3>2 DEF StreamInv, TransitInv, Answering
  <2>5. EndInv'
    <3> SUFFICES ASSUME loop' = "running", runId' PROVE EndInv'
      BY DEF EndInv
    <3>1. ASSUME NEW i \in 1 .. Queued', eventsQ'[i] = None
          PROVE  i = Queued' /\ line' = "closed" /\ emitted' = Heard' + i - 1
      <4>1. i + 1 \in 1 .. Queued /\ eventsQ[i + 1] = None
        BY <1>T, <1>1, <3>1
      <4>2. i + 1 = Queued /\ line = "closed" /\ emitted = Heard + (i + 1) - 1
        BY <1>0, <1>I, <4>1 DEF EndInv
      <4> QED
        BY <1>0, <1>T, <1>1, <2>2, <4>2
    <3> QED
      BY <1>0, <2>1, <3>1 DEF EndInv
  <2> QED
    BY <2>3, <2>4, <2>5 DEF StreamInv
<1> QED
  BY <1>3, <1>4

(* The owner ends the events a second time only once the loop is closed. *)
LEMMA OwnerKeepsStream == TypeInv /\ StreamInv /\ CloseInv /\ Owner => StreamInv'
<1> SUFFICES ASSUME TypeInv, StreamInv, CloseInv, Owner PROVE StreamInv'
  OBVIOUS
<1>1. CASE Tell
  <2>1. /\ eventsQ' = Append(eventsQ, None) /\ accept' = "done" /\ loop' = "closed"
        /\ UNCHANGED <<heard, eventsEnded>>
    BY <1>1 DEF Tell, CloseInv, Released, tasks, callers
  <2>2. OrderInv'
    BY <2>1, EndPut DEF StreamInv
  <2> QED
    BY <2>1, <2>2 DEF StreamInv, TransitInv, EndInv, Answering
<1>2. CASE Release
  BY <1>2, StreamLeftAlone DEF Release, process, queues, callers
<1>3. CASE Terminate \/ Ask \/ Grace \/ Check \/ Bounded \/ Kill \/ Reap
  BY <1>3, StreamLeftAlone DEF Terminate, Ask, Grace, Check, Bounded, Kill, Reap,
     process, handle, queues, tasks, callers
<1> QED
  BY <1>1, <1>2, <1>3 DEF Owner

(* No step loses, repeats or reorders an event, or ends them early. *)
LEMMA StreamStep ==
    TypeInv /\ CloseInv /\ StreamInv /\ [Next]_vars => StreamInv'
<1> SUFFICES ASSUME TypeInv, CloseInv, StreamInv, [Next]_vars PROVE StreamInv'
  OBVIOUS
<1>1. CASE Watch \/ ReadChunk \/ Connected \/ ReadOutput \/ Stop \/ Close
  BY <1>1, StreamLeftAlone DEF Watch, ReadChunk, Connected, ReadOutput, Stop, Close,
     process, handle, queues, tasks, callers
<1>2. CASE UNCHANGED vars
  BY <1>2, StreamLeftAlone DEF vars, process, handle, queues, tasks, callers
<1> QED
  BY <1>1, <1>2, ApplicationKeepsStream, AcceptKeepsStream, ReaderKeepsStream,
     OwnerKeepsStream DEF Next

(* A launch starts with nothing emitted and nothing heard. *)
LEMMA StreamInit == Init => StreamInv
<1> SUFFICES ASSUME Init PROVE StreamInv
  OBVIOUS
<1>1. Heard = 0 /\ Queued = 0 /\ Len(wire) = 0
  BY EmptySeq DEF Init, Heard, Queued
<1>2. OrderInv /\ EndInv
  BY <1>1 DEF Init, OrderInv, EndInv
<1>3. OpenEnded /\ Unheard
  BY <1>1 DEF Init, OpenEnded, Unheard
<1> QED
  BY <1>2, <1>3 DEF Init, StreamInv, TransitInv

(* The reader of events() hears every event once and in the order the      *)
(* application emitted them, and while the handle of an attached           *)
(* application is not closed, the end of events() means it has heard them  *)
(* all -- whatever the exit, a stop and the relay do in between.           *)
THEOREM EventsAreComplete == Spec => []EventsComplete
<1>1. TypeInv /\ StreamInv => EventsComplete
  <2> SUFFICES ASSUME TypeInv, StreamInv PROVE EventsComplete
    OBVIOUS
  <2>1. heard \in Seq(Events)
    BY StreamTypes
  <2>2. heard = [i \in 1 .. Len(heard) |-> heard[i]]
    BY <2>1
  <2>3. \A i \in 1 .. Len(heard) : heard[i] = i
    BY DEF StreamInv, OrderInv, Heard
  <2>4. heard = [i \in 1 .. Len(heard) |-> i]
    BY <2>2, <2>3
  <2>5. eventsEnded /\ loop = "running" /\ runId => Len(heard) = emitted
    BY DEF StreamInv, EndInv, Heard
  <2> QED
    BY <2>4, <2>5 DEF EventsComplete
<1>2. Init => CloseInv
  BY DEF Init, CloseInv, Released
<1> QED
  BY TypeInit, TypeStep, <1>2, CloseStep, StreamInit, StreamStep, <1>1, PTL DEF Spec
================================================================================
