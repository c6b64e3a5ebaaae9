---------------------------- MODULE AppRoutingProofs ---------------------------
(***************************************************************************)
(* Proofs about AppRouting, for any number of applications and requests,   *)
(* whoever asks whom, and whichever applications may hang up or end.       *)
(***************************************************************************)
EXTENDS AppRouting, FiniteSetTheorems, TLAPS

-----------------------------------------------------------------------------
(* Sequences. *)

(* What is sent goes behind what is on its way. *)
LEMMA AppendSeq ==
    ASSUME NEW S, NEW s \in Seq(S), NEW m \in S
    PROVE  /\ Append(s, m) \in Seq(S)
           /\ Len(Append(s, m)) = Len(s) + 1
           /\ \A i \in 1 .. Len(s) : Append(s, m)[i] = s[i]
           /\ Append(s, m)[Len(s) + 1] = m
OBVIOUS

(* What is received was the first on its way. *)
LEMMA TailSeq ==
    ASSUME NEW S, NEW s \in Seq(S), s # <<>>
    PROVE  /\ Tail(s) \in Seq(S)
           /\ Len(Tail(s)) = Len(s) - 1
           /\ \A i \in 1 .. Len(Tail(s)) : Tail(s)[i] = s[i + 1] /\ i + 1 \in 1 .. Len(s)
           /\ 1 \in 1 .. Len(s) /\ Head(s) = s[1] /\ Head(s) \in S
OBVIOUS

(* What a closed loop had received is the beginning of what was sent. *)
LEMMA PrefixSeq ==
    ASSUME NEW S, NEW s \in Seq(S), NEW n \in 0 .. Len(s)
    PROVE  /\ SubSeq(s, 1, n) \in Seq(S)
           /\ Len(SubSeq(s, 1, n)) = n
           /\ \A i \in 1 .. n : SubSeq(s, 1, n)[i] = s[i] /\ i \in 1 .. Len(s)
OBVIOUS

(* Sending on one of several channels. *)
LEMMA SendOn ==
    ASSUME NEW A, NEW S, NEW f \in [A -> Seq(S)], NEW a, NEW m \in S
    PROVE  LET g == [f EXCEPT ![a] = Append(@, m)] IN
           /\ g \in [A -> Seq(S)]
           /\ a \in A => g[a] = Append(f[a], m)
           /\ \A b \in A : b # a => g[b] = f[b]
<1> DEFINE g == [f EXCEPT ![a] = Append(@, m)]
<1>1. CASE a \in A
  <2>1. Append(f[a], m) \in Seq(S)
    BY <1>1, AppendSeq
  <2> QED
    BY <1>1, <2>1
<1>2. CASE a \notin A
  BY <1>2
<1> QED
  BY <1>1, <1>2

(* Where each message was before one was sent on one of several channels.  *)
LEMMA SentIs ==
    ASSUME NEW A, NEW S, NEW f \in [A -> Seq(S)], NEW a \in A, NEW m \in S,
           NEW g, g = [f EXCEPT ![a] = Append(@, m)]
    PROVE  \A b \in A : \A i \in 1 .. Len(g[b]) :
              \/ i \in 1 .. Len(f[b]) /\ g[b][i] = f[b][i]
              \/ b = a /\ i = Len(f[a]) + 1 /\ g[b][i] = m
<1> SUFFICES ASSUME NEW b \in A, NEW i \in 1 .. Len(g[b])
             PROVE  \/ i \in 1 .. Len(f[b]) /\ g[b][i] = f[b][i]
                    \/ b = a /\ i = Len(f[a]) + 1 /\ g[b][i] = m
  OBVIOUS
<1>1. CASE b = a
  <2>1. g[b] = Append(f[a], m) /\ f[a] \in Seq(S)
    BY <1>1
  <2>2. /\ Len(g[b]) = Len(f[a]) + 1 /\ Len(f[a]) \in Nat
        /\ \A j \in 1 .. Len(f[a]) : g[b][j] = f[a][j]
        /\ g[b][Len(f[a]) + 1] = m
    <3> DEFINE x == Append(f[a], m)
    <3>1. /\ Len(x) = Len(f[a]) + 1 /\ Len(f[a]) \in Nat
          /\ \A j \in 1 .. Len(f[a]) : x[j] = f[a][j]
          /\ x[Len(f[a]) + 1] = m
      BY <2>1, AppendSeq
    <3>2. g[b] = x
      BY <2>1
    <3> HIDE DEF x
    <3> QED
      BY <3>1, <3>2
  <2>3. i \in 1 .. Len(f[a]) \/ i = Len(f[a]) + 1
    BY <2>2
  <2> QED
    BY <1>1, <2>2, <2>3
<1>2. CASE b # a
  BY <1>2
<1> QED
  BY <1>1, <1>2

(* Where each message was before one was received. *)
LEMMA TakenIs ==
    ASSUME NEW A, NEW S, NEW f \in [A -> Seq(S)], NEW a \in A, f[a] # <<>>,
           NEW g, g = [f EXCEPT ![a] = Tail(@)]
    PROVE  \A b \in A : \A i \in 1 .. Len(g[b]) :
              \/ b # a /\ i \in 1 .. Len(f[b]) /\ g[b][i] = f[b][i]
              \/ b = a /\ i + 1 \in 1 .. Len(f[a]) /\ g[b][i] = f[a][i + 1]
<1> SUFFICES ASSUME NEW b \in A, NEW i \in 1 .. Len(g[b])
             PROVE  \/ b # a /\ i \in 1 .. Len(f[b]) /\ g[b][i] = f[b][i]
                    \/ b = a /\ i + 1 \in 1 .. Len(f[a]) /\ g[b][i] = f[a][i + 1]
  OBVIOUS
<1>1. CASE b = a
  <2>1. g[b] = Tail(f[a]) /\ f[a] \in Seq(S)
    BY <1>1
  <2> QED
    BY <1>1, <2>1, TailSeq
<1>2. CASE b # a
  BY <1>2
<1> QED
  BY <1>1, <1>2

(* Where each message was before some were lost from the end. *)
LEMMA CutIs ==
    ASSUME NEW A, NEW S, NEW f \in [A -> Seq(S)], NEW a \in A,
           NEW n \in 0 .. Len(f[a]), NEW g, g = [f EXCEPT ![a] = SubSeq(@, 1, n)]
    PROVE  \A b \in A : \A i \in 1 .. Len(g[b]) :
              i \in 1 .. Len(f[b]) /\ g[b][i] = f[b][i]
<1> SUFFICES ASSUME NEW b \in A, NEW i \in 1 .. Len(g[b])
             PROVE  i \in 1 .. Len(f[b]) /\ g[b][i] = f[b][i]
  OBVIOUS
<1>1. CASE b = a
  <2>1. g[b] = SubSeq(f[a], 1, n) /\ f[a] \in Seq(S)
    BY <1>1
  <2> QED
    BY <1>1, <2>1, PrefixSeq
<1>2. CASE b # a
  BY <1>2
<1> QED
  BY <1>1, <1>2

(* What messages consist of. *)
LEMMA Messages ==
    /\ \A m \in UpMessages : m.kind \in {"route", "result"} /\ m.id \in Requests
    /\ \A m \in DownMessages : /\ m.kind \in {"command"} \cup Replies
                               /\ m.id \in Requests
    /\ \A r \in Requests :
          /\ Message("route", r) \in UpMessages /\ Message("result", r) \in UpMessages
          /\ \A k \in {"command"} \cup Replies : Message(k, r) \in DownMessages
    /\ \A k, r : Message(k, r).kind = k /\ Message(k, r).id = r
    /\ None.kind = "none" /\ Shut.kind = "shut"
    /\ None \notin UpMessages /\ None \notin DownMessages
<1>1. \A k, r : Message(k, r).kind = k /\ Message(k, r).id = r
  BY DEF Message
<1>2. \A m \in UpMessages : m.kind \in {"route", "result"} /\ m.id \in Requests
  BY <1>1 DEF UpMessages
<1>3. \A m \in DownMessages : /\ m.kind \in {"command"} \cup Replies
                              /\ m.id \in Requests
  BY <1>1 DEF DownMessages
<1>4. None.kind = "none" /\ Shut.kind = "shut"
  BY DEF None, Shut
<1>5. None \notin UpMessages /\ None \notin DownMessages
  BY <1>2, <1>3, <1>4 DEF Replies
<1> QED
  BY <1>1, <1>2, <1>3, <1>4, <1>5 DEF UpMessages, DownMessages

-----------------------------------------------------------------------------
(* Types. *)

ProcessOK ==
    /\ alive \in [Apps -> BOOLEAN] /\ hearing \in [Apps -> BOOLEAN]
    /\ line \in [Apps -> {"open", "closing", "closed"}]
    /\ ask \in [Requests -> Asks]
    /\ slot \in [Requests -> DownMessages \cup {None, Shut}]
    /\ serving \subseteq Requests /\ served \subseteq Requests
    /\ strays \subseteq Requests

TransportOK ==
    /\ held \subseteq Apps
    /\ loop \in [Apps -> {"running", "closed"}]
    /\ putting \in [Apps -> UpMessages \cup {None}]
    /\ forward \in [Requests -> Forwards]
    /\ answered \subseteq Requests
    /\ reply \in [Requests -> Replies \cup {"none"}]
    /\ pushed \subseteq Requests

ChannelOK ==
    /\ up \in [Apps -> Seq(UpMessages)] /\ down \in [Apps -> Seq(DownMessages)]

(* A command is sent only to an application of the context. *)
KnownTarget ==
    \A r \in Requests :
        forward[r] \in {"found", "send", "sent", "await"} => Target[r] \in Apps

(* What is served, or on its way to be served, is where it was sent.       *)
CommandedKnown ==
    /\ \A r \in serving : Target[r] \in Apps
    /\ \A a \in Apps : \A i \in 1 .. Len(down[a]) :
          down[a][i].kind = "command" => Target[down[a][i].id] = a

(* The reply of a worker that is to reply is there. *)
ReplyReady == \A r \in Requests : forward[r] = "reply" => reply[r] \in Replies

TypeInv == /\ ProcessOK /\ TransportOK /\ ChannelOK /\ context \in {"up", "down"}
           /\ KnownTarget /\ CommandedKnown /\ ReplyReady

(* Routing starts with its types. *)
LEMMA TypeInit == Init => TypeInv
<1> SUFFICES ASSUME Init PROVE TypeInv
  OBVIOUS
<1>1. <<>> \in Seq(UpMessages) /\ <<>> \in Seq(DownMessages) /\ Len(<<>>) = 0
  OBVIOUS
<1>2. ProcessOK
  BY DEF Init, ProcessOK, Asks
<1>3. TransportOK
  BY DEF Init, TransportOK, Forwards
<1>4. ChannelOK
  BY <1>1 DEF Init, ChannelOK
<1>5. KnownTarget /\ ReplyReady
  BY DEF Init, KnownTarget, ReplyReady
<1>6. CommandedKnown
  BY <1>1 DEF Init, CommandedKnown
<1> QED
  BY <1>2, <1>3, <1>4, <1>5, <1>6 DEF Init, TypeInv

(* The asker's own steps. *)
LEMMA AskingKeepsTypes ==
    ASSUME TypeInv, NEW r \in Requests, Asking(r) \/ GiveUp(r)
    PROVE  TypeInv'
<1>1. TransportOK' /\ KnownTarget' /\ ReplyReady' /\ context' \in {"up", "down"}
  BY DEF TypeInv, TransportOK, KnownTarget, ReplyReady, Asking, Register, Emit,
         Take, GiveUp, transports
<1>2. CommandedKnown'
  BY DEF TypeInv, CommandedKnown, Asking, Register, Emit, Take, GiveUp, channels
<1>3. ProcessOK'
  <2>1. ask' \in [Requests -> Asks]
    <3>1. CASE Take(r)
      <4>1. slot[r].kind \in Asks
        BY <3>1, Messages DEF TypeInv, ProcessOK, Take, Asks
      <4> QED
        BY <3>1, <4>1 DEF TypeInv, ProcessOK, Take
    <3>2. CASE Register(r) \/ Emit(r) \/ GiveUp(r)
      BY <3>2 DEF TypeInv, ProcessOK, Register, Emit, GiveUp, Asks
    <3> QED
      BY <3>1, <3>2 DEF Asking
  <2> QED
    BY <2>1 DEF TypeInv, ProcessOK, Asking, Register, Emit, Take, GiveUp
<1>4. ChannelOK'
  <2>1. CASE Emit(r)
    <3> DEFINE m == Message("route", r)
    <3>1. m \in UpMessages /\ (up' = up \/ up' = [up EXCEPT ![Asker[r]] = Append(@, m)])
      BY <2>1, Messages DEF Emit, SendUp
    <3> HIDE DEF m
    <3>2. up' \in [Apps -> Seq(UpMessages)]
      <4>1. up \in [Apps -> Seq(UpMessages)]
        BY DEF TypeInv, ChannelOK
      <4>2. CASE up' = [up EXCEPT ![Asker[r]] = Append(@, m)]
        BY <3>1, <4>1, <4>2, SendOn
      <4> QED
        BY <3>1, <4>1, <4>2
    <3> QED
      BY <2>1, <3>2 DEF Emit, TypeInv, ChannelOK
  <2> QED
    BY <2>1 DEF Asking, Register, Take, GiveUp, channels, TypeInv, ChannelOK
<1> QED
  BY <1>1, <1>2, <1>3, <1>4 DEF TypeInv

(* An application's hearing, answering and ending. *)
LEMMA ApplicationKeepsTypes ==
    ASSUME TypeInv,
           \/ \E a \in Apps : Hear(a) \/ HearEnd(a) \/ HangUp(a) \/ CloseChannel(a) \/ Exit(a)
           \/ \E r \in Requests : Answer(r)
    PROVE  TypeInv'
<1>1. TransportOK' /\ KnownTarget' /\ ReplyReady' /\ context' \in {"up", "down"}
  BY DEF TypeInv, TransportOK, KnownTarget, ReplyReady, Hear, HearEnd, HangUp, CloseChannel,
         Exit, Answer, transports
<1>2. ASSUME NEW a \in Apps, Hear(a)
      PROVE  ProcessOK' /\ ChannelOK' /\ CommandedKnown'
  <2> DEFINE m == Head(down[a])
  <2>1. down[a] \in Seq(DownMessages) /\ down[a] # <<>>
    BY <1>2 DEF Hear, TypeInv, ChannelOK
  <2>2. /\ Tail(down[a]) \in Seq(DownMessages) /\ m \in DownMessages
        /\ 1 \in 1 .. Len(down[a]) /\ m = down[a][1]
        /\ \A i \in 1 .. Len(Tail(down[a])) :
              Tail(down[a])[i] = down[a][i + 1] /\ i + 1 \in 1 .. Len(down[a])
    BY <2>1, TailSeq
  <2>3. m.id \in Requests /\ (m.kind = "command" => Target[m.id] = a)
    BY <2>2, Messages DEF TypeInv, CommandedKnown
  <2> HIDE DEF m
  <2>4. ChannelOK'
    BY <1>2, <2>2 DEF Hear, TypeInv, ChannelOK
  <2>5. down' = [down EXCEPT ![a] = Tail(down[a])]
    BY <1>2 DEF Hear
  <2>6. serving' = serving \/ (serving' = serving \cup {m.id} /\ m.kind = "command")
    BY <1>2 DEF Hear, m
  <2>7. CommandedKnown'
    <3>1. \A r \in serving' : Target[r] \in Apps
      BY <2>3, <2>6 DEF TypeInv, CommandedKnown
    <3>2. ASSUME NEW b \in Apps, NEW i \in 1 .. Len(down'[b]),
                 down'[b][i].kind = "command"
          PROVE  Target[down'[b][i].id] = b
      <4>1. CASE b = a
        <5>1. down'[b] = Tail(down[a])
          BY <2>5, <4>1 DEF TypeInv, ChannelOK
        <5> QED
          BY <2>2, <3>2, <4>1, <5>1 DEF TypeInv, CommandedKnown
      <4>2. CASE b # a
        BY <2>5, <3>2, <4>2 DEF TypeInv, ChannelOK, CommandedKnown
      <4> QED
        BY <4>1, <4>2
    <3> QED
      BY <3>1, <3>2 DEF CommandedKnown
  <2>8. ProcessOK'
    <3>1. slot' \in [Requests -> DownMessages \cup {None, Shut}]
      <4>1. slot' = slot \/ slot' = [slot EXCEPT ![m.id] = IF @ = None THEN m ELSE @]
        BY <1>2 DEF Hear, m
      <4> QED
        BY <2>2, <2>3, <4>1 DEF m, TypeInv, ProcessOK
    <3>2. strays' = strays \/ strays' = strays \cup {m.id}
      BY <1>2 DEF Hear, m
    <3>3. UNCHANGED <<alive, line, hearing, ask, served>>
      BY <1>2 DEF Hear
    <3> QED
      BY <2>3, <2>6, <3>1, <3>2, <3>3 DEF TypeInv, ProcessOK
  <2> QED
    BY <2>4, <2>7, <2>8
<1>3. ASSUME NEW a \in Apps, HearEnd(a) \/ HangUp(a) \/ CloseChannel(a) \/ Exit(a)
      PROVE  ProcessOK' /\ ChannelOK' /\ CommandedKnown'
  <2>1. slot' \in [Requests -> DownMessages \cup {None, Shut}]
    BY <1>3 DEF HearEnd, HangUp, CloseChannel, Exit, Release, TypeInv, ProcessOK
  <2>2. line' \in [Apps -> {"open", "closing", "closed"}]
    BY <1>3 DEF HearEnd, HangUp, CloseChannel, Exit, TypeInv, ProcessOK
  <2>3. hearing' \in [Apps -> BOOLEAN]
    <3>1. PICK h \in BOOLEAN : hearing' = [hearing EXCEPT ![a] = h]
      BY <1>3 DEF HearEnd, HangUp, CloseChannel, Exit, TypeInv, ProcessOK
    <3> QED
      BY <3>1 DEF TypeInv, ProcessOK
  <2>4. alive' \in [Apps -> BOOLEAN] /\ UNCHANGED <<ask, serving, served, strays>>
    BY <1>3 DEF HearEnd, HangUp, CloseChannel, Exit, TypeInv, ProcessOK
  <2>5. ProcessOK'
    BY <2>1, <2>2, <2>3, <2>4 DEF TypeInv, ProcessOK
  <2>6. ChannelOK' /\ CommandedKnown'
    BY <1>3 DEF HearEnd, HangUp, CloseChannel, Exit, channels, TypeInv, ChannelOK, CommandedKnown
  <2> QED
    BY <2>5, <2>6
<1>4. ASSUME NEW r \in Requests, Answer(r)
      PROVE  ProcessOK' /\ ChannelOK' /\ CommandedKnown'
  <2> DEFINE m == Message("result", r)
  <2>1. m \in UpMessages /\ (up' = up \/ up' = [up EXCEPT ![Target[r]] = Append(@, m)])
    BY <1>4, Messages DEF Answer, SendUp
  <2> HIDE DEF m
  <2>2. ChannelOK'
    <3>1. up' \in [Apps -> Seq(UpMessages)]
      <4>1. up \in [Apps -> Seq(UpMessages)]
        BY DEF TypeInv, ChannelOK
      <4>2. CASE up' = [up EXCEPT ![Target[r]] = Append(@, m)]
        BY <2>1, <4>1, <4>2, SendOn
      <4> QED
        BY <2>1, <4>1, <4>2
    <3> QED
      BY <1>4, <3>1 DEF Answer, TypeInv, ChannelOK
  <2>3. ProcessOK' /\ CommandedKnown'
    BY <1>4 DEF Answer, TypeInv, ProcessOK, CommandedKnown
  <2> QED
    BY <2>2, <2>3
<1> QED
  BY <1>1, <1>2, <1>3, <1>4 DEF TypeInv

(* The pump of an application. *)
LEMMA PumpKeepsTypes ==
    ASSUME TypeInv, NEW a \in Apps, Pump(a) \/ Put(a)
    PROVE  TypeInv'
<1>1. ProcessOK' /\ CommandedKnown' /\ context' \in {"up", "down"}
  BY DEF TypeInv, ProcessOK, CommandedKnown, Pump, Put, processes, channels
<1>2. CASE Pump(a)
  <2> DEFINE m == Head(up[a])
  <2>1. up[a] \in Seq(UpMessages) /\ up[a] # <<>>
    BY <1>2 DEF Pump, TypeInv, ChannelOK
  <2>2. Tail(up[a]) \in Seq(UpMessages) /\ m \in UpMessages
    BY <2>1, TailSeq
  <2>3. ChannelOK'
    BY <1>2, <2>2 DEF Pump, TypeInv, ChannelOK
  <2>4. m.id \in Requests
    BY <2>2, Messages
  <2> HIDE DEF m
  <2>5. /\ UNCHANGED <<held, loop, answered, reply>>
        /\ forward' = forward \/ forward' = [forward EXCEPT ![m.id] = "route"]
        /\ putting' = putting \/ putting' = [putting EXCEPT ![a] = m]
        /\ pushed' = pushed \/ pushed' = pushed \cup {m.id}
    BY <1>2 DEF Pump, m
  <2>6. forward' \in [Requests -> Forwards]
    BY <2>5 DEF TypeInv, TransportOK, Forwards
  <2>7. putting' \in [Apps -> UpMessages \cup {None}]
    BY <2>2, <2>5 DEF TypeInv, TransportOK, m
  <2>8. TransportOK'
    BY <2>4, <2>5, <2>6, <2>7 DEF TypeInv, TransportOK
  <2>9. KnownTarget' /\ ReplyReady'
    BY <2>4, <2>5 DEF TypeInv, TransportOK, KnownTarget, ReplyReady
  <2> QED
    BY <1>1, <2>3, <2>8, <2>9 DEF TypeInv
<1>3. CASE Put(a)
  <2>1. putting[a].id \in Requests
    BY <1>3, Messages DEF Put, TypeInv, TransportOK
  <2>2. TransportOK'
    BY <1>3, <2>1 DEF Put, TypeInv, TransportOK
  <2>3. ChannelOK' /\ KnownTarget' /\ ReplyReady'
    BY <1>3 DEF Put, channels, TypeInv, ChannelOK, KnownTarget, ReplyReady
  <2> QED
    BY <1>1, <2>2, <2>3 DEF TypeInv
<1> QED
  BY <1>2, <1>3

(* The worker of a request. *)
LEMMA WorkingKeepsTypes ==
    ASSUME TypeInv, NEW r \in Requests, Working(r)
    PROVE  TypeInv'
<1>1. ProcessOK' /\ context' \in {"up", "down"}
  BY DEF TypeInv, ProcessOK, Working, Find, Await, Send, Sent, SendRaises,
         Return, Reply, processes
<1>2. /\ TransportOK' /\ KnownTarget' /\ ReplyReady'
  <2>1. CASE Find(r)
    BY <2>1, RouteAssumption DEF Find, TypeInv, TransportOK, KnownTarget,
       ReplyReady, Forwards, Replies
  <2>2. CASE Await(r) \/ Send(r) \/ Sent(r) \/ SendRaises(r)
    BY <2>2 DEF Await, Send, Sent, SendRaises, TypeInv, TransportOK, KnownTarget,
       ReplyReady, Forwards
  <2>3. CASE Return(r)
    BY <2>3 DEF Return, Got, TypeInv, TransportOK, KnownTarget, ReplyReady,
       Forwards, Replies
  <2>4. CASE Reply(r)
    BY <2>4 DEF Reply, TypeInv, TransportOK, KnownTarget, ReplyReady, Forwards
  <2> QED
    BY <2>1, <2>2, <2>3, <2>4 DEF Working
<1>3. ASSUME NEW a \in Apps, NEW k \in {"command"} \cup Replies,
             k = "command" => Target[r] = a,
             up' = up, serving' = serving,
             down' = [down EXCEPT ![a] = Append(@, Message(k, r))]
      PROVE  ChannelOK' /\ CommandedKnown'
  <2> DEFINE m == Message(k, r)
  <2>1. m \in DownMessages /\ m.kind = k /\ m.id = r
    BY Messages
  <2> HIDE DEF m
  <2>2. down' = [down EXCEPT ![a] = Append(@, m)]
    BY <1>3 DEF m
  <2>3. /\ down' \in [Apps -> Seq(DownMessages)]
        /\ down'[a] = Append(down[a], m)
        /\ \A b \in Apps : b # a => down'[b] = down[b]
    BY <2>1, <2>2, SendOn DEF TypeInv, ChannelOK
  <2>4. ChannelOK'
    BY <1>3, <2>3 DEF TypeInv, ChannelOK
  <2>5. ASSUME NEW b \in Apps, NEW i \in 1 .. Len(down'[b]),
               down'[b][i].kind = "command"
        PROVE  Target[down'[b][i].id] = b
    <3>1. CASE b = a
      <4>1. down[a] \in Seq(DownMessages)
        BY DEF TypeInv, ChannelOK
      <4>2. /\ Len(down'[a]) = Len(down[a]) + 1
            /\ \A j \in 1 .. Len(down[a]) : down'[a][j] = down[a][j]
            /\ down'[a][Len(down[a]) + 1] = m
        BY <2>1, <2>3, <4>1, AppendSeq
      <4>3. i \in 1 .. Len(down[a]) \/ i = Len(down[a]) + 1
        BY <3>1, <4>1, <4>2
      <4> QED
        BY <1>3, <2>1, <2>5, <3>1, <4>2, <4>3 DEF TypeInv, CommandedKnown
    <3>2. CASE b # a
      BY <2>3, <2>5, <3>2 DEF TypeInv, CommandedKnown
    <3> QED
      BY <3>1, <3>2
  <2> QED
    BY <1>3, <2>4, <2>5 DEF TypeInv, CommandedKnown
<1>4. ChannelOK' /\ CommandedKnown'
  <2>1. CASE Send(r)
    <3>1. Target[r] \in Apps
      BY <2>1 DEF Send, TypeInv, KnownTarget
    <3> QED
      BY <1>3, <2>1, <3>1 DEF Send, processes
  <2>2. CASE Reply(r)
    <3>1. reply[r] \in Replies /\ reply[r] # "command" /\ Asker[r] \in Apps
      BY <2>2, RouteAssumption DEF Reply, TypeInv, ReplyReady, Replies
    <3>2. CASE down' = down
      BY <2>2, <3>2 DEF Reply, processes, TypeInv, ChannelOK, CommandedKnown
    <3>3. CASE down' = [down EXCEPT ![Asker[r]] = Append(@, Message(reply[r], r))]
      BY <1>3, <2>2, <3>1, <3>3 DEF Reply, processes
    <3> QED
      BY <2>2, <3>2, <3>3 DEF Reply
  <2>3. CASE Find(r) \/ Await(r) \/ Sent(r) \/ SendRaises(r) \/ Return(r)
    BY <2>3 DEF Find, Await, Sent, SendRaises, Return, channels, processes,
       TypeInv, ChannelOK, CommandedKnown
  <2> QED
    BY <2>1, <2>2, <2>3 DEF Working
<1> QED
  BY <1>1, <1>2, <1>4 DEF TypeInv

(* The closing of applications, and the end of the context. *)
LEMMA EndingKeepsTypes ==
    ASSUME TypeInv, Drop \/ ContextDies \/ \E a \in Apps : Finish(a)
    PROVE  TypeInv'
<1>1. CASE Drop \/ ContextDies
  <2>1. /\ UNCHANGED <<processes, down, loop, forward, reply, pushed>>
        /\ held' \subseteq held /\ answered' \subseteq answered
    BY <1>1 DEF Drop, ContextDies, channels
  <2>2. context' \in {"up", "down"}
    BY <1>1 DEF Drop, ContextDies, TypeInv
  <2>3. up' \in [Apps -> Seq(UpMessages)]
    <3>1. CASE up' = up
      BY <3>1 DEF TypeInv, ChannelOK
    <3>2. CASE up' = [a \in Apps |-> <<>>]
      <4>1. <<>> \in Seq(UpMessages)
        OBVIOUS
      <4> QED
        BY <3>2, <4>1
    <3> QED
      BY <1>1, <3>1, <3>2 DEF Drop, ContextDies, channels
  <2>4. putting' \in [Apps -> UpMessages \cup {None}]
    BY <1>1 DEF Drop, ContextDies, TypeInv, TransportOK
  <2> QED
    BY <2>1, <2>2, <2>3, <2>4 DEF TypeInv, processes, channels, ProcessOK, TransportOK, ChannelOK,
       KnownTarget, CommandedKnown, ReplyReady
<1>2. ASSUME NEW a \in Apps, Finish(a) PROVE TypeInv'
  <2>1. PICK n \in 0 .. Len(up[a]) : up' = [up EXCEPT ![a] = SubSeq(@, 1, n)]
    BY <1>2 DEF Finish
  <2>2. SubSeq(up[a], 1, n) \in Seq(UpMessages)
    BY PrefixSeq DEF TypeInv, ChannelOK
  <2>3. ChannelOK'
    BY <1>2, <2>1, <2>2 DEF Finish, TypeInv, ChannelOK
  <2>4. ProcessOK' /\ TransportOK' /\ context' \in {"up", "down"}
    BY <1>2 DEF Finish, TypeInv, ProcessOK, TransportOK
  <2>5. KnownTarget' /\ CommandedKnown' /\ ReplyReady'
    BY <1>2 DEF Finish, TypeInv, KnownTarget, CommandedKnown, ReplyReady
  <2> QED
    BY <2>3, <2>4, <2>5 DEF TypeInv
<1> QED
  BY <1>1, <1>2

(* Every step keeps the types, and what they rest on. *)
LEMMA TypeStep == TypeInv /\ [Next]_vars => TypeInv'
<1> SUFFICES ASSUME TypeInv, [Next]_vars PROVE TypeInv'
  OBVIOUS
<1>1. CASE UNCHANGED vars
  BY <1>1 DEF vars, processes, channels, transports, TypeInv, ProcessOK,
     TransportOK, ChannelOK, KnownTarget, CommandedKnown, ReplyReady
<1>2. CASE Next
  BY <1>2, AskingKeepsTypes, ApplicationKeepsTypes, PumpKeepsTypes,
     WorkingKeepsTypes, EndingKeepsTypes DEF Next
<1> QED
  BY <1>1, <1>2

(* Routing keeps every variable in its type. *)
THEOREM TypeCorrect == Spec => []TypeOK
<1>1. TypeInv => TypeOK
  BY DEF TypeInv, TypeOK, ProcessOK, TransportOK, ChannelOK
<1>2. QED
  BY <1>1, TypeInit, TypeStep, PTL DEF Spec

-----------------------------------------------------------------------------
(* A request is routed at most once: while its envelope is on the way, no  *)
(* worker has it, and there is no second one.                              *)
RouteInv ==
    /\ \A r \in Requests : ask[r] \in {"new", "registered"} => forward[r] = "none"
    /\ \A a \in Apps : \A i \in 1 .. Len(up[a]) :
          up[a][i].kind = "route" =>
             /\ a = Asker[up[a][i].id]
             /\ ask[up[a][i].id] \notin {"new", "registered"}
             /\ forward[up[a][i].id] = "none"
             /\ \A j \in 1 .. Len(up[a]) :
                   up[a][j].kind = "route" /\ up[a][j].id = up[a][i].id => j = i

(* Nothing is on its way at first. *)
LEMMA RouteInit == Init => RouteInv
<1>1. Len(<<>>) = 0
  OBVIOUS
<1> QED
  BY <1>1 DEF Init, RouteInv

(* An envelope is emitted before any worker, once. *)
LEMMA EmitKeepsRoutes ==
    ASSUME TypeInv, RouteInv, NEW r \in Requests, Emit(r)
    PROVE  RouteInv'
<1> DEFINE m == Message("route", r)
           a == Asker[r]
<1>1. m \in UpMessages /\ m.kind = "route" /\ m.id = r /\ a \in Apps
  BY Messages, RouteAssumption
<1>2. /\ ask[r] = "registered" /\ forward' = forward
      /\ up' = up \/ up' = [up EXCEPT ![a] = Append(@, m)]
      /\ ask' \in {[ask EXCEPT ![r] = "waiting"], [ask EXCEPT ![r] = "raised"]}
  BY DEF Emit, SendUp, transports
<1> HIDE DEF m, a
<1>t. /\ up \in [Apps -> Seq(UpMessages)] /\ ask \in [Requests -> Asks]
      /\ \A b \in Apps : \A i \in 1 .. Len(up[b]) : up[b][i].id \in Requests
  <2>1. up \in [Apps -> Seq(UpMessages)] /\ ask \in [Requests -> Asks]
    BY DEF TypeInv, ChannelOK, ProcessOK
  <2>2. \A b \in Apps : \A i \in 1 .. Len(up[b]) : up[b][i] \in UpMessages
    BY <2>1
  <2> QED
    BY <2>1, <2>2, Messages
<1>3. \A q \in Requests : ask'[q] \in {"new", "registered"} => q # r /\ ask'[q] = ask[q]
  BY <1>2, <1>t
<1>4. \A q \in Requests : ask[q] \notin {"new", "registered"} =>
         q # r /\ ask'[q] \notin {"new", "registered"}
  BY <1>2, <1>t
<1>5. CASE up' = up
  BY <1>2, <1>3, <1>4, <1>5, <1>t DEF RouteInv
<1>6. CASE up' = [up EXCEPT ![a] = Append(@, m)]
  <2>1. \A b \in Apps : \A i \in 1 .. Len(up'[b]) :
           \/ i \in 1 .. Len(up[b]) /\ up'[b][i] = up[b][i]
           \/ b = a /\ i = Len(up[a]) + 1 /\ up'[b][i] = m
    BY ONLY <1>1, <1>6, <1>t, SentIs
  <2>2. \A b \in Apps : \A i \in 1 .. Len(up[b]) :
           up[b][i].kind = "route" => up[b][i].id # r
    BY <1>2 DEF RouteInv
  <2>3. forward'[r] = "none" /\ ask'[r] \notin {"new", "registered"}
    BY <1>2, <1>6, <1>t DEF RouteInv
  <2> QED
    BY <1>1, <1>2, <1>3, <1>4, <2>1, <2>2, <2>3, <1>t DEF RouteInv, a
<1> QED
  BY <1>2, <1>5, <1>6

(* A pump takes the one envelope of a request. *)
LEMMA PumpKeepsRoutes ==
    ASSUME TypeInv, RouteInv, NEW a \in Apps, Pump(a)
    PROVE  RouteInv'
<1> DEFINE m == Head(up[a])
<1>t. up \in [Apps -> Seq(UpMessages)] /\ forward \in [Requests -> Forwards]
  BY DEF TypeInv, ChannelOK, TransportOK
<1>1. up[a] # <<>> /\ up' = [up EXCEPT ![a] = Tail(@)] /\ ask' = ask
  BY DEF Pump, processes
<1>2. 1 \in 1 .. Len(up[a]) /\ m = up[a][1] /\ m \in UpMessages
  BY <1>1, <1>t, TailSeq
<1>3. \/ m.kind = "route" /\ forward' = [forward EXCEPT ![m.id] = "route"]
      \/ forward' = forward
  BY DEF Pump
<1>4. m.id \in Requests
  BY <1>2, Messages
<1>i. \A b \in Apps : \A i \in 1 .. Len(up[b]) : up[b][i].id \in Requests
  <2>1. \A b \in Apps : \A i \in 1 .. Len(up[b]) : up[b][i] \in UpMessages
    BY <1>t
  <2> QED
    BY <2>1, Messages
<1> HIDE DEF m
<1>5. \A b \in Apps : \A i \in 1 .. Len(up'[b]) :
         \/ b # a /\ i \in 1 .. Len(up[b]) /\ up'[b][i] = up[b][i]
         \/ b = a /\ i + 1 \in 1 .. Len(up[a]) /\ up'[b][i] = up[a][i + 1]
  BY <1>1, <1>t, TakenIs
<1>6. ASSUME NEW b \in Apps, NEW i \in 1 .. Len(up'[b]), up'[b][i].kind = "route"
      PROVE  /\ b = Asker[up'[b][i].id]
             /\ ask'[up'[b][i].id] \notin {"new", "registered"}
             /\ forward'[up'[b][i].id] = "none"
             /\ \A j \in 1 .. Len(up'[b]) :
                   up'[b][j].kind = "route" /\ up'[b][j].id = up'[b][i].id => j = i
  <2>1. CASE b # a
    <3>1. /\ i \in 1 .. Len(up[b]) /\ up'[b][i] = up[b][i]
          /\ up'[b] = up[b]
      BY <1>1, <1>5, <1>t, <2>1
    <3>2. b = Asker[up[b][i].id]
      BY <1>6, <3>1 DEF RouteInv
    <3>3. m.kind = "route" => m.id # up[b][i].id
      BY <1>2, <2>1, <3>2 DEF RouteInv
    <3>4. forward'[up[b][i].id] = forward[up[b][i].id]
      BY <1>3, <1>t, <1>i, <3>1, <3>3
    <3> QED
      BY <1>1, <1>6, <3>1, <3>4 DEF RouteInv
  <2>2. CASE b = a
    <3>1. i + 1 \in 1 .. Len(up[a]) /\ up'[b][i] = up[a][i + 1] /\ i + 1 # 1
      BY <1>5, <2>2
    <3>2. m.kind = "route" => m.id # up[a][i + 1].id
      BY <1>2, <1>6, <3>1 DEF RouteInv
    <3>3. forward'[up[a][i + 1].id] = forward[up[a][i + 1].id]
      BY <1>3, <1>t, <1>i, <3>1, <3>2
    <3>4. ASSUME NEW j \in 1 .. Len(up'[b]), up'[b][j].kind = "route",
                 up'[b][j].id = up'[b][i].id
          PROVE  j = i
      <4>1. j + 1 \in 1 .. Len(up[a]) /\ up'[b][j] = up[a][j + 1]
        BY <1>5, <2>2
      <4>2. j + 1 = i + 1
        BY <1>6, <3>1, <3>4, <4>1 DEF RouteInv
      <4> QED
        BY <4>2
    <3> QED
      BY <1>1, <1>6, <2>2, <3>1, <3>3, <3>4 DEF RouteInv
  <2> QED
    BY <2>1, <2>2
<1>7. \A r \in Requests : ask'[r] \in {"new", "registered"} => forward'[r] = "none"
  BY <1>1, <1>2, <1>3, <1>4, <1>t DEF RouteInv
<1> QED
  BY <1>6, <1>7 DEF RouteInv

(* Everything else leaves the envelopes on the way alone, or loses some. *)
LEMMA RouteStep == TypeInv /\ RouteInv /\ [Next]_vars => RouteInv'
<1> SUFFICES ASSUME TypeInv, RouteInv, [Next]_vars PROVE RouteInv'
  OBVIOUS
<1>t. up \in [Apps -> Seq(UpMessages)] /\ forward \in [Requests -> Forwards]
      /\ ask \in [Requests -> Asks]
  BY DEF TypeInv, ChannelOK, TransportOK, ProcessOK
<1>i. \A b \in Apps : \A i \in 1 .. Len(up[b]) : up[b][i].id \in Requests
  <2>1. \A b \in Apps : \A i \in 1 .. Len(up[b]) : up[b][i] \in UpMessages
    BY <1>t
  <2> QED
    BY <2>1, Messages
<1>1. CASE UNCHANGED vars
  BY <1>1 DEF vars, processes, channels, transports, RouteInv
<1>2. ASSUME NEW r \in Requests, Register(r) \/ Take(r) \/ GiveUp(r)
      PROVE  RouteInv'
  <2>1. up' = up /\ forward' = forward
    BY <1>2 DEF Register, Take, GiveUp, channels, transports
  <2>2. \A q \in Requests :
           ask'[q] \in {"new", "registered"} <=> ask[q] \in {"new", "registered"}
    <3>1. CASE Register(r)
      BY <3>1, <1>t DEF Register
    <3>2. CASE Take(r)
      <4>1. slot[r].kind \notin {"new", "registered"} /\ ask[r] = "waiting"
        BY <3>2, Messages DEF Take, TypeInv, ProcessOK, Replies
      <4> QED
        BY <3>2, <4>1, <1>t DEF Take
    <3>3. CASE GiveUp(r)
      BY <3>3, <1>t DEF GiveUp
    <3> QED
      BY <1>2, <3>1, <3>2, <3>3
  <2> QED
    BY <2>1, <2>2, <1>i DEF RouteInv
<1>3. ASSUME NEW r \in Requests, Answer(r) PROVE RouteInv'
  <2> DEFINE m == Message("result", r)
             b == Target[r]
  <2>1. m \in UpMessages /\ m.kind = "result" /\ b \in Apps
    BY <1>3, Messages DEF Answer, TypeInv, CommandedKnown
  <2>2. /\ up' = up \/ up' = [up EXCEPT ![b] = Append(@, m)]
        /\ ask' = ask /\ forward' = forward
    BY <1>3 DEF Answer, SendUp, transports
  <2> HIDE DEF m, b
  <2>3. \A c \in Apps : \A i \in 1 .. Len(up'[c]) :
           \/ i \in 1 .. Len(up[c]) /\ up'[c][i] = up[c][i]
           \/ c = b /\ i = Len(up[b]) + 1 /\ up'[c][i] = m
    <3>1. CASE up' = up
      BY <3>1
    <3>2. CASE up' = [up EXCEPT ![b] = Append(@, m)]
      <4>1. up \in [Apps -> Seq(UpMessages)] /\ b \in Apps /\ m \in UpMessages
        BY <2>1, <1>t
      <4> QED
        BY ONLY <4>1, <3>2, SentIs
    <3> QED
      BY <2>2, <3>1, <3>2
  <2> QED
    BY <2>1, <2>2, <2>3 DEF RouteInv
<1>4. ASSUME NEW r \in Requests, Working(r) PROVE RouteInv'
  <2>1. up' = up /\ ask' = ask
    BY <1>4 DEF Working, Find, Await, Send, Sent, SendRaises, Return, Reply,
       processes, channels
  <2>2. forward[r] # "none" /\ \E l \in Forwards : forward' = [forward EXCEPT ![r] = l]
    BY <1>4 DEF Working, Find, Await, Send, Sent, SendRaises, Return, Reply, Got,
       Forwards
  <2>3. \A q \in Requests : forward[q] = "none" => forward'[q] = "none"
    BY <2>2, <1>t
  <2> QED
    BY <2>1, <2>3, <1>i DEF RouteInv
<1>5. ASSUME NEW a \in Apps, Finish(a) PROVE RouteInv'
  <2>1. PICK n \in 0 .. Len(up[a]) : up' = [up EXCEPT ![a] = SubSeq(@, 1, n)]
    BY <1>5 DEF Finish
  <2>2. \A b \in Apps : \A i \in 1 .. Len(up'[b]) :
           i \in 1 .. Len(up[b]) /\ up'[b][i] = up[b][i]
    BY <2>1, <1>t, CutIs
  <2>3. ask' = ask /\ forward' = forward
    BY <1>5 DEF Finish
  <2> QED
    BY <2>2, <2>3 DEF RouteInv
<1>6. CASE \/ Drop
           \/ \E a \in Apps : \/ Hear(a) \/ HearEnd(a) \/ HangUp(a)
                              \/ CloseChannel(a) \/ Exit(a) \/ Put(a)
  <2>1. UNCHANGED <<up, ask, forward>>
    BY <1>6 DEF Drop, Hear, HearEnd, HangUp, CloseChannel, Exit, Put, processes,
       channels, transports
  <2> QED
    BY <2>1 DEF RouteInv
<1>7. CASE ContextDies
  <2>1. ask' = ask /\ forward' = forward /\ up' = [a \in Apps |-> <<>>]
    BY <1>7 DEF ContextDies, processes
  <2>2. \A b \in Apps : 1 .. Len(up'[b]) = {}
    BY <2>1
  <2> QED
    BY <2>1, <2>2 DEF RouteInv
<1> QED
  BY <1>1, <1>2, <1>3, <1>4, <1>5, <1>6, <1>7, EmitKeepsRoutes, PumpKeepsRoutes
     DEF Next, Asking

-----------------------------------------------------------------------------
(* Where the worker of a request can go from where it stands. *)
Onward == {<<"none", "route">>, <<"route", "found">>, <<"route", "reply">>,
           <<"found", "send">>, <<"send", "sent">>, <<"send", "died">>,
           <<"sent", "await">>, <<"await", "reply">>, <<"reply", "done">>}

(* A worker goes on and never back, as its request is routed once. *)
LEMMA ForwardStep ==
    ASSUME TypeInv, RouteInv, [Next]_vars, NEW q \in Requests
    PROVE  forward'[q] = forward[q] \/ <<forward[q], forward'[q]>> \in Onward
<1>t. forward \in [Requests -> Forwards]
  BY DEF TypeInv, TransportOK
<1>1. ASSUME NEW r \in Requests, Working(r)
      PROVE  forward'[q] = forward[q] \/ <<forward[q], forward'[q]>> \in Onward
  BY <1>1, <1>t DEF Working, Find, Await, Send, Sent, SendRaises, Return, Reply,
     Got, Onward
<1>2. ASSUME NEW a \in Apps, Pump(a)
      PROVE  forward'[q] = forward[q] \/ <<forward[q], forward'[q]>> \in Onward
  <2> DEFINE m == Head(up[a])
  <2>1. up[a] \in Seq(UpMessages) /\ up[a] # <<>>
    BY <1>2 DEF Pump, TypeInv, ChannelOK
  <2>2. 1 \in 1 .. Len(up[a]) /\ m = up[a][1]
    BY <2>1, TailSeq
  <2>3. \/ m.kind = "route" /\ forward' = [forward EXCEPT ![m.id] = "route"]
        \/ forward' = forward
    BY <1>2 DEF Pump
  <2>4. m.kind = "route" => forward[m.id] = "none"
    BY <2>2 DEF RouteInv
  <2> HIDE DEF m
  <2> QED
    BY <2>3, <2>4, <1>t DEF Onward
<1>3. CASE \/ UNCHANGED vars \/ Drop \/ ContextDies
           \/ \E r \in Requests : Asking(r) \/ GiveUp(r) \/ Answer(r)
           \/ \E a \in Apps : \/ Hear(a) \/ HearEnd(a) \/ HangUp(a) \/ CloseChannel(a) \/ Exit(a)
                              \/ Put(a) \/ Finish(a)
  BY <1>3 DEF vars, transports, Drop, ContextDies, Asking, Register, Emit, Take,
     GiveUp, Answer, Hear, HearEnd, HangUp, CloseChannel, Exit, Put, Finish
<1> QED
  BY <1>1, <1>2, <1>3 DEF Next

(* The command of request r has been sent. *)
AfterSend == {"sent", "await", "reply", "done"}
Commanded(r) == forward[r] \in AfterSend

(* What an application serves or has served was sent to it, and what comes *)
(* back was served: the worker is waiting, or no longer so.                *)
CommandInv ==
    /\ \A r \in serving \cup served : Commanded(r)
    /\ \A a \in Apps : \A i \in 1 .. Len(down[a]) :
          down[a][i].kind = "command" => Commanded(down[a][i].id)
    /\ \A a \in Apps : \A i \in 1 .. Len(up[a]) :
          up[a][i].kind = "result" => up[a][i].id \in served /\ Target[up[a][i].id] = a
    /\ \A a \in Apps : putting[a] # None => putting[a].id \in served
    /\ answered \subseteq served
    /\ NeverTooFast

(* Nothing has been sent at first. *)
LEMMA CommandInit == Init => CommandInv
<1>1. Len(<<>>) = 0
  OBVIOUS
<1> QED
  BY <1>1 DEF Init, CommandInv, NeverTooFast

(* A command is sent before it is heard, and heard before it is answered. *)
LEMMA CommandStep == TypeInv /\ RouteInv /\ CommandInv /\ [Next]_vars => CommandInv'
<1> SUFFICES ASSUME TypeInv, RouteInv, CommandInv, [Next]_vars PROVE CommandInv'
  OBVIOUS
<1>t. /\ up \in [Apps -> Seq(UpMessages)] /\ down \in [Apps -> Seq(DownMessages)]
      /\ forward \in [Requests -> Forwards]
      /\ serving \subseteq Requests /\ served \subseteq Requests /\ pushed \subseteq Requests
      /\ putting \in [Apps -> UpMessages \cup {None}]
  BY DEF TypeInv, ChannelOK, TransportOK, ProcessOK
<1>i. \A b \in Apps : \A i \in 1 .. Len(down[b]) : down[b][i].id \in Requests
  <2>1. \A b \in Apps : \A i \in 1 .. Len(down[b]) : down[b][i] \in DownMessages
    BY <1>t
  <2> QED
    BY <2>1, Messages
<1>c. \A q \in Requests : /\ forward[q] \in AfterSend => forward'[q] \in AfterSend
                          /\ forward[q] \in {"reply", "done"} =>
                               forward'[q] \in {"reply", "done"}
  BY ForwardStep DEF Onward, AfterSend
<1> USE DEF CommandInv, NeverTooFast, Commanded
<1>1. CASE UNCHANGED vars
  BY <1>1 DEF vars, processes, channels, transports
<1>2. ASSUME NEW r \in Requests, Asking(r) \/ GiveUp(r) PROVE CommandInv'
  <2>1. UNCHANGED <<serving, served, down, putting, answered, pushed, forward>>
    BY <1>2 DEF Asking, Register, Emit, Take, GiveUp, channels, transports
  <2>2. CASE up' = up
    BY <2>1, <2>2
  <2>3. CASE up' # up
    <3> DEFINE m == Message("route", r)
               a == Asker[r]
    <3>1. m \in UpMessages /\ m.kind # "result" /\ a \in Apps
      BY Messages, RouteAssumption
    <3>2. up' = [up EXCEPT ![a] = Append(@, m)]
      BY <1>2, <2>3 DEF Asking, Register, Emit, SendUp, Take, GiveUp, channels
    <3> HIDE DEF m, a
    <3>3. \A c \in Apps : \A i \in 1 .. Len(up'[c]) :
             \/ i \in 1 .. Len(up[c]) /\ up'[c][i] = up[c][i]
             \/ c = a /\ i = Len(up[a]) + 1 /\ up'[c][i] = m
      BY <3>1, <3>2, <1>t, SentIs
    <3> QED
      BY <2>1, <3>1, <3>3
  <2> QED
    BY <2>2, <2>3
<1>3. ASSUME NEW r \in Requests, Answer(r) PROVE CommandInv'
  <2> DEFINE m == Message("result", r)
             b == Target[r]
  <2>1. m \in UpMessages /\ m.id = r /\ b \in Apps /\ b = Target[r]
    BY <1>3, Messages DEF Answer, TypeInv, CommandedKnown
  <2>2. /\ up' = up \/ up' = [up EXCEPT ![b] = Append(@, m)]
        /\ r \in serving
        /\ serving' = serving \ {r} /\ served' = served \cup {r}
        /\ UNCHANGED <<down, forward, putting, answered, pushed>>
    BY <1>3 DEF Answer, SendUp, transports
  <2> HIDE DEF m, b
  <2>3. \A c \in Apps : \A i \in 1 .. Len(up'[c]) :
           \/ i \in 1 .. Len(up[c]) /\ up'[c][i] = up[c][i]
           \/ c = b /\ i = Len(up[b]) + 1 /\ up'[c][i] = m
    <3>1. CASE up' = up
      BY <3>1
    <3>2. CASE up' = [up EXCEPT ![b] = Append(@, m)]
      BY <2>1, <3>2, <1>t, SentIs
    <3> QED
      BY <2>2, <3>1, <3>2
  <2> QED
    BY <2>1, <2>2, <2>3
<1>4. ASSUME NEW a \in Apps, Hear(a) PROVE CommandInv'
  <2> DEFINE m == Head(down[a])
  <2>1. down[a] \in Seq(DownMessages) /\ down[a] # <<>>
    BY <1>4, <1>t DEF Hear
  <2>2. 1 \in 1 .. Len(down[a]) /\ m = down[a][1]
    BY <2>1, TailSeq
  <2>3. /\ down' = [down EXCEPT ![a] = Tail(@)]
        /\ serving' = serving \/ (serving' = serving \cup {m.id} /\ m.kind = "command")
        /\ UNCHANGED <<served, up, putting, forward, answered, pushed>>
    BY <1>4 DEF Hear, transports
  <2> HIDE DEF m
  <2>4. \A c \in Apps : \A i \in 1 .. Len(down'[c]) :
           \/ c # a /\ i \in 1 .. Len(down[c]) /\ down'[c][i] = down[c][i]
           \/ c = a /\ i + 1 \in 1 .. Len(down[a]) /\ down'[c][i] = down[a][i + 1]
    BY <2>1, <2>3, <1>t, TakenIs
  <2> QED
    BY <2>2, <2>3, <2>4
<1>5. ASSUME NEW a \in Apps, HearEnd(a) \/ HangUp(a) \/ CloseChannel(a) \/ Exit(a) PROVE CommandInv'
  BY <1>5 DEF HearEnd, HangUp, CloseChannel, Exit, channels, transports
<1>6. ASSUME NEW a \in Apps, Pump(a) PROVE CommandInv'
  <2> DEFINE m == Head(up[a])
  <2>1. up[a] \in Seq(UpMessages) /\ up[a] # <<>>
    BY <1>6, <1>t DEF Pump
  <2>2. 1 \in 1 .. Len(up[a]) /\ m = up[a][1] /\ m \in UpMessages
    BY <2>1, TailSeq
  <2>3. up' = [up EXCEPT ![a] = Tail(@)]
        /\ UNCHANGED <<serving, served, down, answered>>
    BY <1>6 DEF Pump, processes
  <2>4. \A c \in Apps : \A i \in 1 .. Len(up'[c]) :
           \/ c # a /\ i \in 1 .. Len(up[c]) /\ up'[c][i] = up[c][i]
           \/ c = a /\ i + 1 \in 1 .. Len(up[a]) /\ up'[c][i] = up[a][i + 1]
    BY <2>1, <2>3, <1>t, TakenIs
  <2>5. m.id \in Requests /\ (m.kind = "result" => m.id \in served /\ Target[m.id] = a)
    BY <2>2, Messages
  <2>6. \A c \in Apps : putting'[c] # None => putting'[c].id \in served
    <3>1. putting' = putting \/ (putting' = [putting EXCEPT ![a] = m] /\ m.kind = "result")
      BY <1>6 DEF Pump
    <3> HIDE DEF m
    <3> QED
      BY <2>5, <3>1, <1>t
  <2>7. \A q \in Requests : q \in pushed' => forward'[q] \in {"reply", "done"}
    <3>1. CASE pushed' = pushed
      BY <3>1, <1>c
    <3>2. CASE /\ pushed' = pushed \cup {m.id} /\ forward' = forward
               /\ m.kind = "result" /\ m.id \notin Awaited(a)
      <4>1. Commanded(m.id)
        BY <2>5, <3>2
      <4>2. forward[m.id] \in {"reply", "done"}
        BY <2>5, <3>2, <4>1 DEF Awaited, AfterSend
      <4> QED
        BY <3>2, <4>2
    <3> QED
      BY <1>6, <3>1, <3>2 DEF Pump
  <2>8. /\ \A q \in serving' \cup served' : forward'[q] \in AfterSend
        /\ \A c \in Apps : \A i \in 1 .. Len(down'[c]) :
              down'[c][i].kind = "command" => forward'[down[c][i].id] \in AfterSend
    BY <2>3, <1>c, <1>i, <1>t
  <2> HIDE DEF m
  <2> QED
    BY <2>3, <2>4, <2>6, <2>7, <2>8
<1>7. ASSUME NEW a \in Apps, Put(a) PROVE CommandInv'
  <2>1. /\ putting[a] # None /\ answered' = answered \cup {putting[a].id}
        /\ putting' = [putting EXCEPT ![a] = None]
        /\ UNCHANGED <<serving, served, up, down, forward, pushed>>
    BY <1>7 DEF Put, processes, channels
  <2> QED
    BY <2>1, <1>t
<1>8. ASSUME NEW r \in Requests, Working(r) PROVE CommandInv'
  <2>1. UNCHANGED <<serving, served, up, putting, answered, pushed>>
    BY <1>8 DEF Working, Find, Await, Send, Sent, SendRaises, Return, Reply,
       processes, channels
  <2>2. CASE down' = down
    BY <2>1, <2>2, <1>c, <1>i, <1>t
  <2>3. ASSUME NEW a \in Apps, NEW m \in DownMessages, m.id = r,
               m.kind = "command" => forward'[r] \in AfterSend,
               down' = [down EXCEPT ![a] = Append(@, m)]
        PROVE  CommandInv'
    <3>1. \A c \in Apps : \A i \in 1 .. Len(down'[c]) :
             \/ i \in 1 .. Len(down[c]) /\ down'[c][i] = down[c][i]
             \/ c = a /\ i = Len(down[a]) + 1 /\ down'[c][i] = m
      BY <2>3, <1>t, SentIs
    <3>2. ASSUME NEW c \in Apps, NEW i \in 1 .. Len(down'[c]),
                 down'[c][i].kind = "command"
          PROVE  forward'[down'[c][i].id] \in AfterSend
      BY <2>3, <3>1, <3>2, <1>c, <1>i
    <3> QED
      BY <2>1, <3>2, <1>c, <1>t
  <2>4. CASE Send(r)
    <3> DEFINE m == Message("command", r)
    <3>1. Target[r] \in Apps /\ m \in DownMessages /\ m.id = r
      BY <2>4, Messages DEF Send, TypeInv, KnownTarget
    <3>2. /\ down' = [down EXCEPT ![Target[r]] = Append(@, m)]
          /\ forward'[r] \in AfterSend
      BY <2>4, <1>t DEF Send, AfterSend
    <3> HIDE DEF m
    <3> QED
      BY <2>3, <3>1, <3>2
  <2>5. CASE Reply(r) /\ down' # down
    <3> DEFINE m == Message(reply[r], r)
    <3>1. /\ Asker[r] \in Apps /\ m \in DownMessages /\ m.id = r
          /\ m.kind # "command"
      BY <2>5, Messages, RouteAssumption DEF Reply, TypeInv, ReplyReady, Replies
    <3>2. down' = [down EXCEPT ![Asker[r]] = Append(@, m)]
      BY <2>5 DEF Reply
    <3> HIDE DEF m
    <3> QED
      BY <2>3, <3>1, <3>2
  <2>6. CASE down' = down \/ Send(r) \/ Reply(r)
    BY <2>2, <2>4, <2>5, <2>6
  <2> QED
    BY <1>8, <2>6 DEF Working, Find, Await, Sent, SendRaises, Return, channels
<1>9. ASSUME NEW a \in Apps, Finish(a) PROVE CommandInv'
  <2>1. PICK n \in 0 .. Len(up[a]) : up' = [up EXCEPT ![a] = SubSeq(@, 1, n)]
    BY <1>9 DEF Finish
  <2>2. \A b \in Apps : \A i \in 1 .. Len(up'[b]) :
           i \in 1 .. Len(up[b]) /\ up'[b][i] = up[b][i]
    BY <2>1, <1>t, CutIs
  <2>3. UNCHANGED <<serving, served, down, putting, answered, pushed, forward>>
    BY <1>9 DEF Finish
  <2> QED
    BY <2>2, <2>3
<1>10. CASE Drop
  BY <1>10 DEF Drop, processes, channels, transports
<1>11. CASE ContextDies
  <2>1. /\ UNCHANGED <<serving, served, down, pushed, forward>>
        /\ up' = [a \in Apps |-> <<>>] /\ answered' = {}
        /\ \A a \in Apps : putting'[a] = None
    BY <1>11 DEF ContextDies, processes
  <2>2. \A b \in Apps : 1 .. Len(up'[b]) = {}
    BY <2>1
  <2> QED
    BY <2>1, <2>2
<1> QED
  BY <1>1, <1>2, <1>3, <1>4, <1>5, <1>6, <1>7, <1>8, <1>9, <1>10, <1>11 DEF Next

(* An answer however fast is never missed: one that goes past its request  *)
(* comes when the worker no longer waits for it.                           *)
THEOREM AnswersAreAwaited == Spec => []NeverTooFast
<1>1. CommandInv => NeverTooFast
  BY DEF CommandInv
<1> QED
  BY <1>1, TypeInit, TypeStep, RouteInit, RouteStep, CommandInit, CommandStep, PTL
     DEF Spec

-----------------------------------------------------------------------------
(* What a reply of kind k to request r says is so. *)
Truth(k, r) ==
    /\ k = "answer" => r \in served
    /\ k = "not_held" => Target[r] \notin held
    /\ k = "ended" => Target[r] \in Apps /\ ~alive[Target[r]]

(* Every reply is true, wherever it is on its way to the asker. *)
TruthInv ==
    /\ \A r \in Requests :
          Truth(ask[r], r) /\ Truth(reply[r], r) /\ Truth(slot[r].kind, r)
    /\ \A a \in Apps : \A i \in 1 .. Len(down[a]) :
          Truth(down[a][i].kind, down[a][i].id)

(* The same with what is true in the next state. *)
TrueNext(k, r) ==
    /\ k = "answer" => r \in served'
    /\ k = "not_held" => Target[r] \notin held'
    /\ k = "ended" => Target[r] \in Apps /\ ~alive'[Target[r]]

(* Nothing has been said at first. *)
LEMMA TruthInit == Init => TruthInv
<1>1. Len(<<>>) = 0
  OBVIOUS
<1> QED
  BY <1>1, Messages DEF Init, TruthInv, Truth

(* What is true of a reply remains so: what was served was served, what    *)
(* was dropped is not held again, what has ended does not come back.       *)
LEMMA TruthRemains ==
    ASSUME TypeInv, [Next]_vars, NEW k, NEW r, Truth(k, r)
    PROVE  TrueNext(k, r)
<1>1. /\ served \subseteq served' /\ held' \subseteq held
      /\ \A a \in Apps : ~alive[a] => ~alive'[a]
  <2>1. CASE \E a \in Apps : Exit(a) \/ Finish(a)
    BY <2>1 DEF Exit, Finish, TypeInv, ProcessOK, transports
  <2>2. CASE \E q \in Requests : Answer(q)
    BY <2>2 DEF Answer, transports
  <2>3. CASE Drop
    BY <2>3 DEF Drop, processes
  <2>4. CASE \/ UNCHANGED vars \/ ContextDies
             \/ \E q \in Requests : Asking(q) \/ GiveUp(q) \/ Working(q)
             \/ \E a \in Apps : Hear(a) \/ HearEnd(a) \/ HangUp(a) \/ CloseChannel(a) \/ Pump(a) \/ Put(a)
    BY <2>4 DEF vars, processes, transports, ContextDies, Asking, Register, Emit,
       Take, GiveUp, Working, Find, Await, Send, Sent, SendRaises, Return, Reply,
       Hear, HearEnd, HangUp, CloseChannel, Pump, Put
  <2> QED
    BY <2>1, <2>2, <2>3, <2>4 DEF Next
<1> QED
  BY <1>1 DEF Truth, TrueNext

(* A worker gets a reply that is true, and an asker what is in its queue.  *)
LEMMA TruthStep == TypeInv /\ CommandInv /\ TruthInv /\ [Next]_vars => TruthInv'
<1> SUFFICES ASSUME TypeInv, CommandInv, TruthInv, [Next]_vars PROVE TruthInv'
  OBVIOUS
<1>t. /\ down \in [Apps -> Seq(DownMessages)]
      /\ ask \in [Requests -> Asks]
      /\ slot \in [Requests -> DownMessages \cup {None, Shut}]
      /\ reply \in [Requests -> Replies \cup {"none"}]
  BY DEF TypeInv, ChannelOK, TransportOK, ProcessOK
<1>r. \A k, r : Truth(k, r) => TrueNext(k, r)
  BY TruthRemains
<1>n. \A r : /\ \A k \in {"none", "shut", "command", "timeout", "registered", "waiting",
                         "raised", "timed_out"} : TrueNext(k, r)
  BY DEF TrueNext
<1>1. \A r \in Requests : TrueNext(ask'[r], r)
  <2>1. ASSUME NEW q \in Requests, Asking(q) \/ GiveUp(q)
        PROVE  \A r \in Requests : TrueNext(ask'[r], r)
    <3>1. \E k \in {"registered", "waiting", "raised", "timed_out", slot[q].kind} :
             ask' = [ask EXCEPT ![q] = k]
      BY <2>1 DEF Asking, Register, Emit, Take, GiveUp
    <3> QED
      BY <3>1, <1>r, <1>n, <1>t DEF TruthInv
  <2>2. CASE ask' = ask
    BY <2>2, <1>r DEF TruthInv
  <2>3. ask' = ask \/ \E q \in Requests : Asking(q) \/ GiveUp(q)
    BY DEF Next, vars, processes, Drop, ContextDies, Working, Find, Await, Send,
       Sent, SendRaises, Return, Reply, Answer, Hear, HearEnd, HangUp, CloseChannel, Exit, Pump,
       Put, Finish
  <2> QED
    BY <2>1, <2>2, <2>3
<1>2. \A r \in Requests : TrueNext(reply'[r], r)
  <2>1. ASSUME NEW q \in Requests, Find(q) \/ Return(q)
        PROVE  \A r \in Requests : TrueNext(reply'[r], r)
    <3>1. reply' = reply \/ \E k : Truth(k, q) /\ reply' = [reply EXCEPT ![q] = k]
      <4>1. CASE Find(q)
        BY <4>1 DEF Find, Truth
      <4>2. CASE Return(q)
        <5>1. q \in answered => q \in served
          BY DEF CommandInv
        <5>2. Ended(Target[q]) => Truth("ended", q)
          BY <4>2 DEF Ended, Truth, Return, TypeInv, KnownTarget
        <5> QED
          BY <4>2, <5>1, <5>2 DEF Return, Got, Truth
      <4> QED
        BY <2>1, <4>1, <4>2
    <3> QED
      BY <3>1, <1>r, <1>t DEF TruthInv
  <2>2. CASE reply' = reply
    BY <2>2, <1>r DEF TruthInv
  <2>3. reply' = reply \/ \E q \in Requests : Find(q) \/ Return(q)
    BY DEF Next, vars, transports, Drop, ContextDies, Working, Await, Send, Sent,
       SendRaises, Reply, Asking, Register, Emit, Take, GiveUp, Answer, Hear, HearEnd,
       HangUp, CloseChannel, Exit, Pump, Put, Finish
  <2> QED
    BY <2>1, <2>2, <2>3
<1>3. \A r \in Requests : TrueNext(slot'[r].kind, r)
  <2>1. ASSUME NEW a \in Apps, Hear(a)
        PROVE  \A r \in Requests : TrueNext(slot'[r].kind, r)
    <3> DEFINE m == Head(down[a])
    <3>1. down[a] \in Seq(DownMessages) /\ down[a] # <<>>
      BY <2>1, <1>t DEF Hear
    <3>2. 1 \in 1 .. Len(down[a]) /\ m = down[a][1]
      BY <3>1, TailSeq
    <3>3. slot' = slot \/ slot' = [slot EXCEPT ![m.id] = IF @ = None THEN m ELSE @]
      BY <2>1 DEF Hear
    <3>4. Truth(m.kind, m.id)
      BY <3>2 DEF TruthInv
    <3> HIDE DEF m
    <3>5. \A r \in Requests : slot'[r] = slot[r] \/ (r = m.id /\ slot'[r] = m)
      BY <3>3, <1>t
    <3> QED
      BY <3>4, <3>5, <1>r DEF TruthInv
  <2>2. ASSUME NEW a \in Apps, HearEnd(a) \/ HangUp(a) \/ CloseChannel(a)
        PROVE  \A r \in Requests : TrueNext(slot'[r].kind, r)
    <3>1. \A r \in Requests : slot'[r] = slot[r] \/ slot'[r] = Shut
      BY <2>2 DEF HearEnd, HangUp, CloseChannel, Release
    <3> QED
      BY <3>1, <1>r, <1>n, Messages DEF TruthInv
  <2>3. CASE slot' = slot
    BY <2>3, <1>r DEF TruthInv
  <2>4. slot' = slot \/ \E a \in Apps : Hear(a) \/ HearEnd(a) \/ HangUp(a) \/ CloseChannel(a)
    BY DEF Next, vars, processes, Drop, ContextDies, Working, Find, Await, Send,
       Sent, SendRaises, Return, Reply, Asking, Register, Emit, Take, GiveUp, Answer,
       Exit, Pump, Put, Finish
  <2> QED
    BY <2>1, <2>2, <2>3, <2>4
<1>4. \A a \in Apps : \A i \in 1 .. Len(down'[a]) :
         TrueNext(down'[a][i].kind, down'[a][i].id)
  <2>1. ASSUME NEW a \in Apps, Hear(a)
        PROVE  \A b \in Apps : \A i \in 1 .. Len(down'[b]) :
                  TrueNext(down'[b][i].kind, down'[b][i].id)
    <3>1. down[a] # <<>> /\ down' = [down EXCEPT ![a] = Tail(@)]
      BY <2>1 DEF Hear
    <3>2. \A c \in Apps : \A i \in 1 .. Len(down'[c]) :
             \/ c # a /\ i \in 1 .. Len(down[c]) /\ down'[c][i] = down[c][i]
             \/ c = a /\ i + 1 \in 1 .. Len(down[a]) /\ down'[c][i] = down[a][i + 1]
      BY <3>1, <1>t, TakenIs
    <3> QED
      BY <3>2, <1>r DEF TruthInv
  <2>2. ASSUME NEW q \in Requests, Send(q) \/ Reply(q), down' # down
        PROVE  \A b \in Apps : \A i \in 1 .. Len(down'[b]) :
                  TrueNext(down'[b][i].kind, down'[b][i].id)
    <3>1. PICK a \in Apps, m \in DownMessages :
             Truth(m.kind, m.id) /\ down' = [down EXCEPT ![a] = Append(@, m)]
      <4>1. CASE Send(q)
        <5>1. Target[q] \in Apps
          BY <4>1 DEF Send, TypeInv, KnownTarget
        <5> DEFINE m == Message("command", q)
        <5>2. m \in DownMessages /\ m.kind = "command"
          BY Messages
        <5>3. down' = [down EXCEPT ![Target[q]] = Append(@, m)]
          BY <4>1 DEF Send
        <5> HIDE DEF m
        <5> QED
          BY <5>1, <5>2, <5>3 DEF Truth
      <4>2. CASE Reply(q)
        <5> DEFINE m == Message(reply[q], q)
        <5>1. /\ Asker[q] \in Apps /\ m \in DownMessages
              /\ m.kind = reply[q] /\ m.id = q
          <6>1. reply[q] \in {"command"} \cup Replies
            BY <4>2 DEF Reply, TypeInv, ReplyReady
          <6> QED
            BY <6>1, Messages, RouteAssumption
        <5>2. down' = [down EXCEPT ![Asker[q]] = Append(@, m)]
          BY <2>2, <4>2 DEF Reply
        <5> HIDE DEF m
        <5> QED
          BY <5>1, <5>2 DEF TruthInv
      <4> QED
        BY <2>2, <4>1, <4>2
    <3>2. \A c \in Apps : \A i \in 1 .. Len(down'[c]) :
             \/ i \in 1 .. Len(down[c]) /\ down'[c][i] = down[c][i]
             \/ c = a /\ i = Len(down[a]) + 1 /\ down'[c][i] = m
      BY <3>1, <1>t, SentIs
    <3> QED
      BY <3>1, <3>2, <1>r DEF TruthInv
  <2>3. CASE down' = down
    BY <2>3, <1>r DEF TruthInv
  <2>4. \/ down' = down \/ \E a \in Apps : Hear(a)
        \/ \E q \in Requests : Send(q) \/ Reply(q)
    BY DEF Next, vars, channels, Drop, ContextDies, Working, Find, Await, Sent,
       SendRaises, Return, Asking, Register, Emit, Take, GiveUp, Answer, HearEnd,
       HangUp, CloseChannel, Exit, Pump, Put, Finish
  <2> QED
    BY <2>1, <2>2, <2>3, <2>4
<1> QED
  BY <1>1, <1>2, <1>3, <1>4 DEF TruthInv, Truth, TrueNext

(* Replies are true, whatever is dropped, dies or answers late meanwhile.  *)
THEOREM ToldTheTruth == Spec => []RepliesAreTrue
<1>1. TypeInv /\ TruthInv => RepliesAreTrue
  <2> SUFFICES ASSUME TruthInv, NEW r \in Requests
               PROVE  /\ "answer" \in {ask[r], reply[r]} => r \in served
                      /\ "not_held" \in {ask[r], reply[r]} => Target[r] \notin held
                      /\ "ended" \in {ask[r], reply[r]} => ~alive[Target[r]]
    BY DEF RepliesAreTrue
  <2> QED
    BY DEF TruthInv, Truth
<1> QED
  BY <1>1, TypeInit, TypeStep, RouteInit, RouteStep, CommandInit, CommandStep,
     TruthInit, TruthStep, PTL DEF Spec

-----------------------------------------------------------------------------
(* A reply that is on its way, has arrived or went past its request is the *)
(* one its worker has sent, and is in one place only.                      *)
OnceInv ==
    /\ \A a \in Apps : \A i \in 1 .. Len(down[a]) :
          down[a][i].kind \in Replies =>
             /\ a = Asker[down[a][i].id]
             /\ forward[down[a][i].id] = "done"
             /\ down[a][i].id \notin strays
             /\ slot[down[a][i].id].kind \notin Replies
             /\ \A j \in 1 .. Len(down[a]) :
                   down[a][j].kind \in Replies /\ down[a][j].id = down[a][i].id => j = i
    /\ \A r \in Requests : slot[r].kind \in Replies =>
          forward[r] = "done" /\ r \notin strays
    /\ \A r \in strays : forward[r] = "done"

(* No reply is anywhere at first. *)
LEMMA OnceInit == Init => OnceInv
<1>1. Len(<<>>) = 0
  OBVIOUS
<1> QED
  BY <1>1, Messages DEF Init, OnceInv, Replies

(* What an application hears is gone from its channel. *)
LEMMA HearKeepsOnce ==
    ASSUME TypeInv, OnceInv, NEW a \in Apps, Hear(a)
    PROVE  OnceInv'
<1> DEFINE m == Head(down[a])
<1>t. /\ down \in [Apps -> Seq(DownMessages)] /\ strays \subseteq Requests
      /\ slot \in [Requests -> DownMessages \cup {None, Shut}]
  BY DEF TypeInv, ChannelOK, ProcessOK
<1>i. \A b \in Apps : \A i \in 1 .. Len(down[b]) : down[b][i].id \in Requests
  <2>1. \A b \in Apps : \A i \in 1 .. Len(down[b]) : down[b][i] \in DownMessages
    BY <1>t
  <2> QED
    BY <2>1, Messages
<1>1. /\ down[a] # <<>> /\ down' = [down EXCEPT ![a] = Tail(@)]
      /\ forward' = forward
  BY DEF Hear, transports
<1>2. /\ 1 \in 1 .. Len(down[a]) /\ m = down[a][1] /\ m \in DownMessages
  BY <1>1, <1>t, TailSeq
<1>3. m.id \in Requests /\ m.kind \in {"command"} \cup Replies
  BY <1>2, Messages
<1>4. \/ /\ strays' = strays
         /\ slot' = slot \/ slot' = [slot EXCEPT ![m.id] = m]
      \/ /\ m.kind # "command" /\ slot' = slot
         /\ strays' = strays \cup {m.id}
  <2>1. [slot EXCEPT ![m.id] = slot[m.id]] = slot
    BY <1>3, <1>t
  <2> QED
    BY <2>1 DEF Hear
<1> HIDE DEF m
<1>5. \A c \in Apps : \A i \in 1 .. Len(down'[c]) :
         \/ c # a /\ i \in 1 .. Len(down[c]) /\ down'[c][i] = down[c][i]
         \/ c = a /\ i + 1 \in 1 .. Len(down[a]) /\ down'[c][i] = down[a][i + 1]
  BY <1>1, <1>t, TakenIs
<1>6. m.kind \in Replies =>
         a = Asker[m.id] /\ forward[m.id] = "done" /\ m.id \notin strays
  BY <1>2 DEF OnceInv
<1>7. \A r \in Requests :
         /\ r \in strays' => r \in strays \/ (r = m.id /\ m.kind \in Replies)
         /\ slot'[r].kind \in Replies =>
               slot[r].kind \in Replies \/ (r = m.id /\ m.kind \in Replies)
  BY <1>3, <1>4, <1>t
<1>8. ASSUME NEW c \in Apps, NEW i \in 1 .. Len(down'[c]), down'[c][i].kind \in Replies
      PROVE  /\ c = Asker[down'[c][i].id]
             /\ forward'[down'[c][i].id] = "done"
             /\ down'[c][i].id \notin strays'
             /\ slot'[down'[c][i].id].kind \notin Replies
             /\ \A j \in 1 .. Len(down'[c]) :
                   down'[c][j].kind \in Replies /\ down'[c][j].id = down'[c][i].id => j = i
  <2>1. CASE c # a
    <3>1. i \in 1 .. Len(down[c]) /\ down'[c] = down[c]
      BY <1>1, <1>5, <1>t, <2>1
    <3>2. m.kind \in Replies => down[c][i].id # m.id
      BY <1>6, <1>8, <2>1, <3>1 DEF OnceInv
    <3> DEFINE q == down[c][i].id
    <3>3. /\ q \in Requests /\ c = Asker[q] /\ forward[q] = "done"
          /\ q \notin strays /\ slot[q].kind \notin Replies /\ q = down'[c][i].id
      BY <1>8, <1>i, <3>1 DEF OnceInv
    <3>4. \A j \in 1 .. Len(down'[c]) :
             down'[c][j].kind \in Replies /\ down'[c][j].id = down'[c][i].id => j = i
      BY <1>8, <3>1 DEF OnceInv
    <3> HIDE DEF q
    <3>5. q \notin strays' /\ slot'[q].kind \notin Replies
      BY <1>7, <3>2, <3>3 DEF q
    <3> QED
      BY <1>1, <3>3, <3>4, <3>5
  <2>2. CASE c = a
    <3>1. i + 1 \in 1 .. Len(down[a]) /\ down'[c][i] = down[a][i + 1] /\ i + 1 # 1
      BY <1>5, <2>2
    <3>2. m.kind \in Replies => down[a][i + 1].id # m.id
      BY <1>2, <1>8, <3>1 DEF OnceInv
    <3>3. ASSUME NEW j \in 1 .. Len(down'[c]), down'[c][j].kind \in Replies,
                 down'[c][j].id = down'[c][i].id
          PROVE  j = i
      <4>1. j + 1 \in 1 .. Len(down[a]) /\ down'[c][j] = down[a][j + 1]
        BY <1>5, <2>2
      <4>2. j + 1 = i + 1
        BY <1>8, <3>1, <3>3, <4>1 DEF OnceInv
      <4> QED
        BY <4>2
    <3> DEFINE q == down[a][i + 1].id
    <3>4. /\ q \in Requests /\ c = Asker[q] /\ forward[q] = "done"
          /\ q \notin strays /\ slot[q].kind \notin Replies /\ q = down'[c][i].id
      BY <1>8, <1>i, <2>2, <3>1 DEF OnceInv
    <3> HIDE DEF q
    <3>5. q \notin strays' /\ slot'[q].kind \notin Replies
      BY <1>7, <3>2, <3>4 DEF q
    <3> QED
      BY <1>1, <3>3, <3>4, <3>5
  <2> QED
    BY <2>1, <2>2
<1>9. /\ \A r \in Requests : slot'[r].kind \in Replies =>
            forward'[r] = "done" /\ r \notin strays'
      /\ \A r \in strays' : forward'[r] = "done"
  <2>1. \A r \in strays' : r \in Requests
    BY <1>3, <1>4, <1>t
  <2>2. m.kind \in Replies => slot[m.id].kind \notin Replies
    BY <1>2 DEF OnceInv
  <2>3. ASSUME NEW r \in Requests, slot'[r].kind \in Replies, r \in strays'
        PROVE  FALSE
    <3>1. CASE strays' = strays
      BY <1>6, <1>7, <2>3, <3>1 DEF OnceInv
    <3>2. CASE slot' = slot /\ strays' = strays \cup {m.id} /\ m.kind # "command"
      BY <1>3, <2>2, <2>3, <3>2 DEF OnceInv
    <3> QED
      BY <1>4, <3>1, <3>2
  <2> QED
    BY <1>1, <1>6, <1>7, <2>1, <2>3 DEF OnceInv
<1> QED
  BY <1>8, <1>9 DEF OnceInv

(* A worker sends one reply. *)
LEMMA ReplyKeepsOnce ==
    ASSUME TypeInv, OnceInv, NEW r \in Requests, Reply(r)
    PROVE  OnceInv'
<1> DEFINE m == Message(reply[r], r)
           a == Asker[r]
<1>t. /\ down \in [Apps -> Seq(DownMessages)] /\ strays \subseteq Requests
      /\ forward \in [Requests -> Forwards]
  BY DEF TypeInv, ChannelOK, ProcessOK, TransportOK
<1>i. \A b \in Apps : \A i \in 1 .. Len(down[b]) : down[b][i].id \in Requests
  <2>1. \A b \in Apps : \A i \in 1 .. Len(down[b]) : down[b][i] \in DownMessages
    BY <1>t
  <2> QED
    BY <2>1, Messages
<1>1. /\ m \in DownMessages /\ m.id = r /\ a \in Apps /\ a = Asker[r]
  <2>1. reply[r] \in {"command"} \cup Replies
    BY DEF Reply, TypeInv, ReplyReady
  <2> QED
    BY <2>1, Messages, RouteAssumption
<1>2. /\ forward[r] = "reply" /\ forward' = [forward EXCEPT ![r] = "done"]
      /\ down' = down \/ down' = [down EXCEPT ![a] = Append(@, m)]
      /\ UNCHANGED <<slot, strays>>
  BY DEF Reply, processes
<1> HIDE DEF m, a
<1>3. /\ r \notin strays /\ slot[r].kind \notin Replies
      /\ \A b \in Apps : \A i \in 1 .. Len(down[b]) :
            down[b][i].kind \in Replies => down[b][i].id # r
  BY <1>2 DEF OnceInv
<1>4. forward'[r] = "done" /\ \A q \in Requests : q # r => forward'[q] = forward[q]
  BY <1>2, <1>t
<1>5. /\ \A q \in Requests : slot'[q].kind \in Replies =>
            forward'[q] = "done" /\ q \notin strays'
      /\ \A q \in strays' : forward'[q] = "done"
  BY <1>2, <1>3, <1>4, <1>t DEF OnceInv
<1>6. CASE down' = down
  BY <1>2, <1>3, <1>4, <1>5, <1>6, <1>i DEF OnceInv
<1>7. CASE down' = [down EXCEPT ![a] = Append(@, m)]
  <2>1. \A c \in Apps : \A i \in 1 .. Len(down'[c]) :
           \/ i \in 1 .. Len(down[c]) /\ down'[c][i] = down[c][i]
           \/ c = a /\ i = Len(down[a]) + 1 /\ down'[c][i] = m
    BY <1>1, <1>7, <1>t, SentIs
  <2>2. ASSUME NEW c \in Apps, NEW i \in 1 .. Len(down'[c]), down'[c][i].kind \in Replies
        PROVE  /\ c = Asker[down'[c][i].id]
               /\ forward'[down'[c][i].id] = "done"
               /\ down'[c][i].id \notin strays'
               /\ slot'[down'[c][i].id].kind \notin Replies
               /\ \A j \in 1 .. Len(down'[c]) :
                     down'[c][j].kind \in Replies /\ down'[c][j].id = down'[c][i].id => j = i
    <3>1. CASE i \in 1 .. Len(down[c]) /\ down'[c][i] = down[c][i]
      <4>1. down[c][i].id # r
        BY <1>3, <2>2, <3>1
      <4>2. \A j \in 1 .. Len(down'[c]) :
               down'[c][j].kind \in Replies /\ down'[c][j].id = down'[c][i].id => j = i
        BY <1>1, <2>1, <2>2, <3>1, <4>1 DEF OnceInv
      <4> QED
        BY <1>2, <1>4, <1>i, <2>2, <3>1, <4>1, <4>2 DEF OnceInv
    <3>2. CASE c = a /\ i = Len(down[a]) + 1 /\ down'[c][i] = m
      BY <1>1, <1>2, <1>3, <1>4, <2>1, <3>2
    <3> QED
      BY <2>1, <3>1, <3>2
  <2> QED
    BY <1>5, <2>2 DEF OnceInv
<1> QED
  BY <1>2, <1>6, <1>7

(* Every step leaves one reply in one place. *)
LEMMA OnceStep == TypeInv /\ RouteInv /\ OnceInv /\ [Next]_vars => OnceInv'
<1> SUFFICES ASSUME TypeInv, RouteInv, OnceInv, [Next]_vars PROVE OnceInv'
  OBVIOUS
<1>t. down \in [Apps -> Seq(DownMessages)] /\ strays \subseteq Requests
  BY DEF TypeInv, ChannelOK, ProcessOK
<1>i. \A b \in Apps : \A i \in 1 .. Len(down[b]) : down[b][i].id \in Requests
  <2>1. \A b \in Apps : \A i \in 1 .. Len(down[b]) : down[b][i] \in DownMessages
    BY <1>t
  <2> QED
    BY <2>1, Messages
<1>f. \A q \in Requests : forward[q] = "done" => forward'[q] = "done"
  BY ForwardStep DEF Onward
<1>1. CASE UNCHANGED <<down, slot, strays>>
  BY <1>1, <1>f, <1>i, <1>t DEF OnceInv
<1>2. ASSUME NEW a \in Apps, HearEnd(a) \/ HangUp(a) \/ CloseChannel(a) PROVE OnceInv'
  <2>1. UNCHANGED <<down, strays>>
        /\ \A r \in Requests : slot'[r] = slot[r] \/ slot'[r] = Shut
    BY <1>2 DEF HearEnd, HangUp, CloseChannel, Release, channels
  <2>2. \A r \in Requests : slot'[r].kind \in Replies => slot[r].kind \in Replies
    BY <2>1, Messages DEF Replies
  <2> QED
    BY <2>1, <2>2, <1>f, <1>i, <1>t DEF OnceInv
<1>3. ASSUME NEW r \in Requests, Send(r) PROVE OnceInv'
  <2> DEFINE m == Message("command", r)
             b == Target[r]
  <2>1. m \in DownMessages /\ m.kind \notin Replies /\ b \in Apps
    BY <1>3, Messages DEF Send, TypeInv, KnownTarget, Replies
  <2>2. down' = [down EXCEPT ![b] = Append(@, m)] /\ UNCHANGED <<slot, strays>>
    BY <1>3 DEF Send, processes
  <2> HIDE DEF m, b
  <2>3. \A c \in Apps : \A i \in 1 .. Len(down'[c]) :
           \/ i \in 1 .. Len(down[c]) /\ down'[c][i] = down[c][i]
           \/ c = b /\ i = Len(down[b]) + 1 /\ down'[c][i] = m
    BY <2>1, <2>2, <1>t, SentIs
  <2>4. \A c \in Apps : \A i \in 1 .. Len(down'[c]) :
           down'[c][i].kind \in Replies =>
              i \in 1 .. Len(down[c]) /\ down'[c][i] = down[c][i]
    BY <2>1, <2>3
  <2> QED
    BY <2>2, <2>4, <1>f, <1>i, <1>t DEF OnceInv
<1>4. \/ UNCHANGED <<down, slot, strays>>
      \/ \E a \in Apps : Hear(a) \/ HearEnd(a) \/ HangUp(a) \/ CloseChannel(a)
      \/ \E r \in Requests : Send(r) \/ Reply(r)
  BY DEF Next, vars, processes, channels, Drop, ContextDies, Working, Find, Await,
     Sent, SendRaises, Return, Asking, Register, Emit, Take, GiveUp, Answer, Exit,
     Pump, Put, Finish
<1> QED
  BY <1>1, <1>2, <1>3, <1>4, HearKeepsOnce, ReplyKeepsOnce

(* No request is replied to twice: what is on its way, what has arrived    *)
(* and what went past the request are one reply at most.                   *)
THEOREM RepliedOnce == Spec => []AnsweredOnce
<1>1. TypeInv /\ OnceInv => AnsweredOnce
  <2> SUFFICES ASSUME TypeInv, OnceInv, NEW r \in Requests
               PROVE  LET inbox == down[Asker[r]]
                          travelling == {i \in 1 .. Len(inbox) :
                                           inbox[i].id = r /\ inbox[i].kind \in Replies}
                          arrived == {k \in {"taken", "stray"} :
                                        IF k = "taken" THEN slot[r].kind \in Replies
                                                       ELSE r \in strays}
                      IN Cardinality(travelling) + Cardinality(arrived) <= 1
    BY DEF AnsweredOnce
  <2> DEFINE inbox == down[Asker[r]]
             travelling == {i \in 1 .. Len(inbox) :
                              inbox[i].id = r /\ inbox[i].kind \in Replies}
             arrived == {k \in {"taken", "stray"} :
                           IF k = "taken" THEN slot[r].kind \in Replies
                                          ELSE r \in strays}
  <2>0. Asker[r] \in Apps
    BY RouteAssumption
  <2>1. Cardinality({}) = 0 /\ \A x : Cardinality({x}) = 1
    BY FS_EmptySet, FS_Singleton
  <2>2. travelling = {} \/ \E i : travelling = {i}
    <3>1. \A i, j \in travelling : i = j
      BY <2>0 DEF OnceInv
    <3> HIDE DEF travelling
    <3>2. ASSUME NEW i \in travelling PROVE travelling = {i}
      BY <3>1
    <3> QED
      BY <3>2
  <2>3. arrived = {} \/ \E k : arrived = {k}
    <3>1. ~(slot[r].kind \in Replies /\ r \in strays)
      BY DEF OnceInv
    <3> QED
      BY <3>1
  <2>4. travelling = {} \/ arrived = {}
    BY <2>0 DEF OnceInv
  <2> HIDE DEF travelling, arrived
  <2>5. Cardinality(travelling) + Cardinality(arrived) <= 1
    <3>1. /\ Cardinality(travelling) = 0 \/ Cardinality(travelling) = 1
          /\ Cardinality(arrived) = 0 \/ Cardinality(arrived) = 1
      BY <2>1, <2>2, <2>3
    <3>2. Cardinality(travelling) = 0 \/ Cardinality(arrived) = 0
      BY <2>1, <2>4
    <3> QED
      BY <3>1, <3>2
  <2> QED
    BY <2>5 DEF travelling, arrived
<1> QED
  BY <1>1, TypeInit, TypeStep, RouteInit, RouteStep, OnceInit, OnceStep, PTL DEF Spec
=============================================================================
