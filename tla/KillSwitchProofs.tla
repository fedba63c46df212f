--------------------------- MODULE KillSwitchProofs ---------------------------
(***************************************************************************)
(* Proofs about KillSwitch.  What the device is told is decided by the     *)
(* order of the messages on their way to it: KInv says what that order is. *)
(***************************************************************************)
EXTENDS KillSwitch, TLAPS

Messages == Controls \union Commands

\* The message at i of queue q finds a device in safe mode, if it is s now.
HaltedAt(q, s, i) ==
  \/ \E j \in 1 .. i - 1 : q[j] = "halt" /\ \A k \in j + 1 .. i - 1 : q[k] \in Commands
  \/ s /\ \A k \in 1 .. i - 1 : q[k] \in Commands

\* So does every late command in q.
Ruled(q, s) == \A i \in 1 .. Len(q) : q[i] = "lateCommand" => HaltedAt(q, s, i)

\* Once q has been taken, a device that is s now agrees with r.
Agrees(q, s, r) ==
  \/ NoControl(q) /\ s = (r = "halt")
  \/ \E i \in DOMAIN q : q[i] = r /\ \A j \in DOMAIN q : j > i => q[j] \in Commands

\* safeMode_ after message m.
After(s, m) == IF m = "halt" THEN TRUE ELSE IF m = "resume" THEN FALSE ELSE s

\* Nothing is on its way before the subscription it comes by.
Routed ==
  /\ session \in {"none", "connected"} => inbox = <<>>
  /\ session # "none" => connected
  /\ session = "command" => \A i \in DOMAIN inbox : inbox[i] = "command"

\* What a device has heard stands, and what is on its way says the same.
Heard ==
  heard /\ retained = "halt" =>
    safe /\ \A i \in DOMAIN inbox : inbox[i] \in Commands \union {"halt"}

KInv == TypeOK /\ Routed /\ Agreement /\ Ruled(inbox, safe) /\ Heard

-------------------------------------------------------------------------------
(* Queues.                                                                  *)

LEMMA TailIs ==
  ASSUME NEW q \in Seq(Messages), q # <<>>
  PROVE  /\ Tail(q) \in Seq(Messages) /\ Len(q) \in Nat \ {0}
         /\ Len(Tail(q)) = Len(q) - 1 /\ DOMAIN Tail(q) = 1 .. Len(q) - 1 /\ DOMAIN q = 1 .. Len(q)
         /\ \A i \in 1 .. Len(q) - 1 : Tail(q)[i] = q[i + 1]
         /\ Head(q) = q[1] /\ q[1] \in Messages
OBVIOUS

LEMMA AppendIs ==
  ASSUME NEW q \in Seq(Messages), NEW m \in Messages
  PROVE  /\ Append(q, m) \in Seq(Messages) /\ Len(q) \in Nat
         /\ Len(Append(q, m)) = Len(q) + 1 /\ DOMAIN Append(q, m) = 1 .. Len(q) + 1
         /\ DOMAIN q = 1 .. Len(q)
         /\ \A i \in 1 .. Len(q) : Append(q, m)[i] = q[i]
         /\ Append(q, m)[Len(q) + 1] = m
OBVIOUS

\* Taking a message keeps late commands behind their halt.
LEMMA TailRuled ==
  ASSUME NEW q \in Seq(Messages), q # <<>>, NEW s \in BOOLEAN, Ruled(q, s)
  PROVE  Ruled(Tail(q), After(s, Head(q)))
<1> DEFINE t == Tail(q)
           u == After(s, Head(q))
<1>1. /\ Len(q) \in Nat \ {0} /\ Len(t) = Len(q) - 1
      /\ \A i \in 1 .. Len(q) - 1 : t[i] = q[i + 1]
      /\ Head(q) = q[1]
  BY TailIs
<1> SUFFICES ASSUME NEW i \in 1 .. Len(t), t[i] = "lateCommand" PROVE HaltedAt(t, u, i)
  BY DEF Ruled
<1> HIDE DEF t
<1>2. i \in Nat \ {0} /\ i + 1 \in 1 .. Len(q) /\ q[i + 1] = "lateCommand"
  BY <1>1
<1>3. HaltedAt(q, s, i + 1)
  BY <1>2 DEF Ruled
<1>4. \A k \in 1 .. i - 1 : t[k] = q[k + 1] /\ k + 1 \in 2 .. i
  BY <1>1, <1>2
<1>5. CASE s /\ \A k \in 1 .. i : q[k] \in Commands
  <2>1. u = s
    BY <1>1, <1>2, <1>5 DEF After, Commands
  <2>2. \A k \in 1 .. i - 1 : t[k] \in Commands
    BY <1>2, <1>4, <1>5
  <2> QED
    BY <1>5, <2>1, <2>2 DEF HaltedAt
<1>6. ASSUME NEW j \in 1 .. i, q[j] = "halt", \A k \in j + 1 .. i : q[k] \in Commands
      PROVE  HaltedAt(t, u, i)
  <2>1. CASE j = 1
    <3>1. u = TRUE
      BY <1>1, <1>6, <2>1 DEF After
    <3>2. \A k \in 1 .. i - 1 : t[k] \in Commands
      BY <1>2, <1>4, <1>6, <2>1
    <3> QED
      BY <3>1, <3>2 DEF HaltedAt
  <2>2. CASE j # 1
    <3>1. j - 1 \in 1 .. i - 1
      BY <1>2, <2>2
    <3>2. t[j - 1] = q[(j - 1) + 1] /\ (j - 1) + 1 = j
      BY <1>4, <3>1
    <3>3. \A k \in (j - 1) + 1 .. i - 1 : k \in 1 .. i - 1 /\ k + 1 \in j + 1 .. i
      BY <1>2, <3>1
    <3>4. \A k \in (j - 1) + 1 .. i - 1 : t[k] \in Commands
      BY <1>4, <1>6, <3>3
    <3> QED
      BY <1>6, <3>1, <3>2, <3>4 DEF HaltedAt
  <2> QED
    BY <2>1, <2>2
<1>7. (i + 1) - 1 = i
  BY <1>2
<1> QED
  BY <1>3, <1>5, <1>6, <1>7 DEF HaltedAt

\* A message added to the queue keeps them there, if it is not a late command
\* or the queue ends in a halt.
LEMMA AppendRuled ==
  ASSUME NEW q \in Seq(Messages), NEW m \in Messages, NEW s \in BOOLEAN, Ruled(q, s),
         m = "lateCommand" => Agrees(q, s, "halt")
  PROVE  Ruled(Append(q, m), s)
<1> DEFINE t == Append(q, m)
<1>1. Len(q) \in Nat /\ Len(t) = Len(q) + 1 /\ DOMAIN q = 1 .. Len(q)
      /\ (\A i \in 1 .. Len(q) : t[i] = q[i]) /\ t[Len(q) + 1] = m
  BY AppendIs
<1> SUFFICES ASSUME NEW i \in 1 .. Len(t), t[i] = "lateCommand" PROVE HaltedAt(t, s, i)
  BY DEF Ruled
<1> HIDE DEF t
<1>2. CASE i \in 1 .. Len(q)
  <2>1. HaltedAt(q, s, i)
    BY <1>1, <1>2 DEF Ruled
  <2>2. \A k \in 1 .. i - 1 : t[k] = q[k]
    BY <1>1, <1>2
  <2> QED
    BY <1>2, <2>1, <2>2 DEF HaltedAt
<1>3. CASE i = Len(q) + 1
  <2>1. Agrees(q, s, "halt") /\ i - 1 = Len(q)
    BY <1>1, <1>3
  <2>2. CASE NoControl(q) /\ s = TRUE
    BY <1>1, <2>1, <2>2 DEF HaltedAt, NoControl
  <2>3. ASSUME NEW j \in DOMAIN q, q[j] = "halt", \A k \in DOMAIN q : k > j => q[k] \in Commands
        PROVE  HaltedAt(t, s, i)
    <3>1. j \in 1 .. i - 1 /\ t[j] = "halt"
      BY <1>1, <2>1, <2>3
    <3>2. \A k \in j + 1 .. i - 1 : t[k] \in Commands
      BY <1>1, <2>1, <2>3
    <3> QED
      BY <3>1, <3>2 DEF HaltedAt
  <2> QED
    BY <2>1, <2>2, <2>3 DEF Agrees
<1> QED
  BY <1>1, <1>2, <1>3

\* Taking a message brings the device no further from what it will agree to.
LEMMA TailAgrees ==
  ASSUME NEW q \in Seq(Messages), q # <<>>, NEW s \in BOOLEAN,
         NEW r \in {"halt", "resume"}, Agrees(q, s, r)
  PROVE  Agrees(Tail(q), After(s, Head(q)), r)
<1> DEFINE t == Tail(q)
           u == After(s, Head(q))
<1>1. /\ Len(q) \in Nat \ {0} /\ DOMAIN t = 1 .. Len(q) - 1 /\ DOMAIN q = 1 .. Len(q)
      /\ \A i \in 1 .. Len(q) - 1 : t[i] = q[i + 1]
      /\ Head(q) = q[1]
  BY TailIs
<1> SUFFICES Agrees(t, u, r)
  OBVIOUS
<1> HIDE DEF t
<1>2. CASE NoControl(q) /\ s = (r = "halt")
  <2>1. q[1] \in Commands /\ \A i \in DOMAIN t : t[i] \in Commands
    BY <1>1, <1>2 DEF NoControl
  <2>2. u = s
    BY <1>1, <2>1 DEF After, Commands
  <2> QED
    BY <1>2, <2>1, <2>2 DEF Agrees, NoControl
<1>3. ASSUME NEW i \in DOMAIN q, q[i] = r, \A j \in DOMAIN q : j > i => q[j] \in Commands
      PROVE  Agrees(t, u, r)
  <2>1. CASE i = 1
    <3>1. u = (r = "halt")
      BY <1>1, <1>3, <2>1 DEF After
    <3>2. NoControl(t)
      BY <1>1, <1>3, <2>1 DEF NoControl
    <3> QED
      BY <3>1, <3>2 DEF Agrees
  <2>2. CASE i # 1
    <3>1. i - 1 \in DOMAIN t /\ t[i - 1] = q[i]
      BY <1>1, <2>2
    <3>2. ASSUME NEW j \in DOMAIN t, j > i - 1 PROVE t[j] \in Commands
      <4>1. j + 1 \in DOMAIN q /\ j + 1 > i /\ t[j] = q[j + 1]
        BY <1>1, <3>2
      <4> QED
        BY <1>3, <4>1
    <3> QED
      BY <1>3, <3>1, <3>2 DEF Agrees
  <2> QED
    BY <2>1, <2>2
<1> QED
  BY <1>2, <1>3 DEF Agrees

\* A command changes nothing about it ...
LEMMA CommandAgrees ==
  ASSUME NEW q \in Seq(Messages), NEW m \in Commands, NEW s \in BOOLEAN, NEW r, Agrees(q, s, r)
  PROVE  Agrees(Append(q, m), s, r)
<1> DEFINE t == Append(q, m)
<1>1. Len(q) \in Nat /\ DOMAIN t = 1 .. Len(q) + 1 /\ DOMAIN q = 1 .. Len(q)
      /\ (\A i \in 1 .. Len(q) : t[i] = q[i]) /\ t[Len(q) + 1] = m
  BY AppendIs DEF Messages
<1> HIDE DEF t
<1>2. \A i \in DOMAIN t : i \in DOMAIN q \/ t[i] \in Commands
  BY <1>1
<1>3. \A i \in DOMAIN q : i \in DOMAIN t /\ t[i] = q[i]
  BY <1>1
<1>4. CASE NoControl(q) /\ s = (r = "halt")
  BY <1>2, <1>3, <1>4 DEF Agrees, NoControl
<1>5. ASSUME NEW i \in DOMAIN q, q[i] = r, \A j \in DOMAIN q : j > i => q[j] \in Commands
      PROVE  Agrees(t, s, r)
  BY <1>2, <1>3, <1>5 DEF Agrees
<1> QED
  BY <1>4, <1>5 DEF Agrees

\* ... and a control message settles it.
LEMMA ControlAgrees ==
  ASSUME NEW q \in Seq(Messages), NEW r \in Controls, NEW s \in BOOLEAN
  PROVE  Agrees(Append(q, r), s, r)
<1>1. r \in Messages
  BY DEF Messages
<1>2. Len(q) \in Nat /\ DOMAIN Append(q, r) = 1 .. Len(q) + 1 /\ Append(q, r)[Len(q) + 1] = r
  BY <1>1, AppendIs
<1> QED
  BY <1>2 DEF Agrees

-------------------------------------------------------------------------------
(* Steps.                                                                   *)

LEMMA AgreementIs == Agreement <=> (session = "control" /\ retained # "clear" => Agrees(inbox, safe, retained))
BY DEF Agreement, Agrees

LEMMA InitInv == ASSUME Init PROVE KInv
<1>1. TypeOK
  <2>1. heard \in BOOLEAN /\ connected \in BOOLEAN /\ safe \in BOOLEAN
    BY DEF Init
  <2>2. inbox \in Seq(Controls \union Commands)
    BY DEF Init
  <2>3. controls \in 0 .. MaxControls /\ commands \in 0 .. MaxCommands /\ breaks \in 0 .. MaxBreaks
    BY KillSwitchAssumption DEF Init
  <2>4. acts \in Nat /\ retained \in Controls /\ pc \in {"pump", "tick"}
        /\ session \in {"none", "connected", "command", "control"}
    BY DEF Init
  <2> QED
    BY <2>1, <2>2, <2>3, <2>4 DEF TypeOK
<1>2. Routed /\ Agreement /\ Ruled(inbox, safe) /\ Heard
  BY DEF Init, Routed, Agreement, Ruled, Heard
<1> QED
  BY <1>1, <1>2 DEF KInv

\* Steps that touch neither queue, nor safe mode, nor the control topic.
LEMMA QuietStep ==
  ASSUME KInv, PumpNothing \/ TickFires \/ TickNothing \/ UNCHANGED vars
  PROVE  KInv'
<1> USE DEF vars, device, broker, history, bounds
<1>1. UNCHANGED <<connected, safe, retained, session, inbox, heard, controls, breaks>>
      /\ pc' \in {"pump", "tick"}
  BY DEF PumpNothing, TickFires, TickNothing, KInv, TypeOK
<1>2. acts' \in Nat /\ commands' \in 0 .. MaxCommands
  BY KillSwitchAssumption DEF PumpNothing, TickFires, TickNothing, KInv, TypeOK
<1> QED
  BY <1>1, <1>2 DEF KInv, TypeOK, Routed, Agreement, NoControl, Ruled, HaltedAt, Heard

\* A session begins or ends: nothing is on its way.
LEMMA SessionStep ==
  ASSUME KInv, ConnectOnce \/ SubscribeCommand \/ Break \/ Restart
  PROVE  KInv'
<1> USE DEF vars, device, broker, history, bounds
<1>1. inbox' = <<>> /\ session' \in {"none", "connected", "command"} /\ pc' \in {"pump", "tick"}
      /\ connected' \in BOOLEAN /\ safe' \in BOOLEAN
      /\ UNCHANGED <<retained, controls, commands>>
  BY DEF KInv, TypeOK, Routed, ConnectOnce, SubscribeCommand, Break, Restart
<1>2. breaks' \in 0 .. MaxBreaks
  BY KillSwitchAssumption DEF KInv, TypeOK, ConnectOnce, SubscribeCommand, Break, Restart
<1>3. acts' \in Nat /\ heard' \in BOOLEAN /\ (heard' => heard /\ safe' = safe)
  <2>1. acts \in Nat /\ heard \in BOOLEAN
    BY DEF KInv, TypeOK
  <2>2. CASE Restart
    <3>1. acts' = 0 /\ heard' = FALSE
      BY <2>2 DEF Restart
    <3> QED
      BY <3>1
  <2>3. CASE ConnectOnce \/ SubscribeCommand \/ Break
    BY <2>1, <2>3 DEF ConnectOnce, SubscribeCommand, Break
  <2> QED
    BY <2>2, <2>3
<1>4. TypeOK'
  <2>1. TypeOK /\ inbox' \in Seq(Controls \union Commands)
    BY <1>1 DEF KInv
  <2> QED
    BY <1>1, <1>2, <1>3, <2>1 DEF TypeOK
<1>5. connected' \/ session' = "none"
  BY DEF KInv, Routed, ConnectOnce, SubscribeCommand, Break, Restart
<1>6. Routed' /\ Agreement' /\ Ruled(inbox, safe)' /\ Heard'
  BY <1>1, <1>3, <1>5 DEF KInv, Routed, Agreement, Ruled, Heard
<1> QED
  BY <1>4, <1>6 DEF KInv

\* A message is added: a control of the kennel, or a command.
LEMMA AppendStep ==
  ASSUME KInv, NEW m \in Messages, inbox' = Append(inbox, m),
         UNCHANGED <<pc, connected, safe, breaks>>, session \in {"command", "control"},
         session' = session \/ (session' = "control" /\ m = retained),
         session' = "command" => m = "command",
         m = "lateCommand" => session = "control" /\ retained = "halt",
         retained' \in Controls, m \in Commands => retained' = retained, m \in Controls => retained' = m,
         heard' \in BOOLEAN, heard' => heard /\ retained' = retained,
         acts' = acts,
         controls' \in 0 .. MaxControls, commands' \in 0 .. MaxCommands
  PROVE  KInv'
<1>1. inbox \in Seq(Messages) /\ safe \in BOOLEAN /\ Ruled(inbox, safe) /\ TypeOK
  BY DEF KInv, TypeOK, Messages
<1>2. inbox' \in Seq(Messages) /\ Len(inbox) \in Nat
      /\ DOMAIN inbox' = 1 .. Len(inbox) + 1 /\ DOMAIN inbox = 1 .. Len(inbox)
      /\ (\A i \in 1 .. Len(inbox) : inbox'[i] = inbox[i]) /\ inbox'[Len(inbox) + 1] = m
  BY <1>1, AppendIs
<1>3. TypeOK'
  BY <1>1, <1>2 DEF TypeOK, Messages
<1>4. Routed'
  BY <1>1, <1>2 DEF KInv, Routed
<1>5. Ruled(inbox, safe)'
  <2>1. m = "lateCommand" => Agrees(inbox, safe, "halt")
    BY AgreementIs DEF KInv
  <2>2. Ruled(inbox', safe)
    BY <1>1, <2>1, AppendRuled
  <2> QED
    BY <2>2 DEF Ruled, HaltedAt
<1>6. Agreement'
  <2> SUFFICES ASSUME session' = "control", retained' # "clear" PROVE Agrees(inbox', safe', retained')
    BY DEF Agreement, Agrees
  <2>1. CASE m \in Controls
    <3>1. Agrees(inbox', safe, m)
      BY <1>1, <2>1, ControlAgrees
    <3> QED
      BY <2>1, <3>1
  <2>2. CASE m \in Commands /\ (session = "control" => Agrees(inbox, safe, retained))
    <3>1. Agrees(inbox', safe, retained)
      <4>1. m \notin Controls /\ session = "control"
        BY <1>1, <2>2 DEF Commands, Controls, TypeOK
      <4> QED
        BY <1>1, <2>2, <4>1, CommandAgrees
    <3>2. safe' = safe /\ retained' = retained
      BY <2>2
    <3> QED
      BY <3>1, <3>2
  <2> QED
    BY <2>1, <2>2, AgreementIs DEF KInv, Messages
<1>7. Heard'
  <2> SUFFICES ASSUME heard', retained' = "halt"
               PROVE  safe' /\ \A i \in DOMAIN inbox' : inbox'[i] \in Commands \union {"halt"}
    BY DEF Heard
  <2>1. safe /\ \A i \in DOMAIN inbox : inbox[i] \in Commands \union {"halt"}
    BY DEF KInv, Heard
  <2>2. m \in Commands \union {"halt"}
    BY DEF Messages
  <2> QED
    BY <1>2, <2>1, <2>2
<1> QED
  BY <1>3, <1>4, <1>5, <1>6, <1>7 DEF KInv

\* The broker routes a message, or loses it for want of a subscription.
LEMMA RouteStep ==
  ASSUME KInv, SubscribeControl \/ SendCommand \/ \E c \in Controls : Publish(c)
  PROVE  KInv'
<1> USE DEF device, broker, history, bounds
<1>1. TypeOK /\ controls \in 0 .. MaxControls /\ commands \in 0 .. MaxCommands
  BY DEF KInv, TypeOK
<1>2. CASE SubscribeControl
  <2>1. session = "command" /\ session' = "control" /\ UNCHANGED <<device, retained, history, bounds>>
        /\ inbox' = IF retained = "clear" THEN inbox ELSE Append(inbox, retained)
    BY <1>2 DEF SubscribeControl
  <2>2. CASE retained = "clear"
    BY <1>1, <2>1, <2>2 DEF KInv, TypeOK, Routed, Agreement, Ruled, HaltedAt, Heard
  <2>3. CASE retained # "clear"
    <3>1. retained \in Messages /\ retained \in Controls /\ retained \notin Commands /\ retained # "lateCommand"
      BY <1>1 DEF TypeOK, Messages, Controls, Commands
    <3>2. UNCHANGED <<pc, connected, safe, retained, heard, acts, controls, commands, breaks>>
      BY <2>1
    <3>3. heard \in BOOLEAN
      BY <1>1 DEF TypeOK
    <3>4. inbox' = Append(inbox, retained)
      BY <2>1, <2>3
    <3> QED
      BY <1>1, <2>1, <3>1, <3>2, <3>3, <3>4, AppendStep
  <2> QED
    BY <2>2, <2>3
<1>3. CASE SendCommand
  <2>1. CASE session \in {"command", "control"}
    <3>1. Sent \in Messages /\ Sent \in Commands /\ Sent \notin Controls
          /\ (session = "command" => Sent = "command")
          /\ (Sent = "lateCommand" => session = "control" /\ retained = "halt")
      BY <2>1 DEF Sent, Messages, Commands, Controls
    <3>2. inbox' = Append(inbox, Sent) /\ commands' \in 0 .. MaxCommands
          /\ UNCHANGED <<device, retained, session, history, controls, breaks>>
      BY <1>1, <1>3, <2>1, KillSwitchAssumption DEF SendCommand
    <3> QED
      BY <1>1, <2>1, <3>1, <3>2, AppendStep DEF TypeOK
  <2>2. CASE session \notin {"command", "control"}
    <3>1. commands' \in 0 .. MaxCommands /\ UNCHANGED <<device, broker, history, controls, breaks>>
      BY <1>1, <1>3, <2>2, KillSwitchAssumption DEF SendCommand
    <3> QED
      BY <3>1 DEF KInv, TypeOK, Routed, Agreement, NoControl, Ruled, HaltedAt, Heard
  <2> QED
    BY <2>1, <2>2
<1>4. ASSUME NEW c \in Controls, Publish(c) PROVE KInv'
  <2>1. controls' \in 0 .. MaxControls /\ heard' = FALSE /\ retained' = c
        /\ UNCHANGED <<device, session, acts, commands, breaks>>
    BY <1>1, <1>4, KillSwitchAssumption DEF Publish
  <2>2. CASE session = "control"
    <3>1. inbox' = Append(inbox, c) /\ c \in Messages /\ c \notin Commands /\ c # "lateCommand"
      BY <1>4, <2>2 DEF Publish, Messages, Controls, Commands
    <3>2. heard' \in BOOLEAN /\ ~heard' /\ retained' \in Controls
      BY <1>4, <2>1
    <3> QED
      BY <1>1, <2>1, <2>2, <3>1, <3>2, AppendStep DEF TypeOK
  <2>3. CASE session # "control"
    <3>1. UNCHANGED inbox
      BY <1>4, <2>3 DEF Publish
    <3> QED
      BY <2>1, <2>3, <3>1 DEF KInv, TypeOK, Routed, Agreement, NoControl, Ruled, HaltedAt, Heard
  <2> QED
    BY <2>2, <2>3
<1> QED
  BY <1>2, <1>3, <1>4

\* The device takes a message.
LEMMA TakeStep ==
  ASSUME KInv, OnControl \/ OnEmpty \/ OnCommand
  PROVE  KInv'
<1> USE DEF device, broker, history, bounds
<1>1. TypeOK /\ connected /\ inbox \in Seq(Messages) /\ inbox # <<>> /\ inbox' = Tail(inbox)
      /\ safe \in BOOLEAN /\ pc' = "tick" /\ UNCHANGED <<connected, retained, session, bounds>>
  BY DEF KInv, TypeOK, Messages, OnControl, OnEmpty, OnCommand
<1>2. /\ inbox' \in Seq(Messages) /\ Len(inbox) \in Nat \ {0}
      /\ DOMAIN inbox' = 1 .. Len(inbox) - 1 /\ DOMAIN inbox = 1 .. Len(inbox)
      /\ \A i \in 1 .. Len(inbox) - 1 : inbox'[i] = inbox[i + 1]
      /\ Head(inbox) = inbox[1] /\ inbox[1] \in Messages
  BY <1>1, TailIs
<1>3. safe' = After(safe, Head(inbox)) /\ safe' \in BOOLEAN
  <2>1. CASE OnControl
    BY <1>1, <2>1 DEF OnControl, After
  <2>2. CASE OnEmpty \/ OnCommand
    BY <1>1, <2>2 DEF OnEmpty, OnCommand, After, Commands
  <2> QED
    BY <2>1, <2>2
<1>4. acts' \in Nat /\ heard' \in BOOLEAN
  <2>1. CASE OnControl
    BY <1>1, <2>1 DEF OnControl, TypeOK
  <2>2. CASE OnEmpty \/ OnCommand
    BY <1>1, <2>2 DEF OnEmpty, OnCommand, TypeOK
  <2> QED
    BY <2>1, <2>2
<1>5. TypeOK'
  BY <1>1, <1>2, <1>3, <1>4 DEF TypeOK, Messages
<1>6. Routed'
  <2>1. inbox # <<>> /\ session \notin {"none", "connected"}
    BY <1>1 DEF KInv, Routed
  <2>2. \A i \in DOMAIN inbox' : i + 1 \in DOMAIN inbox /\ inbox'[i] = inbox[i + 1]
    BY <1>2
  <2> QED
    BY <1>1, <2>1, <2>2 DEF KInv, Routed
<1>7. Ruled(inbox, safe)'
  <2>1. Ruled(inbox', safe')
    BY <1>1, <1>3, TailRuled DEF KInv
  <2> QED
    BY <2>1 DEF Ruled, HaltedAt
<1>8. Agreement'
  <2> SUFFICES ASSUME session = "control", retained # "clear" PROVE Agrees(inbox', safe', retained)
    BY <1>1 DEF Agreement, Agrees
  <2>1. Agrees(inbox, safe, retained) /\ retained \in {"halt", "resume"}
    BY <1>1, AgreementIs DEF KInv, TypeOK, Controls
  <2> QED
    BY <1>1, <1>3, <2>1, TailAgrees
<1>9. Heard'
  <2> SUFFICES ASSUME heard', retained = "halt"
               PROVE  safe' /\ \A i \in DOMAIN inbox' : inbox'[i] \in Commands \union {"halt"}
    BY <1>1 DEF Heard
  <2>1. CASE OnControl
    <3>1. Head(inbox) = "halt" /\ NoControl(inbox') /\ safe'
      BY <1>1, <2>1 DEF OnControl
    <3> QED
      BY <3>1 DEF NoControl
  <2>2. CASE OnEmpty \/ OnCommand
    <3>1. heard /\ safe' = safe
      BY <2>2 DEF OnEmpty, OnCommand
    <3>2. safe /\ \A i \in DOMAIN inbox : inbox[i] \in Commands \union {"halt"}
      BY <3>1 DEF KInv, Heard
    <3>3. \A i \in DOMAIN inbox' : i + 1 \in DOMAIN inbox /\ inbox'[i] = inbox[i + 1]
      BY <1>2
    <3> QED
      BY <3>1, <3>2, <3>3
  <2> QED
    BY <2>1, <2>2
<1> QED
  BY <1>5, <1>6, <1>7, <1>8, <1>9 DEF KInv

-------------------------------------------------------------------------------
(* The theorems.                                                            *)

\* KInv is an invariant.
THEOREM KillSwitchInvariance == Spec => []KInv
<1>1. Init => KInv
  BY InitInv
<1>2. KInv /\ [Next]_vars => KInv'
  BY QuietStep, SessionStep, RouteStep, TakeStep DEF Next, Loop, Subscribe
<1> QED
  BY <1>1, <1>2, PTL DEF Spec

\* Every variable keeps its type.
THEOREM KillSwitchTypes == Spec => []TypeOK
<1>1. KInv => TypeOK
  BY DEF KInv
<1> QED
  BY <1>1, KillSwitchInvariance, PTL

\* A subscribed device agrees with the control topic, or is about to.
THEOREM FleetAgreement == Spec => []Agreement
<1>1. KInv => Agreement
  BY DEF KInv
<1> QED
  BY <1>1, KillSwitchInvariance, PTL

\* Commands routed after a halt are rejected.
THEOREM LateCommands == Spec => []LateCommandRejected
<1>1. KInv => LateCommandRejected
  <2> SUFFICES ASSUME KInv, inbox # <<>>, Head(inbox) = "lateCommand" PROVE safe
    BY DEF LateCommandRejected
  <2>1. inbox \in Seq(Messages) /\ Ruled(inbox, safe)
    BY DEF KInv, TypeOK, Messages
  <2>2. Len(inbox) \in Nat \ {0} /\ inbox[1] = "lateCommand"
    BY <2>1, TailIs
  <2> QED
    BY <2>1, <2>2 DEF Ruled, HaltedAt
<1> QED
  BY <1>1, KillSwitchInvariance, PTL

\* A device that has heard of the present halt in this boot does not act.
THEOREM HeardHalt == Spec => HeardHaltStopsActs
<1> USE DEF device, broker, history, bounds
<1>1. KInv /\ [Next]_vars => [heard /\ retained = "halt" => acts' <= acts]_vars
  <2> SUFFICES ASSUME KInv, Next, heard, retained = "halt" PROVE acts' <= acts
    OBVIOUS
  <2>1. safe /\ acts \in Nat
    BY DEF KInv, Heard, TypeOK
  <2>2. CASE OnCommand \/ TickFires \/ Restart
    <3>1. ~TickFires
      BY <2>1 DEF TickFires
    <3>2. OnCommand => acts' = acts
      BY <2>1 DEF OnCommand
    <3>3. Restart => acts' = 0
      BY DEF Restart
    <3> QED
      BY <2>1, <2>2, <3>1, <3>2, <3>3
  <2>3. CASE ConnectOnce \/ PumpNothing \/ OnControl \/ OnEmpty \/ TickNothing
    <3>1. acts' = acts
      BY <2>3 DEF ConnectOnce, PumpNothing, OnControl, OnEmpty, TickNothing
    <3> QED
      BY <2>1, <3>1
  <2>4. CASE Subscribe \/ SendCommand \/ Break \/ \E c \in Controls : Publish(c)
    <3>1. acts' = acts
      BY <2>4 DEF Subscribe, SubscribeCommand, SubscribeControl, SendCommand, Break, Publish
    <3> QED
      BY <2>1, <3>1
  <2> QED
    BY <2>2, <2>3, <2>4 DEF Next, Loop
<1> QED
  BY <1>1, KillSwitchInvariance, PTL DEF Spec, HeardHaltStopsActs
===============================================================================
