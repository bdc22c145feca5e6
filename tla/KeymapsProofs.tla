---------------------------- MODULE KeymapsProofs ----------------------------
(* Proofs about Keymaps.tla for every set of keys, every set of scripts and   *)
(* any bounds.                                                                *)
EXTENDS Keymaps, TLAPS

-----------------------------------------------------------------------------
(* Sequences *)

LEMMA TailFacts ==
  ASSUME NEW M, NEW s \in Seq(M), s # <<>>
  PROVE  /\ Len(s) >= 1
         /\ Head(s) = s[1] /\ Head(s) \in M
         /\ Tail(s) \in Seq(M)
         /\ Len(Tail(s)) = Len(s) - 1
         /\ \A i \in 1 .. Len(Tail(s)) : Tail(s)[i] = s[i + 1]
OBVIOUS

LEMMA AppendFacts ==
  ASSUME NEW M, NEW s \in Seq(M), NEW m \in M
  PROVE  /\ Append(s, m) \in Seq(M)
         /\ Len(Append(s, m)) = Len(s) + 1
         /\ \A i \in 1 .. Len(s) : Append(s, m)[i] = s[i]
         /\ Append(s, m)[Len(s) + 1] = m
OBVIOUS

LEMMA SeqFacts ==
  ASSUME NEW M, NEW s \in Seq(M)
  PROVE  Len(s) \in Nat /\ DOMAIN s = 1 .. Len(s) /\ \A i \in 1 .. Len(s) : s[i] \in M
OBVIOUS

-----------------------------------------------------------------------------
(* The type invariant *)

LEMMA InitTypeOK == Init => TypeOK
<1> SUFFICES ASSUME Init PROVE TypeOK
  OBVIOUS
<1> USE KeymapsAssumption
<1>1. /\ Len(DefaultSlots) \in Nat /\ DOMAIN DefaultSlots = 1 .. Len(DefaultSlots)
      /\ \A i \in DOMAIN DefaultSlots : DefaultSlots[i] \in Slot
  BY SeqFacts
<1>2. to_input \in Seq(InputMessage)
  BY <1>1 DEF Init, InputMessage
<1>3. idles \in Seq(Purpose)
  BY DEF Init
<1>4. callbacks \subseteq Nat \X Purpose
  BY <1>1 DEF Init, Purpose
<1>5. keymaps \in [Slot -> Nat] /\ to_config \in Seq(ConfigMessage)
  BY DEF Init
<1>6. callback_counter \in Nat \ {0} /\ on_startup \in Nat /\ on_connector_change \in Nat
  BY <1>1 DEF Init
<1> QED
  BY <1>2, <1>3, <1>4, <1>5, <1>6 DEF Init, TypeOK

\* The messages of the two channels.
LEMMA Messages ==
  /\ \A ref \in Nat : Forget(ref) \in ConfigMessage
  /\ \A ref \in Nat : [kind |-> "RunCallback", callback |-> ref] \in ConfigMessage
  /\ [kind |-> "Startup", callback |-> 0] \in ConfigMessage
  /\ [kind |-> "ConnectorChange", callback |-> 0] \in ConfigMessage
  /\ \A p \in Slot \cup {NoSlot}, ref \in Nat : [key |-> p, callback |-> ref] \in InputMessage
BY DEF Forget, ConfigMessage, InputMessage

LEMMA ExecuteType ==
  ASSUME TypeOK, \E script \in Scripts : Execute(script)
  PROVE  idles' \in Seq(Purpose)
BY KeymapsAssumption DEF Execute, TypeOK

LEMMA ReceiveType ==
  ASSUME TypeOK, NEW kind, Receive(kind)
  PROVE  /\ to_config' \in Seq(ConfigMessage) /\ loop' = "events"
         /\ UNCHANGED <<callback_counter, on_startup, on_connector_change, to_input,
                        keymaps, started>>
BY TailFacts DEF Receive, TypeOK

LEMMA RegisterType ==
  ASSUME TypeOK, NEW p, Register(p)
  PROVE  /\ idles' \in Seq(Purpose) /\ loop' = "idles" /\ p \in Purpose
         /\ callback_counter' = callback_counter + 1
         /\ UNCHANGED <<to_config, keymaps, started>>
BY TailFacts DEF Register, TypeOK

LEMMA NextTypeOK == TypeOK /\ [Next]_vars => TypeOK'
<1> SUFFICES ASSUME TypeOK, [Next]_vars PROVE TypeOK'
  OBVIOUS
<1>1. CASE HandleMessage
  <2>1. \A ref : Run(ref) => idles' \in Seq(Purpose)
    BY ExecuteType DEF Run, TypeOK
  <2>2. callbacks' \subseteq Nat \X Purpose /\ idles' \in Seq(Purpose)
    BY <1>1, <2>1 DEF HandleMessage, HandleRunCallback, HandleForgetCallback,
                      HandleStartup, HandleConnectorChange, TypeOK
  <2> QED
    BY <1>1, <2>2, ReceiveType DEF HandleMessage, HandleRunCallback, HandleForgetCallback,
                      HandleStartup, HandleConnectorChange, TypeOK
<1>2. CASE ReloadConfig
  BY <1>2, ExecuteType DEF ReloadConfig, TypeOK
<1>3. CASE MapKey
  <2>1. PICK p \in Slot \cup {NoSlot} :
          /\ Register(p)
          /\ callbacks' = callbacks \cup {<<callback_counter, p>>}
          /\ to_input' = Append(to_input, [key |-> p, callback |-> callback_counter])
          /\ UNCHANGED <<on_startup, on_connector_change>>
    BY <1>3 DEF MapKey
  <2>2. to_input' \in Seq(InputMessage)
    BY <2>1, Messages, AppendFacts DEF TypeOK
  <2>3. callbacks' \subseteq Nat \X Purpose
    BY <2>1, RegisterType DEF TypeOK
  <2> QED
    BY <2>1, <2>2, <2>3, RegisterType DEF TypeOK
<1>4. CASE OnStartup \/ OnConnectorChange
  <2>1. callbacks' \subseteq Nat \X Purpose
    BY <1>4, RegisterType DEF OnStartup, OnConnectorChange, TypeOK
  <2> QED
    BY <1>4, <2>1, RegisterType DEF OnStartup, OnConnectorChange, TypeOK
<1>5. CASE EndDispatch
  BY <1>5 DEF EndDispatch, TypeOK
<1>6. CASE Keymap
  <2>1. /\ Head(to_input) \in InputMessage
        /\ to_input' \in Seq(InputMessage)
        /\ UNCHANGED <<configVars, started>>
    BY <1>6, TailFacts DEF Keymap, TypeOK
  <2>2. keymaps' \in [Slot -> Nat]
    BY <1>6, <2>1 DEF Keymap, TypeOK, InputMessage
  <2>3. to_config' \in Seq(ConfigMessage)
    <3>1. \A m \in ConfigMessage : Append(to_config, m) \in Seq(ConfigMessage)
      BY AppendFacts DEF TypeOK
    <3>2. \A s \in Slot : Forget(keymaps[s]) \in ConfigMessage
      BY Messages DEF TypeOK
    <3> QED
      BY <1>6, <2>1, <3>1, <3>2 DEF Keymap, TypeOK, InputMessage
  <2> QED
    BY <2>1, <2>2, <2>3 DEF TypeOK, configVars
<1>7. ASSUME NEW s \in Slot, Shortcut(s) PROVE TypeOK'
  BY <1>7, Messages, AppendFacts DEF Shortcut, TypeOK, configVars
<1>8. CASE SendStartup \/ SendConnectorChange
  <2>1. \A m \in ConfigMessage : Append(to_config, m) \in Seq(ConfigMessage)
    BY AppendFacts DEF TypeOK
  <2>2. to_config' \in Seq(ConfigMessage)
    BY <1>8, <2>1, Messages DEF SendStartup, SendConnectorChange
  <2>3. started' \in BOOLEAN
    BY <1>8 DEF SendStartup, SendConnectorChange, TypeOK
  <2> QED
    BY <1>8, <2>2, <2>3 DEF SendStartup, SendConnectorChange, TypeOK, configVars
<1>9. CASE UNCHANGED vars
  BY <1>9 DEF vars, configVars, TypeOK
<1> QED
  BY <1>1, <1>2, <1>3, <1>4, <1>5, <1>6, <1>7, <1>8, <1>9 DEF Next, RunIdles

\* Every variable keeps its type.
THEOREM TypeCorrect == Spec => []TypeOK
BY InitTypeOK, NextTypeOK, PTL DEF Spec

-----------------------------------------------------------------------------
(* The inductive invariant: how the two channels keep table and registry in  *)
(* step.                                                                      *)

\* References are handed out once, in order.
RefsAreUnique ==
  /\ \A c \in callbacks : 0 < c[1] /\ c[1] < callback_counter
  /\ \A c, d \in callbacks : c[1] = d[1] => c = d
  /\ on_startup < callback_counter

\* What is on its way to the input thread is registered, not forgotten, younger
\* than what the table holds, and in the order of its registration.
InputIsFresh ==
  \A i \in 1 .. Len(to_input) :
    /\ <<to_input[i].callback, to_input[i].key>> \in callbacks
    /\ ~Forgotten(to_input[i].callback, Len(to_config))
    /\ \A s \in Slot : keymaps[s] < to_input[i].callback
    /\ \A j \in 1 .. Len(to_input) : i < j => to_input[i].callback < to_input[j].callback

\* A callback that is to be run is registered for a key, and still will be.
RunsAreBound ==
  \A i \in 1 .. Len(to_config) : to_config[i].kind = "RunCallback" =>
    /\ \E s \in Slot : <<to_config[i].callback, s>> \in callbacks
    /\ ~Forgotten(to_config[i].callback, i - 1)

\* Only callbacks of keys are forgotten through the channel.
StartupIsKept ==
  \A i \in 1 .. Len(to_config) : to_config[i].kind = "ForgetCallback" =>
    to_config[i].callback # on_startup /\ to_config[i].callback < callback_counter

IInv ==
  /\ TypeOK
  /\ RefsAreUnique
  /\ InputIsFresh
  /\ BindingsAreLive
  /\ RunsAreBound
  /\ StartupIsKept
  /\ OneStartupCallback
  /\ NoKeymapLeak
  /\ LastMapKeyWins

LEMMA InitIInv == Init => IInv
<1> SUFFICES ASSUME Init PROVE IInv
  OBVIOUS
<1>1. TypeOK
  BY InitTypeOK
<1>2. /\ Len(DefaultSlots) \in Nat /\ DOMAIN DefaultSlots = 1 .. Len(DefaultSlots)
      /\ \A i \in DOMAIN DefaultSlots : DefaultSlots[i] \in Slot
  BY SeqFacts, KeymapsAssumption
<1>3. /\ DOMAIN to_input = 1 .. Len(DefaultSlots) /\ Len(to_input) = Len(DefaultSlots)
      /\ \A i \in 1 .. Len(DefaultSlots) :
           to_input[i].key = DefaultSlots[i] /\ to_input[i].callback = i
      /\ \A i \in 1 .. Len(DefaultSlots) :
           to_input[i] = [key |-> DefaultSlots[i], callback |-> i]
  BY <1>2 DEF Init
<1>4. Len(to_config) = 0 /\ to_config = <<>>
  BY DEF Init
<1>5. \A c : c \in callbacks <=> \E i \in 1 .. Len(DefaultSlots) : c = <<i, DefaultSlots[i]>>
  BY <1>2 DEF Init
<1>6. RefsAreUnique
  BY <1>2, <1>5 DEF Init, RefsAreUnique
<1>7. InputIsFresh
  BY <1>2, <1>3, <1>4, <1>5 DEF Init, InputIsFresh, Forgotten
<1>8. BindingsAreLive /\ RunsAreBound /\ StartupIsKept
  BY <1>4 DEF Init, BindingsAreLive, RunsAreBound, StartupIsKept
<1>9. OneStartupCallback
  BY <1>2, <1>5, KeymapsAssumption DEF Init, OneStartupCallback
<1>10. NoKeymapLeak /\ LastMapKeyWins
  BY <1>2, <1>3, <1>5 DEF NoKeymapLeak, LastMapKeyWins, InFlight
<1> QED
  BY <1>1, <1>6, <1>7, <1>8, <1>9, <1>10 DEF IInv

-----------------------------------------------------------------------------
(* Taking from and sending to the channel of the config thread *)

LEMMA TakeConfig ==
  ASSUME TypeOK, to_config # <<>>, to_config' = Tail(to_config)
  PROVE  /\ Len(to_config) \in Nat /\ Len(to_config) >= 1
         /\ Len(to_config') = Len(to_config) - 1
         /\ Head(to_config) = to_config[1] /\ Head(to_config) \in ConfigMessage
         /\ \A i \in 1 .. Len(to_config') : to_config'[i] = to_config[i + 1]
         /\ \A ref : \A n \in 0 .. Len(to_config') : Forgotten(ref, n)' => Forgotten(ref, n + 1)
         /\ \A ref : Forgotten(ref, Len(to_config)) =>
               Forgotten(ref, Len(to_config))' \/ Head(to_config) = Forget(ref)
<1>1. /\ Len(to_config) \in Nat /\ Len(to_config) >= 1
      /\ Len(to_config') = Len(to_config) - 1
      /\ Head(to_config) = to_config[1] /\ Head(to_config) \in ConfigMessage
      /\ \A i \in 1 .. Len(to_config') : to_config'[i] = to_config[i + 1]
  BY TailFacts DEF TypeOK
<1>2. ASSUME NEW ref, NEW n \in 0 .. Len(to_config'), Forgotten(ref, n)'
      PROVE  Forgotten(ref, n + 1)
  <2>1. PICK i \in 1 .. n : to_config'[i] = Forget(ref)
    BY <1>2 DEF Forgotten, Forget
  <2>2. i + 1 \in 1 .. n + 1 /\ to_config[i + 1] = Forget(ref)
    BY <1>1, <2>1
  <2> QED
    BY <2>2 DEF Forgotten
<1>3. ASSUME NEW ref, Forgotten(ref, Len(to_config)), Head(to_config) # Forget(ref)
      PROVE  Forgotten(ref, Len(to_config))'
  <2>1. PICK i \in 1 .. Len(to_config) : to_config[i] = Forget(ref)
    BY <1>3 DEF Forgotten
  <2>2. i # 1
    BY <1>1, <1>3, <2>1
  <2>3. i - 1 \in 1 .. Len(to_config') /\ to_config'[i - 1] = Forget(ref)
    BY <1>1, <2>1, <2>2
  <2> QED
    BY <2>3 DEF Forgotten, Forget
<1> QED
  BY <1>1, <1>2, <1>3

LEMMA SendConfig ==
  ASSUME TypeOK, NEW m \in ConfigMessage, to_config' = Append(to_config, m)
  PROVE  /\ Len(to_config) \in Nat /\ Len(to_config') = Len(to_config) + 1
         /\ \A i \in 1 .. Len(to_config) : to_config'[i] = to_config[i]
         /\ to_config'[Len(to_config')] = m
         /\ \A ref : \A n \in 0 .. Len(to_config) : Forgotten(ref, n)' <=> Forgotten(ref, n)
         /\ \A ref : Forgotten(ref, Len(to_config))' <=>
                       Forgotten(ref, Len(to_config)) \/ m = Forget(ref)
<1>1. /\ Len(to_config) \in Nat /\ Len(to_config') = Len(to_config) + 1
      /\ \A i \in 1 .. Len(to_config) : to_config'[i] = to_config[i]
      /\ to_config'[Len(to_config')] = m
  BY AppendFacts, SeqFacts DEF TypeOK
<1>2. ASSUME NEW ref, NEW n \in 0 .. Len(to_config)
      PROVE  Forgotten(ref, n)' <=> Forgotten(ref, n)
  BY <1>1 DEF Forgotten, Forget
<1>3. ASSUME NEW ref
      PROVE  Forgotten(ref, Len(to_config))' <=> Forgotten(ref, Len(to_config)) \/ m = Forget(ref)
  BY <1>1 DEF Forgotten, Forget
<1> QED
  BY <1>1, <1>2, <1>3

\* The messages behind the head stay bound if their callbacks stay.
LEMMA TakeRuns ==
  ASSUME TypeOK, RunsAreBound, to_config # <<>>, to_config' = Tail(to_config),
         \A c \in callbacks : c \notin callbacks' => Head(to_config) = Forget(c[1])
  PROVE  RunsAreBound'
<1> SUFFICES ASSUME NEW i \in 1 .. Len(to_config'), to_config'[i].kind = "RunCallback",
                    NEW ref, ref = to_config'[i].callback
             PROVE  /\ \E s \in Slot : <<ref, s>> \in callbacks'
                    /\ ~Forgotten(ref, i - 1)'
  BY DEF RunsAreBound, Forgotten, Forget
<1>1. to_config'[i] = to_config[i + 1] /\ i + 1 \in 1 .. Len(to_config)
  BY TakeConfig
<1>2. PICK s \in Slot : <<ref, s>> \in callbacks
  BY <1>1 DEF RunsAreBound
<1>3. ~Forgotten(ref, (i + 1) - 1)
  BY <1>1 DEF RunsAreBound
<1>4. (i + 1) - 1 = i /\ (i - 1) + 1 = i /\ i - 1 \in 0 .. Len(to_config') /\ 1 \in 1 .. i
  BY TakeConfig
<1>5. Forgotten(ref, i - 1)' => Forgotten(ref, (i - 1) + 1)
  BY <1>4, TakeConfig
<1>6. Head(to_config) # Forget(ref)
  BY <1>3, <1>4, TakeConfig DEF Forgotten
<1>7. <<ref, s>> \in callbacks'
  BY <1>2, <1>6
<1> QED
  BY <1>3, <1>4, <1>5, <1>7

\* A message that forgets nothing may be taken ...
LEMMA TakeOther ==
  ASSUME IInv, TypeOK', to_config # <<>>, to_config' = Tail(to_config),
         Head(to_config).kind # "ForgetCallback",
         UNCHANGED <<callbacks, callback_counter, on_startup, to_input, keymaps>>
  PROVE  IInv'
<1>1. \A ref : Forgotten(ref, Len(to_config))' <=> Forgotten(ref, Len(to_config))
  BY TakeConfig DEF IInv, Forget
<1>2. RefsAreUnique' /\ OneStartupCallback'
  BY DEF IInv, RefsAreUnique, OneStartupCallback
<1>3. InputIsFresh' /\ BindingsAreLive'
  BY <1>1 DEF IInv, InputIsFresh, BindingsAreLive
<1>4. NoKeymapLeak' /\ LastMapKeyWins'
  BY <1>1 DEF IInv, NoKeymapLeak, LastMapKeyWins, InFlight
<1>5. RunsAreBound'
  BY TakeRuns DEF IInv
<1>6. StartupIsKept'
  BY TakeConfig DEF IInv, StartupIsKept
<1> QED
  BY <1>2, <1>3, <1>4, <1>5, <1>6 DEF IInv

\* ... and sent, if what it runs is bound to a key and not to be forgotten.
LEMMA SendOther ==
  ASSUME IInv, TypeOK', NEW m \in ConfigMessage, to_config' = Append(to_config, m),
         m.kind # "ForgetCallback",
         m.kind = "RunCallback" =>
           /\ \E s \in Slot : <<m.callback, s>> \in callbacks
           /\ ~Forgotten(m.callback, Len(to_config)),
         UNCHANGED <<callbacks, callback_counter, on_startup, to_input, keymaps>>
  PROVE  IInv'
<1>0. \A ref : m # Forget(ref)
  BY DEF Forget
<1>1. \A ref : Forgotten(ref, Len(to_config))' <=> Forgotten(ref, Len(to_config))
  BY <1>0, SendConfig DEF IInv
<1>2. RefsAreUnique' /\ OneStartupCallback'
  BY DEF IInv, RefsAreUnique, OneStartupCallback
<1>3. InputIsFresh' /\ BindingsAreLive'
  BY <1>1 DEF IInv, InputIsFresh, BindingsAreLive
<1>4. NoKeymapLeak' /\ LastMapKeyWins'
  BY <1>1 DEF IInv, NoKeymapLeak, LastMapKeyWins, InFlight
<1>5. ASSUME NEW i \in 1 .. Len(to_config'), to_config'[i].kind = "RunCallback",
             NEW ref, ref = to_config'[i].callback
      PROVE  /\ \E s \in Slot : <<ref, s>> \in callbacks'
             /\ ~Forgotten(ref, i - 1)'
  <2>0. Len(to_config) \in Nat /\ Len(to_config') = Len(to_config) + 1
    BY SendConfig DEF IInv
  <2>1. i - 1 \in 0 .. Len(to_config)
    BY <2>0
  <2>2. Forgotten(ref, i - 1)' <=> Forgotten(ref, i - 1)
    BY <2>1, SendConfig DEF IInv
  <2>3. CASE i \in 1 .. Len(to_config)
    <3>1. to_config[i].kind = "RunCallback" /\ to_config[i].callback = ref
      BY <1>5, <2>3, SendConfig DEF IInv
    <3> QED
      BY <2>2, <2>3, <3>1 DEF IInv, RunsAreBound
  <2>4. CASE i = Len(to_config')
    <3>1. m.kind = "RunCallback" /\ m.callback = ref /\ i - 1 = Len(to_config)
      BY <1>5, <2>4, SendConfig DEF IInv
    <3> QED
      BY <2>2, <3>1
  <2>5. i \in 1 .. Len(to_config) \/ i = Len(to_config')
    BY <2>0
  <2> QED
    BY <2>3, <2>4, <2>5
<1>6. RunsAreBound'
  BY <1>5 DEF RunsAreBound, Forgotten, Forget
<1>7. StartupIsKept'
  BY SendConfig DEF IInv, StartupIsKept
<1> QED
  BY <1>2, <1>3, <1>4, <1>6, <1>7 DEF IInv

-----------------------------------------------------------------------------
(* The steps that change the registry *)

\* The table and the messages to the input thread are never forgotten, so the
\* callback that is forgotten is nobody's.
LEMMA ForgetIInv ==
  ASSUME IInv, TypeOK', HandleForgetCallback
  PROVE  IInv'
<1> USE DEF IInv
<1> DEFINE old == Head(to_config).callback
<1>1. /\ to_config # <<>> /\ to_config' = Tail(to_config)
      /\ callbacks' = {c \in callbacks : c[1] # old}
      /\ UNCHANGED <<callback_counter, on_startup, to_input, keymaps>>
  BY DEF HandleForgetCallback, Receive
<1>2. Head(to_config) = Forget(old)
  BY <1>1, TakeConfig DEF HandleForgetCallback, Receive, ConfigMessage, Forget
<1>3. Forgotten(old, Len(to_config))
  BY <1>1, <1>2, TakeConfig DEF Forgotten
<1>4. \A ref : Forgotten(ref, Len(to_config))' => Forgotten(ref, Len(to_config))
  <2>1. Len(to_config') \in 0 .. Len(to_config') /\ Len(to_config') + 1 = Len(to_config)
    BY <1>1, TakeConfig
  <2> QED
    BY <1>1, <2>1, TakeConfig
<1>5. \A ref : ref # old /\ Forgotten(ref, Len(to_config)) => Forgotten(ref, Len(to_config))'
  BY <1>1, <1>2, TakeConfig DEF Forget
<1> HIDE DEF old
<1>6. RefsAreUnique' /\ OneStartupCallback'
  BY <1>1 DEF RefsAreUnique, OneStartupCallback
<1>7. InputIsFresh' /\ BindingsAreLive'
  BY <1>1, <1>3, <1>4 DEF InputIsFresh, BindingsAreLive
<1>8. RunsAreBound'
  BY <1>1, <1>2, TakeRuns
<1>9. StartupIsKept'
  BY <1>1, TakeConfig DEF StartupIsKept
<1>10. NoKeymapLeak'
  BY <1>1, <1>5 DEF NoKeymapLeak, InFlight
<1>11. LastMapKeyWins'
  <2> SUFFICES ASSUME NEW s \in Slot, NEW c \in callbacks', c[2] = s,
                      \A d \in callbacks' : d[2] = s => d[1] <= c[1]
               PROVE  InFlight(c[1], s) \/ keymaps[s] = c[1]
    BY <1>1 DEF LastMapKeyWins, InFlight
  <2>1. \A d \in callbacks : d \notin callbacks' => d[1] = old
    BY <1>1
  <2>2. ASSUME NEW d \in callbacks, d[2] = s, ~(d[1] <= c[1])
        PROVE  FALSE
    <3>0. c[1] \in Nat /\ \A e \in callbacks : e[1] \in Nat
      BY <1>1 DEF TypeOK
    <3>1. d[1] = old
      BY <2>1, <2>2
    <3>2. \A e \in callbacks : e[2] = s => e[1] <= d[1]
      <4> SUFFICES ASSUME NEW e \in callbacks, e[2] = s PROVE e[1] <= d[1]
        OBVIOUS
      <4>1. e[1] = d[1] \/ e[1] <= c[1]
        BY <2>1, <3>1
      <4> QED
        BY <2>2, <3>0, <4>1
    <3>3. InFlight(d[1], s) \/ keymaps[s] = d[1]
      BY <2>2, <3>2 DEF LastMapKeyWins
    <3>4. ~InFlight(d[1], s)
      <4>1. DOMAIN to_input = 1 .. Len(to_input)
        BY SeqFacts DEF TypeOK
      <4>2. \A i \in DOMAIN to_input : to_input[i].callback # old
        BY <1>3, <4>1 DEF InputIsFresh
      <4> QED
        BY <3>1, <4>2 DEF InFlight
    <3>5. keymaps[s] # 0
      BY <3>3, <3>4 DEF RefsAreUnique
    <3> QED
      BY <1>3, <3>1, <3>3, <3>4, <3>5 DEF BindingsAreLive
  <2>3. c \in callbacks
    BY <1>1
  <2> QED
    BY <2>2, <2>3 DEF LastMapKeyWins
<1> QED
  BY <1>6, <1>7, <1>8, <1>9, <1>10, <1>11

LEMMA MapKeyIInv ==
  ASSUME IInv, TypeOK', MapKey
  PROVE  IInv'
<1> USE DEF IInv
<1> DEFINE n == callback_counter
<1>1. PICK p \in Slot \cup {NoSlot} :
        /\ Register(p)
        /\ callbacks' = callbacks \cup {<<n, p>>}
        /\ to_input' = Append(to_input, [key |-> p, callback |-> n])
        /\ UNCHANGED <<on_startup, on_connector_change>>
  BY DEF MapKey
<1>2. n \in Nat /\ callback_counter' = n + 1 /\ UNCHANGED <<to_config, keymaps>>
  BY <1>1 DEF Register, TypeOK
<1>3. /\ Len(to_input) \in Nat /\ Len(to_input') = Len(to_input) + 1
      /\ \A i \in 1 .. Len(to_input) : to_input'[i] = to_input[i]
      /\ to_input'[Len(to_input')].key = p /\ to_input'[Len(to_input')].callback = n
      /\ to_input'[Len(to_input')] = [key |-> p, callback |-> n]
      /\ DOMAIN to_input = 1 .. Len(to_input) /\ DOMAIN to_input' = 1 .. Len(to_input')
  BY <1>1, <1>2, Messages, AppendFacts, SeqFacts DEF TypeOK
<1>4. \A ref, k : Forgotten(ref, k)' <=> Forgotten(ref, k)
  BY <1>2 DEF Forgotten, Forget
<1>5. ~Forgotten(n, Len(to_config))
  <2> SUFFICES ASSUME NEW i \in 1 .. Len(to_config), to_config[i] = Forget(n) PROVE FALSE
    BY DEF Forgotten
  <2>1. to_config[i].kind = "ForgetCallback" /\ to_config[i].callback = n
    BY DEF Forget
  <2>2. n < n
    BY <2>1 DEF StartupIsKept
  <2> QED
    BY <1>2, <2>2
<1>6. \A ref, s : InFlight(ref, s) => InFlight(ref, s)'
  BY <1>3 DEF InFlight
<1>7. \E i \in DOMAIN to_input' : to_input'[i] = [key |-> p, callback |-> n]
  BY <1>2, <1>3
<1> HIDE DEF n
<1>8. RefsAreUnique'
  <2>1. \A c \in callbacks : 0 < c[1] /\ c[1] < n /\ on_startup < n
    BY DEF RefsAreUnique, n
  <2>2. 0 < n
    BY DEF TypeOK, n
  <2>3. \A c \in callbacks : c[1] \in Nat
    BY DEF TypeOK
  <2>4. on_startup \in Nat
    BY DEF TypeOK
  <2>5. \A c \in callbacks' : c \in callbacks \/ (c = <<n, p>> /\ c[1] = n)
    BY <1>1
  <2>6. \A c \in callbacks' : 0 < c[1] /\ c[1] < n + 1
    BY <1>2, <2>1, <2>2, <2>3, <2>5
  <2>7. \A c, d \in callbacks' : c[1] = d[1] => c = d
    <3>1. \A c \in callbacks : c[1] # n
      BY <1>2, <2>1, <2>3
    <3> QED
      BY <2>5, <3>1 DEF RefsAreUnique
  <2>8. on_startup' < n + 1
    BY <1>1, <1>2, <2>1, <2>4 DEF RefsAreUnique, n
  <2> QED
    BY <1>2, <2>6, <2>7, <2>8 DEF RefsAreUnique
<1>9. \A s \in Slot : keymaps[s] < n
  <2> TAKE s \in Slot
  <2>1. CASE keymaps[s] = 0
    BY <2>1 DEF TypeOK, n
  <2>2. CASE keymaps[s] # 0
    BY <2>2 DEF BindingsAreLive, RefsAreUnique, n
  <2> QED
    BY <2>1, <2>2
<1>10. \A i \in 1 .. Len(to_input) : to_input[i].callback < n
  BY DEF InputIsFresh, RefsAreUnique, n
<1>11. InputIsFresh'
  <2> SUFFICES ASSUME NEW i \in 1 .. Len(to_input'),
                      NEW ref, ref = to_input'[i].callback
               PROVE  /\ <<ref, to_input'[i].key>> \in callbacks'
                      /\ ~Forgotten(ref, Len(to_config))'
                      /\ \A s \in Slot : keymaps'[s] < ref
                      /\ \A j \in 1 .. Len(to_input') : i < j => ref < to_input'[j].callback
    BY DEF InputIsFresh, Forgotten, Forget
  <2>1. CASE i \in 1 .. Len(to_input)
    BY <1>1, <1>2, <1>3, <1>4, <1>10, <2>1 DEF InputIsFresh
  <2>2. CASE i = Len(to_input')
    BY <1>1, <1>2, <1>3, <1>4, <1>5, <1>9, <2>2
  <2>3. i \in 1 .. Len(to_input) \/ i = Len(to_input')
    BY <1>3
  <2> QED
    BY <2>1, <2>2, <2>3
<1>12. BindingsAreLive' /\ StartupIsKept'
  <2>1. BindingsAreLive'
    BY <1>1, <1>2, <1>4 DEF BindingsAreLive
  <2>2. \A i \in 1 .. Len(to_config) : to_config[i].callback \in Nat
    <3>1. \A i \in 1 .. Len(to_config) : to_config[i] \in ConfigMessage
      BY SeqFacts DEF TypeOK
    <3> QED
      BY <3>1 DEF ConfigMessage
  <2>3. \A i \in 1 .. Len(to_config) : to_config[i].callback < n => to_config[i].callback < n + 1
    BY <1>2, <2>2
  <2>4. StartupIsKept'
    BY <1>1, <1>2, <2>3 DEF StartupIsKept, n
  <2> QED
    BY <2>1, <2>4
<1>13. RunsAreBound'
  BY <1>1, <1>2, <1>4 DEF RunsAreBound
<1>14. OneStartupCallback'
  BY <1>1, <1>2, KeymapsAssumption DEF OneStartupCallback, RefsAreUnique, n
<1>15. NoKeymapLeak'
  <2> SUFFICES ASSUME NEW s \in Slot, NEW c \in callbacks', c[2] = s
               PROVE  keymaps[s] = c[1] \/ InFlight(c[1], s)' \/ Forgotten(c[1], Len(to_config))
    BY <1>2 DEF NoKeymapLeak, Forgotten, Forget, InFlight
  <2>1. CASE c \in callbacks
    BY <1>6, <2>1 DEF NoKeymapLeak
  <2>2. CASE c = <<n, p>>
    BY <1>7, <2>2 DEF InFlight
  <2> QED
    BY <1>1, <2>1, <2>2
<1>16. LastMapKeyWins'
  <2> SUFFICES ASSUME NEW s \in Slot, NEW c \in callbacks', c[2] = s,
                      \A d \in callbacks' : d[2] = s => d[1] <= c[1]
               PROVE  InFlight(c[1], s)' \/ keymaps[s] = c[1]
    BY <1>2 DEF LastMapKeyWins, InFlight
  <2>1. CASE c \in callbacks
    BY <1>1, <1>6, <2>1 DEF LastMapKeyWins
  <2>2. CASE c = <<n, p>>
    BY <1>7, <2>2 DEF InFlight
  <2> QED
    BY <1>1, <2>1, <2>2
<1> QED
  BY <1>8, <1>11, <1>12, <1>13, <1>14, <1>15, <1>16

\* Another callback is registered, and at most the startup callback removed.
LEMMA RegisterOther ==
  ASSUME IInv, TypeOK', NEW p \in {"on_startup", "on_connector_change"},
         NEW n, n = callback_counter, callback_counter' = n + 1,
         UNCHANGED <<to_config, to_input, keymaps>>,
         callbacks' \subseteq callbacks \cup {<<n, p>>},
         \A c \in callbacks : c[2] # "on_startup" => c \in callbacks',
         on_startup' \in {on_startup, n},
         OneStartupCallback'
  PROVE  IInv'
<1> USE DEF IInv
<1>1. n \in Nat /\ 0 < n /\ on_startup \in Nat /\ \A c \in callbacks : c[1] \in Nat
  BY DEF TypeOK
<1>2. \A ref, k : Forgotten(ref, k)' <=> Forgotten(ref, k)
  BY DEF Forgotten, Forget
<1>3. \A c \in callbacks' : c \in callbacks \/ (c = <<n, p>> /\ c[1] = n)
  OBVIOUS
<1>4. \A s \in Slot : \A ref : <<ref, s>> \in callbacks => <<ref, s>> \in callbacks'
  BY KeymapsAssumption
<1>5. \A s \in Slot, c \in callbacks : c[2] = s => c \in callbacks'
  BY KeymapsAssumption
<1>6. \A s \in Slot, c \in callbacks' : c[2] = s => c \in callbacks
  BY KeymapsAssumption
<1>7. RefsAreUnique'
  <2>1. \A c \in callbacks : 0 < c[1] /\ c[1] < n /\ on_startup < n
    BY DEF RefsAreUnique
  <2>2. \A c \in callbacks' : 0 < c[1] /\ c[1] < n + 1
    BY <1>1, <1>3, <2>1
  <2>3. \A c, d \in callbacks' : c[1] = d[1] => c = d
    <3>1. \A c \in callbacks : c[1] # n
      BY <1>1, <2>1
    <3> QED
      BY <1>3, <3>1 DEF RefsAreUnique
  <2>4. on_startup' < n + 1
    <3>1. CASE on_startup' = n
      BY <1>1, <3>1
    <3>2. CASE on_startup' = on_startup
      BY <1>1, <3>2 DEF RefsAreUnique
    <3> QED
      BY <3>1, <3>2
  <2> QED
    BY <2>2, <2>3, <2>4 DEF RefsAreUnique
<1>8. InputIsFresh'
  <2>1. \A i \in 1 .. Len(to_input) : <<to_input[i].callback, to_input[i].key>> \in callbacks'
    <3> SUFFICES ASSUME NEW i \in 1 .. Len(to_input)
                 PROVE  <<to_input[i].callback, to_input[i].key>> \in callbacks'
      OBVIOUS
    <3>1. to_input[i].key \in Slot \cup {NoSlot}
      <4>1. to_input[i] \in InputMessage
        BY SeqFacts DEF TypeOK
      <4> QED
        BY <4>1 DEF InputMessage
    <3>2. to_input[i].key # "on_startup"
      BY <3>1, KeymapsAssumption
    <3> QED
      BY <3>2 DEF InputIsFresh
  <2> QED
    BY <1>2, <2>1 DEF InputIsFresh
<1>9. BindingsAreLive'
  BY <1>2, <1>4 DEF BindingsAreLive
<1>10. RunsAreBound'
  BY <1>2, <1>4 DEF RunsAreBound
<1>11. StartupIsKept'
  <2> SUFFICES ASSUME NEW i \in 1 .. Len(to_config), to_config[i].kind = "ForgetCallback"
               PROVE  to_config[i].callback # on_startup' /\ to_config[i].callback < n + 1
    BY DEF StartupIsKept
  <2>1. to_config[i].callback \in Nat
    <3>1. to_config[i] \in ConfigMessage
      BY SeqFacts DEF TypeOK
    <3> QED
      BY <3>1 DEF ConfigMessage
  <2>2. to_config[i].callback # on_startup /\ to_config[i].callback < n
    BY DEF StartupIsKept
  <2> QED
    BY <1>1, <2>1, <2>2
<1>12. NoKeymapLeak'
  BY <1>2, <1>6 DEF NoKeymapLeak, InFlight
<1>13. LastMapKeyWins'
  BY <1>5, <1>6 DEF LastMapKeyWins, InFlight
<1> QED
  BY <1>7, <1>8, <1>9, <1>10, <1>11, <1>12, <1>13

LEMMA OnStartupIInv ==
  ASSUME IInv, TypeOK', OnStartup \/ OnConnectorChange
  PROVE  IInv'
<1> USE DEF IInv
<1> DEFINE n == callback_counter
<1>1. /\ n \in Nat /\ callback_counter' = n + 1
      /\ UNCHANGED <<to_config, to_input, keymaps>>
  BY DEF OnStartup, OnConnectorChange, Register, TypeOK
<1>2. \A c \in callbacks : c[1] # n
  BY <1>1 DEF RefsAreUnique, TypeOK
<1>3. CASE OnStartup
  <2>1. /\ callbacks' = {c \in callbacks : c[1] # on_startup} \cup {<<n, "on_startup">>}
        /\ on_startup' = n
    BY <1>3 DEF OnStartup
  <2>2. \A c \in callbacks : c[2] # "on_startup" => c \in callbacks'
    BY <2>1 DEF OneStartupCallback
  <2>3. OneStartupCallback'
    BY <1>2, <2>1 DEF OneStartupCallback
  <2> QED
    BY <1>1, <2>1, <2>2, <2>3, RegisterOther
<1>4. CASE OnConnectorChange
  <2>1. /\ callbacks' = callbacks \cup {<<n, "on_connector_change">>}
        /\ on_startup' = on_startup
    BY <1>4 DEF OnConnectorChange
  <2>2. OneStartupCallback'
    <3>1. on_startup # n
      BY <1>1 DEF RefsAreUnique, TypeOK
    <3> QED
      BY <2>1, <3>1 DEF OneStartupCallback
  <2> QED
    BY <1>1, <2>1, <2>2, RegisterOther
<1> QED
  BY <1>3, <1>4

-----------------------------------------------------------------------------
(* The step of the input thread *)

\* The message at the head is younger than the table and older than the rest.
LEMMA HeadIsNext ==
  ASSUME IInv, to_input # <<>>, to_input' = Tail(to_input)
  PROVE  LET m == Head(to_input) IN
         /\ m.key \in Slot \cup {NoSlot} /\ m.callback \in Nat
         /\ <<m.callback, m.key>> \in callbacks
         /\ ~Forgotten(m.callback, Len(to_config))
         /\ \A s \in Slot : keymaps[s] < m.callback
         /\ \A i \in 1 .. Len(to_input') :
              /\ to_input'[i] = to_input[i + 1] /\ i + 1 \in 1 .. Len(to_input)
              /\ m.callback < to_input'[i].callback
         /\ \A ref, s : InFlight(ref, s) =>
              InFlight(ref, s)' \/ m = [key |-> s, callback |-> ref]
<1> USE DEF IInv
<1>1. /\ Len(to_input) \in Nat /\ Len(to_input) >= 1
      /\ Len(to_input') = Len(to_input) - 1
      /\ Head(to_input) = to_input[1] /\ Head(to_input) \in InputMessage
      /\ \A i \in 1 .. Len(to_input') : to_input'[i] = to_input[i + 1]
      /\ DOMAIN to_input = 1 .. Len(to_input) /\ DOMAIN to_input' = 1 .. Len(to_input')
  BY TailFacts, SeqFacts DEF TypeOK
<1>2. 1 \in 1 .. Len(to_input)
  BY <1>1
<1>3. \A i \in 1 .. Len(to_input') : i + 1 \in 1 .. Len(to_input) /\ 1 < i + 1
  BY <1>1
<1>4. ASSUME NEW ref, NEW s, InFlight(ref, s), Head(to_input) # [key |-> s, callback |-> ref]
      PROVE  InFlight(ref, s)'
  <2>1. PICK i \in 1 .. Len(to_input) : to_input[i] = [key |-> s, callback |-> ref]
    BY <1>1, <1>4 DEF InFlight
  <2>2. i # 1
    BY <1>1, <1>4, <2>1
  <2>3. i - 1 \in 1 .. Len(to_input') /\ to_input'[i - 1] = [key |-> s, callback |-> ref]
    BY <1>1, <2>1, <2>2
  <2> QED
    BY <1>1, <2>3 DEF InFlight
<1>5. Head(to_input).key \in Slot \cup {NoSlot} /\ Head(to_input).callback \in Nat
  BY <1>1 DEF InputMessage
<1> QED
  BY <1>1, <1>2, <1>3, <1>4, <1>5 DEF InputIsFresh

LEMMA KeymapIInv ==
  ASSUME IInv, TypeOK', Keymap
  PROVE  IInv'
<1> USE DEF IInv
<1> DEFINE k == Head(to_input).key
           new == Head(to_input).callback
           old == keymaps[k]
<1>1. /\ to_input # <<>> /\ to_input' = Tail(to_input)
      /\ UNCHANGED <<callbacks, callback_counter, on_startup>>
  BY DEF Keymap, configVars
<1>2. /\ k \in Slot \cup {NoSlot} /\ new \in Nat
      /\ <<new, k>> \in callbacks
      /\ ~Forgotten(new, Len(to_config))
      /\ \A s \in Slot : keymaps[s] < new
      /\ \A i \in 1 .. Len(to_input') :
           /\ to_input'[i] = to_input[i + 1] /\ i + 1 \in 1 .. Len(to_input)
           /\ new < to_input'[i].callback
      /\ \A ref, s : InFlight(ref, s) => InFlight(ref, s)' \/ (k = s /\ new = ref)
  BY <1>1, HeadIsNext
<1>3. \A i \in 1 .. Len(to_input') : LET ref == to_input'[i].callback IN
        /\ <<ref, to_input'[i].key>> \in callbacks
        /\ ~Forgotten(ref, Len(to_config))
        /\ \A s \in Slot : keymaps[s] < ref
        /\ \A j \in 1 .. Len(to_input') : i < j => ref < to_input'[j].callback
  <2>1. \A i, j \in 1 .. Len(to_input') : i < j => i + 1 < j + 1
    BY <1>1, TailFacts DEF TypeOK
  <2> QED
    BY <1>2, <2>1 DEF InputIsFresh
<1>4. \A c \in callbacks : c \in Nat \X Purpose /\ 0 < c[1]
  BY DEF TypeOK, RefsAreUnique
<1> HIDE DEF k, new
<1>5. RefsAreUnique' /\ OneStartupCallback'
  BY <1>1 DEF RefsAreUnique, OneStartupCallback
<1>6. CASE k = NoSlot
  <2>1. UNCHANGED <<keymaps, to_config>>
    BY <1>6 DEF Keymap, k
  <2>2. \A ref, n : Forgotten(ref, n)' <=> Forgotten(ref, n)
    BY <2>1 DEF Forgotten, Forget
  <2>3. \A ref, s : s \in Slot /\ InFlight(ref, s) => InFlight(ref, s)'
    BY <1>2, <1>6, KeymapsAssumption
  <2>4. InputIsFresh'
    BY <1>1, <1>3, <2>1, <2>2 DEF InputIsFresh
  <2>5. BindingsAreLive' /\ RunsAreBound' /\ StartupIsKept'
    BY <1>1, <2>1, <2>2 DEF BindingsAreLive, RunsAreBound, StartupIsKept
  <2>6. NoKeymapLeak' /\ LastMapKeyWins'
    BY <1>1, <2>1, <2>2, <2>3 DEF NoKeymapLeak, LastMapKeyWins
  <2> QED
    BY <1>5, <2>4, <2>5, <2>6
<1>7. CASE k # NoSlot
  <2>1. /\ k \in Slot /\ old \in Nat /\ old < new
        /\ keymaps' = [keymaps EXCEPT ![k] = new]
        /\ to_config' = IF old = 0 THEN to_config ELSE Append(to_config, Forget(old))
    BY <1>2, <1>7 DEF Keymap, TypeOK, k, new
  <2>2. keymaps'[k] = new /\ \A s \in Slot : s # k => keymaps'[s] = keymaps[s]
    BY <2>1 DEF TypeOK
  <2>3. old # 0 => <<old, k>> \in callbacks
    BY <2>1 DEF BindingsAreLive
  <2> HIDE DEF old
  <2>4. Forget(old) \in ConfigMessage /\ \A ref : Forget(old) = Forget(ref) => ref = old
    BY <2>1, Messages DEF Forget
  <2>5. \A ref : Forgotten(ref, Len(to_config))' <=>
                   Forgotten(ref, Len(to_config)) \/ (old # 0 /\ ref = old)
    <3>1. CASE old = 0
      BY <2>1, <3>1 DEF Forgotten, Forget
    <3>2. CASE old # 0
      BY <2>1, <2>4, <3>2, SendConfig
    <3> QED
      BY <3>1, <3>2
  <2>6. InputIsFresh'
    <3>1. \A i \in 1 .. Len(to_input') : to_input'[i].callback # old
      BY <1>2, <2>1
    <3>2. ASSUME NEW i \in 1 .. Len(to_input'), NEW ref, ref = to_input'[i].callback
          PROVE  ~Forgotten(ref, Len(to_config))'
      <4>1. ~Forgotten(ref, Len(to_config)) /\ ref # old
        BY <1>3, <3>1, <3>2
      <4> QED
        BY <2>5, <4>1
    <3>3. \A i \in 1 .. Len(to_input') : \A s \in Slot : keymaps'[s] < to_input'[i].callback
      BY <1>2, <1>3, <2>2
    <3> SUFFICES ASSUME NEW i \in 1 .. Len(to_input'), NEW ref, ref = to_input'[i].callback
                 PROVE  /\ <<ref, to_input'[i].key>> \in callbacks'
                        /\ ~Forgotten(ref, Len(to_config))'
                        /\ \A s \in Slot : keymaps'[s] < ref
                        /\ \A j \in 1 .. Len(to_input') : i < j => ref < to_input'[j].callback
      BY DEF InputIsFresh, Forgotten, Forget
    <3> QED
      BY <1>1, <1>3, <3>2, <3>3
  <2>7. BindingsAreLive'
    <3> SUFFICES ASSUME NEW s \in Slot, NEW ref, ref = keymaps'[s], ref # 0
                 PROVE  <<ref, s>> \in callbacks /\ ~Forgotten(ref, Len(to_config))'
      BY <1>1 DEF BindingsAreLive, Forgotten, Forget
    <3>1. CASE s = k
      BY <1>2, <2>1, <2>2, <2>5, <3>1
    <3>2. CASE s # k
      <4>1. <<ref, s>> \in callbacks /\ ~Forgotten(ref, Len(to_config))
        BY <2>2, <3>2 DEF BindingsAreLive
      <4>2. ref # old
        BY <2>3, <3>2, <4>1 DEF RefsAreUnique
      <4> QED
        BY <2>5, <4>1, <4>2
    <3> QED
      BY <3>1, <3>2
  <2>8. RunsAreBound' /\ StartupIsKept'
    <3>1. CASE old = 0
      BY <1>1, <2>1, <3>1 DEF RunsAreBound, StartupIsKept, Forgotten, Forget
    <3>2. CASE old # 0
      <4>1. /\ Len(to_config) \in Nat /\ Len(to_config') = Len(to_config) + 1
            /\ \A i \in 1 .. Len(to_config) : to_config'[i] = to_config[i]
            /\ to_config'[Len(to_config')] = Forget(old)
            /\ \A ref : \A n \in 0 .. Len(to_config) : Forgotten(ref, n)' <=> Forgotten(ref, n)
        BY <2>1, <2>4, <3>2, SendConfig
      <4>2. \A i \in 1 .. Len(to_config') :
              i \in 1 .. Len(to_config) \/ i = Len(to_config')
        BY <4>1
      <4>3. \A i \in 1 .. Len(to_config) : i - 1 \in 0 .. Len(to_config)
        BY <4>1
      <4>4. Forget(old).kind = "ForgetCallback" /\ Forget(old).callback = old
        BY DEF Forget
      <4>5. RunsAreBound'
        <5> SUFFICES ASSUME NEW i \in 1 .. Len(to_config'), to_config'[i].kind = "RunCallback",
                            NEW ref, ref = to_config'[i].callback
                     PROVE  /\ \E s \in Slot : <<ref, s>> \in callbacks
                            /\ ~Forgotten(ref, i - 1)'
          BY <1>1 DEF RunsAreBound, Forgotten, Forget
        <5>1. i \in 1 .. Len(to_config)
          BY <4>1, <4>2, <4>4
        <5>2. to_config[i].kind = "RunCallback" /\ to_config[i].callback = ref
          BY <4>1, <5>1
        <5> QED
          BY <4>1, <4>3, <5>1, <5>2 DEF RunsAreBound
      <4>6. old # on_startup /\ old < callback_counter
        <5>1. <<old, k>>[1] = old /\ <<old, k>>[2] = k /\ k # "on_startup"
          BY <2>1, KeymapsAssumption
        <5> QED
          BY <2>3, <3>2, <5>1 DEF OneStartupCallback, RefsAreUnique
      <4>7. StartupIsKept'
        <5> SUFFICES ASSUME NEW i \in 1 .. Len(to_config'),
                            to_config'[i].kind = "ForgetCallback"
                     PROVE  /\ to_config'[i].callback # on_startup
                            /\ to_config'[i].callback < callback_counter
          BY <1>1 DEF StartupIsKept
        <5> QED
          BY <4>1, <4>2, <4>4, <4>6 DEF StartupIsKept
      <4> QED
        BY <4>5, <4>7
    <3> QED
      BY <3>1, <3>2
  <2>9. NoKeymapLeak'
    <3> SUFFICES ASSUME NEW s \in Slot, NEW c \in callbacks, c[2] = s
                 PROVE  keymaps'[s] = c[1] \/ InFlight(c[1], s)' \/ Forgotten(c[1], Len(to_config))'
      BY <1>1 DEF NoKeymapLeak, InFlight, Forgotten, Forget
    <3>1. CASE keymaps[s] = c[1]
      <4>1. s = k => c[1] = old /\ old # 0
        BY <1>4, <3>1 DEF old
      <4> QED
        BY <2>2, <2>5, <3>1, <4>1
    <3>2. CASE InFlight(c[1], s)
      BY <1>2, <2>2, <3>2
    <3>3. CASE Forgotten(c[1], Len(to_config))
      BY <2>5, <3>3
    <3> QED
      BY <3>1, <3>2, <3>3 DEF NoKeymapLeak
  <2>10. LastMapKeyWins'
    <3> SUFFICES ASSUME NEW s \in Slot, NEW c \in callbacks, c[2] = s,
                        \A d \in callbacks : d[2] = s => d[1] <= c[1]
                 PROVE  InFlight(c[1], s)' \/ keymaps'[s] = c[1]
      BY <1>1 DEF LastMapKeyWins, InFlight
    <3>1. CASE InFlight(c[1], s)
      BY <1>2, <2>2, <3>1
    <3>2. CASE keymaps[s] = c[1]
      <4>1. s = k => new <= old
        <5>1. <<new, k>>[1] = new /\ <<new, k>>[2] = k
          OBVIOUS
        <5> QED
          BY <1>2, <3>2, <5>1 DEF old
      <4> QED
        BY <1>2, <2>1, <2>2, <3>2, <4>1
    <3> QED
      BY <3>1, <3>2 DEF LastMapKeyWins
  <2> QED
    BY <1>5, <2>6, <2>7, <2>8, <2>9, <2>10
<1> QED
  BY <1>6, <1>7

-----------------------------------------------------------------------------
(* The invariant and what follows from it *)

LEMMA NextIInv == IInv /\ [Next]_vars => IInv'
<1> SUFFICES ASSUME IInv, [Next]_vars PROVE IInv'
  OBVIOUS
<1>1. TypeOK'
  BY NextTypeOK DEF IInv
<1>2. CASE HandleRunCallback \/ HandleStartup \/ HandleConnectorChange
  BY <1>1, <1>2, TakeOther
     DEF HandleRunCallback, HandleStartup, HandleConnectorChange, Receive
<1>3. CASE HandleForgetCallback
  BY <1>1, <1>3, ForgetIInv
<1>4. CASE ReloadConfig \/ EndDispatch \/ UNCHANGED vars
  <2>1. UNCHANGED <<callbacks, callback_counter, on_startup, to_config, to_input, keymaps>>
    BY <1>4 DEF ReloadConfig, EndDispatch, vars, configVars
  <2>2. \A ref, n : Forgotten(ref, n)' <=> Forgotten(ref, n)
    BY <2>1 DEF Forgotten, Forget
  <2>3. RefsAreUnique' /\ InputIsFresh' /\ BindingsAreLive'
    BY <2>1, <2>2 DEF IInv, RefsAreUnique, InputIsFresh, BindingsAreLive
  <2>4. RunsAreBound' /\ StartupIsKept'
    BY <2>1, <2>2 DEF IInv, RunsAreBound, StartupIsKept
  <2>5. OneStartupCallback' /\ NoKeymapLeak' /\ LastMapKeyWins'
    BY <2>1, <2>2 DEF IInv, OneStartupCallback, NoKeymapLeak, LastMapKeyWins, InFlight
  <2> QED
    BY <1>1, <2>3, <2>4, <2>5 DEF IInv
<1>5. CASE MapKey
  BY <1>1, <1>5, MapKeyIInv
<1>6. CASE OnStartup \/ OnConnectorChange
  BY <1>1, <1>6, OnStartupIInv
<1>7. CASE Keymap
  BY <1>1, <1>7, KeymapIInv
<1>8. ASSUME NEW s \in Slot, Shortcut(s) PROVE IInv'
  <2> DEFINE m == [kind |-> "RunCallback", callback |-> keymaps[s]]
  <2>1. /\ m \in ConfigMessage /\ m.kind = "RunCallback" /\ m.callback = keymaps[s]
    BY Messages DEF IInv, TypeOK
  <2>2. /\ to_config' = Append(to_config, m)
        /\ UNCHANGED <<callbacks, callback_counter, on_startup, to_input, keymaps>>
    BY <1>8 DEF Shortcut, configVars
  <2>3. /\ <<keymaps[s], s>> \in callbacks
        /\ ~Forgotten(keymaps[s], Len(to_config))
    BY <1>8 DEF Shortcut, IInv, BindingsAreLive
  <2> HIDE DEF m
  <2> QED
    BY <1>1, <2>1, <2>2, <2>3, SendOther
<1>9. CASE SendStartup \/ SendConnectorChange
  <2>1. PICK m \in ConfigMessage :
          m.kind \in {"Startup", "ConnectorChange"} /\ to_config' = Append(to_config, m)
    BY <1>9, Messages DEF SendStartup, SendConnectorChange
  <2>2. UNCHANGED <<callbacks, callback_counter, on_startup, to_input, keymaps>>
    BY <1>9 DEF SendStartup, SendConnectorChange, configVars
  <2> QED
    BY <1>1, <2>1, <2>2, SendOther
<1> QED
  BY <1>2, <1>3, <1>4, <1>5, <1>6, <1>7, <1>8, <1>9 DEF Next, HandleMessage, RunIdles

LEMMA Invariance == Spec => []IInv
BY InitIInv, NextIInv, PTL DEF Spec

\* A key press never runs a callback that is not registered.
THEOREM PressesRunLiveCallbacks == Spec => []NoDanglingRun
<1>1. IInv => NoDanglingRun
  <2> SUFFICES ASSUME IInv PROVE NoDanglingRun
    OBVIOUS
  <2>1. DOMAIN to_config = 1 .. Len(to_config)
    BY SeqFacts DEF IInv, TypeOK
  <2>2. Slot \subseteq Purpose
    BY DEF Purpose
  <2> QED
    BY <2>1, <2>2 DEF IInv, RunsAreBound, NoDanglingRun, Registered
<1> QED
  BY <1>1, Invariance, PTL

\* The table of the input thread names only live callbacks of the right key.
THEOREM TableIsLive == Spec => []BindingsAreLive
BY Invariance, PTL DEF IInv

\* The last map_key of a key wins.
THEOREM LastWins == Spec => []LastMapKeyWins
BY Invariance, PTL DEF IInv

\* Remapping a key leaks no callback.
THEOREM NoLeak == Spec => []NoKeymapLeak
BY Invariance, PTL DEF IInv

\* At most one startup callback is registered.
THEOREM StartupIsUnique == Spec => []OneStartupCallback
BY Invariance, PTL DEF IInv
=============================================================================
