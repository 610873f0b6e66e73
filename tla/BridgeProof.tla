----------------------------- MODULE BridgeProof -----------------------------
(***************************************************************************)
(* Proofs about Bridge for all transactions and any number of signals.     *)
(***************************************************************************)
EXTENDS Bridge, TLAPS

(* The listener has stopped with the first step of the shutdown, and the   *)
(* process ends without the connector only when it is forced to.           *)
ServerInv ==
  /\ server # "serving" => http = "stopped"
  /\ server = "stopped" /\ ~forced => client = "stopped"

(* Where a plugin is says whether it is attached; its channel is open only *)
(* until Close; workers are those of a channel.                            *)
PluginInv ==
  \A x \in Transactions :
    /\ plugin[x] \in {"starting", "running", "ended", "closed"} => x \in attached
    /\ channel[x] = "open" => plugin[x] \in {"running", "ended"}
    /\ x \in workers => channel[x] # "none"

BridgeInv == TypeOK /\ ServerInv /\ PluginInv

-----------------------------------------------------------------------------
LEMMA BridgeInit ==
  ASSUME BridgeAssumption, Init
  PROVE  BridgeInv
<1>1. TypeOK
  <2>1. signals \in 0..MaxSignals
    BY DEF BridgeAssumption, Init
  <2>2. /\ plugin \in [Transactions -> PluginPoint]
        /\ channel \in [Transactions -> {"none", "open", "closed"}]
    BY DEF Init, PluginPoint
  <2>3. done <=> server \in {"waiting", "stopped"}
    BY DEF Init
  <2> QED BY <2>1, <2>2, <2>3 DEF TypeOK, Init
<1>2. ServerInv /\ PluginInv
  BY DEF Init, ServerInv, PluginInv
<1> QED BY <1>1, <1>2 DEF BridgeInv

(* The server and the connector leave the plugins alone.                   *)
LEMMA ServerStep ==
  ASSUME BridgeAssumption, BridgeInv, Signal \/ ListenerFails \/ Serve
  PROVE  BridgeInv'
<1>1. PluginInv'
  BY DEF Signal, ListenerFails, Serve, Shutdown, Cancel, Exit, ForcedExit, pluginVars,
     BridgeInv, PluginInv
<1>2. CASE Signal
  BY <1>1, <1>2 DEF BridgeAssumption, Signal, pluginVars, BridgeInv, TypeOK, ServerInv
<1>3. CASE ListenerFails
  BY <1>1, <1>3 DEF ListenerFails, Up, pluginVars, BridgeInv, TypeOK, ServerInv
<1>4. CASE Shutdown
  BY <1>1, <1>4 DEF Shutdown, pluginVars, BridgeInv, TypeOK, ServerInv
<1>5. CASE Cancel
  BY <1>1, <1>5 DEF Cancel, pluginVars, BridgeInv, TypeOK, ServerInv
<1>6. CASE Exit
  BY <1>1, <1>6 DEF Exit, pluginVars, BridgeInv, TypeOK, ServerInv
<1>7. CASE ForcedExit
  BY <1>1, <1>7 DEF ForcedExit, pluginVars, BridgeInv, TypeOK, ServerInv
<1> QED BY <1>2, <1>3, <1>4, <1>5, <1>6, <1>7 DEF Serve

LEMMA ConnectorStep ==
  ASSUME BridgeInv, Dial \/ ClientEnds \/ Retry
  PROVE  BridgeInv'
BY DEF Dial, ClientEnds, Retry, Up, serverVars, pluginVars, BridgeInv, TypeOK, ServerInv,
   PluginInv

(* A plugin goes to another point with its channel and workers.            *)
LEMMA PluginTypes ==
  ASSUME TypeOK, NEW x \in Transactions, UNCHANGED serverVars,
         client' \in {client, "waiting"},
         attached' \in {attached, attached \cup {x}, attached \ {x}},
         workers' \in {workers, workers \cup {x}, workers \ {x}},
         plugin' = plugin \/ \E point \in PluginPoint : PluginAt(x, point),
         channel' = channel \/ \E state \in {"open", "closed"} : ChannelAt(x, state)
  PROVE  TypeOK'
<1>1. plugin' \in [Transactions -> PluginPoint]
  BY DEF TypeOK, PluginAt
<1>2. channel' \in [Transactions -> {"none", "open", "closed"}]
  BY DEF TypeOK, ChannelAt
<1>3. attached' \subseteq Transactions /\ workers' \subseteq Transactions
  BY DEF TypeOK
<1> QED BY <1>1, <1>2, <1>3 DEF TypeOK, serverVars

LEMMA AttachStep ==
  ASSUME BridgeInv, NEW x \in Transactions, Attach(x) \/ AttachFails(x)
  PROVE  BridgeInv'
<1>1. TypeOK'
  <2>1. /\ UNCHANGED <<serverVars, workers, channel>>
        /\ client' \in {client, "waiting"}
        /\ attached' \in {attached, attached \cup {x}}
        /\ PluginAt(x, "starting") \/ PluginAt(x, "gone")
    BY DEF Attach, AttachFails, PluginAt
  <2> QED BY <2>1, PluginTypes DEF BridgeInv, PluginPoint
<1>2. ServerInv'
  BY DEF Attach, AttachFails, Up, serverVars, BridgeInv, ServerInv
<1>3. PluginInv'
  BY DEF Attach, AttachFails, BridgeInv, TypeOK, PluginInv
<1> QED BY <1>1, <1>2, <1>3 DEF BridgeInv

LEMMA PluginGoesOn ==
  ASSUME BridgeInv, NEW x \in Transactions,
         PluginStep(x) \/ ChannelMessage(x) \/ WebsocketEnds(x) \/ WorkersEnd(x)
  PROVE  BridgeInv'
<1> USE DEF PluginAt, ChannelAt
<1>1. TypeOK'
  <2>1. UNCHANGED <<serverVars, client>>
    BY DEF PluginStep, PluginStart, PluginCancelled, PluginClose, PluginPop,
       ChannelMessage, WebsocketEnds, WorkersEnd
  <2>2. attached' \in {attached, attached \ {x}} /\ workers' \in {workers, workers \cup {x}, workers \ {x}}
    BY DEF PluginStep, PluginStart, PluginCancelled, PluginClose, PluginPop,
       ChannelMessage, WebsocketEnds, WorkersEnd
  <2>3. plugin' = plugin \/ \E point \in PluginPoint : PluginAt(x, point)
    BY DEF PluginStep, PluginStart, PluginCancelled, PluginClose, PluginPop,
       ChannelMessage, WebsocketEnds, WorkersEnd, PluginPoint
  <2>4. channel' = channel \/ \E state \in {"open", "closed"} : ChannelAt(x, state)
    BY DEF PluginStep, PluginStart, PluginCancelled, PluginClose, PluginPop,
       ChannelMessage, WebsocketEnds, WorkersEnd
  <2> QED BY <2>1, <2>2, <2>3, <2>4, PluginTypes DEF BridgeInv
<1>2. ServerInv'
  BY DEF PluginStep, PluginStart, PluginCancelled, PluginClose, PluginPop,
     ChannelMessage, WebsocketEnds, WorkersEnd, serverVars, BridgeInv, ServerInv
<1>3. PluginInv'
  <2>1. CASE PluginStart(x) \/ PluginCancelled(x) \/ WebsocketEnds(x)
    BY <2>1 DEF PluginStart, PluginCancelled, WebsocketEnds, BridgeInv, TypeOK, PluginInv
  <2>2. CASE PluginClose(x)
    BY <2>2 DEF PluginClose, BridgeInv, TypeOK, PluginInv
  <2>3. CASE PluginPop(x)
    BY <2>3 DEF PluginPop, BridgeInv, TypeOK, PluginInv
  <2>4. CASE ChannelMessage(x)
    BY <2>4 DEF ChannelMessage, BridgeInv, TypeOK, PluginInv
  <2>5. CASE WorkersEnd(x)
    BY <2>5 DEF WorkersEnd, BridgeInv, TypeOK, PluginInv
  <2> QED BY <2>1, <2>2, <2>3, <2>4, <2>5 DEF PluginStep
<1> QED BY <1>1, <1>2, <1>3 DEF BridgeInv

LEMMA BridgeInvariant == Spec => []BridgeInv
<1>1. Init => BridgeInv
  BY BridgeAssumption, BridgeInit
<1>2. BridgeInv /\ [Next]_vars => BridgeInv'
  <2> SUFFICES ASSUME BridgeInv, [Next]_vars
               PROVE  BridgeInv'
    OBVIOUS
  <2>1. CASE UNCHANGED vars
    BY <2>1 DEF vars, serverVars, pluginVars, BridgeInv, TypeOK, ServerInv, PluginInv
  <2> QED BY <2>1, BridgeAssumption, ServerStep, ConnectorStep, AttachStep, PluginGoesOn DEF Next
<1> QED BY <1>1, <1>2, PTL DEF Spec

(* Every variable of the process keeps its type, and its context is done   *)
(* exactly from the end of the listener's shutdown on.                     *)
THEOREM BridgeTypes == Spec => []TypeOK
<1>1. BridgeInv => TypeOK
  BY DEF BridgeInv
<1> QED BY <1>1, BridgeInvariant, PTL

(* Without being forced the process does not exit before the listener and  *)
(* the connector, whatever signals and lost connections there are.         *)
THEOREM ExitsClean == Spec => []CleanExit
<1>1. BridgeInv => CleanExit
  BY DEF BridgeInv, ServerInv, CleanExit
<1> QED BY <1>1, BridgeInvariant, PTL

(* No channel and no workers of a plugin are lost sight of, for any number *)
(* of plugins.                                                             *)
THEOREM NoOrphans == Spec => []NoOrphanChannel
<1>1. BridgeInv => NoOrphanChannel
  BY DEF BridgeInv, TypeOK, PluginInv, NoOrphanChannel
<1> QED BY <1>1, BridgeInvariant, PTL
=============================================================================
