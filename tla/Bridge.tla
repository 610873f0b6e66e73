------------------------------- MODULE Bridge -------------------------------
(***************************************************************************)
(* The life of the bridge's process: server.go runs the HTTP listener and  *)
(* the mcuc manager (mcuc/manager.go), whose connector keeps an mcu.Client *)
(* (mcu/client.go) connected to the kwm server.  For each attach message   *)
(* the client starts a plugin, an RTMChannelSFU (rtmcsfu.go) with its own  *)
(* websocket, which gets at most one channel.                              *)
(*                                                                         *)
(* A transaction is attached once: the server makes a new one for each     *)
(* attach message, so a plugin is named by its transaction.  There is no   *)
(* detach: readPump passes the message on, but the case for it in          *)
(* handleWebsocketMessage is misspelt (client.go:247) and nothing is done. *)
(***************************************************************************)
EXTENDS Naturals, FiniteSets

CONSTANTS
  Transactions,  \* that the server attaches plugins for
  MaxSignals     \* bound: SIGINT and SIGTERM

ASSUME BridgeAssumption == MaxSignals \in Nat

VARIABLES
  server,      \* Serve
  forced,      \* it did not wait for the managers to its end
  http,        \* the goroutine of the HTTP listener
  signalled,   \* signalCh is full
  signals,     \* how many signals there have been
  done,        \* serveCtx is cancelled
  client,      \* the connector with its mcu.Client
  attached,    \* mcu.attached
  plugin,      \* the plugins and the goroutines that run them
  channel,     \* their channels
  workers      \* the transactions whose channel has its workers running

serverVars == <<server, forced, http, signalled, signals, done>>
pluginVars == <<attached, plugin, channel, workers>>
vars == <<serverVars, client, pluginVars>>

PluginPoint == {"none", "starting", "running", "ended", "closed", "gone"}
TypeOK ==
  /\ server \in {"serving", "shutdown", "waiting", "stopped"}
  /\ forced \in BOOLEAN /\ signalled \in BOOLEAN /\ done \in BOOLEAN
  /\ http \in {"serving", "failed", "stopped"}
  /\ signals \in 0..MaxSignals
  /\ client \in {"dialing", "connected", "waiting", "stopped"}
  /\ attached \subseteq Transactions
  /\ plugin \in [Transactions -> PluginPoint]
  /\ channel \in [Transactions -> {"none", "open", "closed"}]
  /\ workers \subseteq Transactions
  /\ done <=> server \in {"waiting", "stopped"}

Up == server # "stopped"   \* the process runs

-----------------------------------------------------------------------------
(* The server. *)

Signal ==
  /\ Up
  /\ signals < MaxSignals
  /\ signals' = signals + 1
  /\ signalled' = TRUE
  /\ UNCHANGED <<server, forced, http, done, client, pluginVars>>

ListenerFails ==
  /\ Up
  /\ http = "serving"
  /\ http' = "failed"
  /\ UNCHANGED <<server, forced, signalled, signals, done, client, pluginVars>>

(* Shutdown makes srv.Serve return at once. *)
Shutdown ==
  /\ server = "serving"
  /\ \/ http = "failed" /\ UNCHANGED signalled
     \/ signalled /\ signalled' = FALSE
  /\ server' = "shutdown"
  /\ http' = "stopped"
  /\ UNCHANGED <<forced, signals, done, client, pluginVars>>

(* Mutant: the managers are waited for, but their context is not done. *)
CancelForgotten ==
  /\ server = "shutdown"
  /\ server' = "waiting"
  /\ UNCHANGED <<forced, http, done, signalled, signals, client, pluginVars>>

(* Requests are served, or ten seconds are over. *)
Cancel ==
  /\ server = "shutdown"
  /\ server' = "waiting"
  /\ done' = TRUE
  /\ UNCHANGED <<forced, http, signalled, signals, client, pluginVars>>

Exit ==
  /\ server = "waiting"
  /\ http # "serving" /\ client = "stopped"
  /\ server' = "stopped"
  /\ UNCHANGED <<forced, http, signalled, signals, done, client, pluginVars>>

ForcedExit ==
  /\ server = "waiting"
  /\ signalled
  /\ signalled' = FALSE
  /\ forced' = TRUE
  /\ server' = "stopped"
  /\ UNCHANGED <<http, signals, done, client, pluginVars>>

-----------------------------------------------------------------------------
(* The connector and its client. *)

Dial ==
  /\ Up
  /\ client = "dialing"
  /\ \/ ~done /\ client' = "connected"
     \/ client' = "waiting"
  /\ UNCHANGED <<serverVars, pluginVars>>

(* readPump returns when its context is done, or with an error. *)
ClientEnds ==
  /\ Up
  /\ client = "connected"
  /\ client' = "waiting"
  /\ UNCHANGED <<serverVars, pluginVars>>

Retry ==
  /\ Up
  /\ client = "waiting"
  /\ client' = IF done THEN "stopped" ELSE "dialing"
  /\ UNCHANGED <<serverVars, pluginVars>>

Attach(x) ==
  /\ Up
  /\ client = "connected"
  /\ plugin[x] = "none"
  /\ ~done
  /\ attached' = attached \cup {x}
  /\ plugin' = [plugin EXCEPT ![x] = "starting"]
  /\ UNCHANGED <<serverVars, client, channel, workers>>

(* One plugin that cannot be attached ends the connection. *)
AttachFails(x) ==
  /\ Up
  /\ client = "connected"
  /\ plugin[x] = "none"
  /\ plugin' = [plugin EXCEPT ![x] = "gone"]
  /\ client' = "waiting"
  /\ UNCHANGED <<serverVars, attached, channel, workers>>

-----------------------------------------------------------------------------
(* The plugin of transaction x. *)

PluginAt(x, point) == plugin' = [plugin EXCEPT ![x] = point]
ChannelAt(x, state) == channel' = [channel EXCEPT ![x] = state]

PluginStart(x) ==
  /\ Up
  /\ plugin[x] = "starting"
  /\ PluginAt(x, "running")
  /\ UNCHANGED <<serverVars, client, attached, channel, workers>>

(* A second channel, or one without a pipeline, is an error. *)
ChannelMessage(x) ==
  /\ Up
  /\ plugin[x] = "running"
  /\ \/ /\ channel[x] = "none"
        /\ ChannelAt(x, "open")
        /\ workers' = workers \cup {x}
        /\ UNCHANGED plugin
     \/ PluginAt(x, "ended") /\ UNCHANGED <<channel, workers>>
  /\ UNCHANGED <<serverVars, client, attached>>

(* The server closes the plugin's websocket, or it breaks. *)
WebsocketEnds(x) ==
  /\ Up
  /\ plugin[x] = "running"
  /\ PluginAt(x, "ended")
  /\ UNCHANGED <<serverVars, client, attached, channel, workers>>

PluginCancelled(x) ==
  /\ Up
  /\ plugin[x] = "running"
  /\ done
  /\ PluginAt(x, "ended")
  /\ UNCHANGED <<serverVars, client, attached, channel, workers>>

(* Mutant: Close leaves the channel to itself. *)
PluginCloseOnly(x) ==
  /\ Up
  /\ plugin[x] = "ended"
  /\ PluginAt(x, "closed")
  /\ UNCHANGED <<serverVars, client, attached, channel, workers>>

PluginClose(x) ==
  /\ Up
  /\ plugin[x] = "ended"
  /\ PluginAt(x, "closed")
  /\ IF channel[x] = "open" THEN ChannelAt(x, "closed") ELSE UNCHANGED channel
  /\ UNCHANGED <<serverVars, client, attached, workers>>

PluginPop(x) ==
  /\ Up
  /\ plugin[x] = "closed"
  /\ PluginAt(x, "gone")
  /\ attached' = attached \ {x}
  /\ UNCHANGED <<serverVars, client, channel, workers>>

(* The workers of a channel see that it is closed, or that the context of  *)
(* the plugin is done, which Close cancels and which is the server's.      *)
WorkersEnd(x) ==
  /\ Up
  /\ x \in workers
  /\ channel[x] = "closed" \/ done
  /\ workers' = workers \ {x}
  /\ UNCHANGED <<serverVars, client, attached, plugin, channel>>

-----------------------------------------------------------------------------
Init ==
  /\ server = "serving" /\ forced = FALSE
  /\ http = "serving"
  /\ signalled = FALSE /\ signals = 0
  /\ done = FALSE
  /\ client = "dialing"
  /\ attached = {} /\ workers = {}
  /\ plugin = [x \in Transactions |-> "none"]
  /\ channel = [x \in Transactions |-> "none"]

Serve == Shutdown \/ Cancel \/ Exit \/ ForcedExit
Connector == Dial \/ Retry \/ (done /\ ClientEnds)
PluginStep(x) ==
  PluginStart(x) \/ PluginCancelled(x) \/ PluginClose(x) \/ PluginPop(x)

Next ==
  \/ Signal \/ ListenerFails \/ Serve
  \/ Dial \/ ClientEnds \/ Retry
  \/ \E x \in Transactions :
       \/ Attach(x) \/ AttachFails(x)
       \/ PluginStep(x) \/ ChannelMessage(x) \/ WebsocketEnds(x) \/ WorkersEnd(x)

Spec == Init /\ [][Next]_vars

(* Goroutines go on when they can, a dial returns, and a cancelled context *)
(* ends what waits for it.  Nothing is expected of the kwm server.         *)
FairSpec ==
  /\ Spec
  /\ WF_vars(Serve) /\ WF_vars(Connector)
  /\ \A x \in Transactions : WF_vars(PluginStep(x)) /\ WF_vars(WorkersEnd(x))

-----------------------------------------------------------------------------
(* Without a second signal the process does not exit before the listener   *)
(* has stopped and the connector with its connection is gone.              *)
CleanExit ==
  server = "stopped" /\ ~forced => http = "stopped" /\ client = "stopped"

(* An open channel, and workers of a channel, belong to an attached plugin *)
(* or are about to end: whatever ends a plugin, nothing of it is lost      *)
(* sight of.                                                               *)
NoOrphanChannel ==
  \A x \in Transactions :
    /\ channel[x] = "open" => x \in attached
    /\ x \in workers => x \in attached \/ channel[x] = "closed"

(* A signal or a listener that fails ends the process, though dials, lost  *)
(* connections and attach messages go on meanwhile.                        *)
ShutdownCompletes == signalled \/ http = "failed" ~> server = "stopped"

(* A plugin that has ended, or whose server is shutting down, is detached, *)
(* and its channel's workers end, if the process lives long enough.        *)
PluginsEnd ==
  \A x \in Transactions :
    plugin[x] = "ended" \/ (plugin[x] = "running" /\ done)
      ~> (x \notin attached /\ x \notin workers) \/ ~Up
=============================================================================
